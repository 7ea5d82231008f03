--------------------------- MODULE Console_proofs ---------------------------
(***************************************************************************)
(* What the two programs with a terminal write to it, for any depth of the *)
(* FIFO: the radio's program, for any settings and any keys, and the log,  *)
(* for any formats and any interrupts.  Numbers are printed digit by digit *)
(* and read back by a fold, so the first part is about definitions by      *)
(* recursion.  Program_proofs has the theorems that follow.                *)
(***************************************************************************)
EXTENDS SdrMain, Log, SequenceTheorems, FiniteSetTheorems, WellFoundedInduction, TLAPS

-----------------------------------------------------------------------------
(* Every non-empty set of naturals has a least element.                    *)
LEMMA LeastNatural ==
  ASSUME NEW S \in SUBSET Nat, S # {}
  PROVE  \E n \in S : \A m \in S : n <= m
<1> DEFINE R == OpToRel(<, Nat)
<1>1. \A a, b \in Nat : a < b => <<a, b>> \in R
  BY DEF OpToRel
<1>2. IsWellFoundedOn(R, Nat)
  BY NatLessThanWellFounded
<1> HIDE DEF R
<1>3. PICK n \in S : \A m \in S : ~ (<<m, n>> \in R)
  BY <1>2, WFMin
<1>4. \A m \in S : ~ (m < n)
  BY <1>1, <1>3, Zenon
<1> QED
  BY <1>4

(* A number is what its quotient and its remainder say.                    *)
LEMMA Division ==
  ASSUME NEW a \in Nat, NEW b \in Nat \ {0}
  PROVE  /\ a \div b \in Nat /\ a % b \in 0 .. b - 1
         /\ a = b * (a \div b) + (a % b)
OBVIOUS

-----------------------------------------------------------------------------
(* Definitions by recursion.  A function is defined on a set of which every *)
(* element has a measure, and one of a smaller measure that the function is *)
(* taken of next, or the measure 0.                                         *)
Recursive(g, S, m, next, base, F) ==
  \A x \in S : g[x] = IF m[x] = 0 THEN base[x] ELSE F[<<x, g[next[x]]>>]

LEMMA Recursion ==
  ASSUME NEW S, NEW V, NEW m \in [S -> Nat], NEW next \in [S -> S],
         \A x \in S : m[x] # 0 => m[next[x]] < m[x],
         NEW base \in [S -> V], NEW F \in [S \X V -> V]
  PROVE  \E g \in [S -> V] : Recursive(g, S, m, next, base, F)
<1> DEFINE Holds(h, x) == h[x] = IF m[x] = 0 THEN base[x] ELSE F[<<x, h[next[x]]>>]
           Approx(n)   == {h \in [S -> V] : \A x \in S : m[x] < n => Holds(h, x)}
           Missing     == {n \in Nat : Approx(n) = {}}
<1>1. \A n \in Nat : Approx(n) # {}
  <2> SUFFICES ASSUME Missing # {} PROVE FALSE
    OBVIOUS
  <2>1. PICK n \in Missing : \A k \in Missing : n <= k
    BY LeastNatural
  <2>2. base \in Approx(0)
    OBVIOUS
  <2>3. n # 0
    BY <2>2
  <2>4. n - 1 \in Nat /\ n - 1 \notin Missing
    BY <2>1, <2>3
  <2>5. PICK h \in [S -> V] : \A x \in S : m[x] < n - 1 => Holds(h, x)
    BY <2>4
  <2> DEFINE d == [x \in S |-> IF m[x] < n - 1 THEN h[x]
                               ELSE IF m[x] = 0 THEN base[x] ELSE F[<<x, h[next[x]]>>]]
  <2>6. d \in [S -> V]
    OBVIOUS
  <2>7. ASSUME NEW x \in S, m[x] < n PROVE Holds(d, x)
    <3>1. m[x] # 0 => m[next[x]] < n - 1 /\ d[next[x]] = h[next[x]]
      BY <2>7
    <3>2. CASE m[x] < n - 1
      BY <3>1, <3>2, <2>5
    <3>3. CASE ~ (m[x] < n - 1)
      BY <3>1, <3>3
    <3> QED
      BY <3>2, <3>3
  <2> QED
    BY <2>6, <2>7
<1>2. ASSUME NEW n \in Nat, NEW h \in Approx(n), NEW k \in Approx(n), NEW x \in S, m[x] < n
      PROVE  h[x] = k[x]
  <2> DEFINE Differs == {l \in Nat : \E z \in S : m[z] = l /\ l < n /\ h[z] # k[z]}
  <2>1. SUFFICES ASSUME h[x] # k[x] PROVE FALSE
    OBVIOUS
  <2>2. m[x] \in Differs
    BY <1>2, <2>1
  <2>3. PICK l \in Differs : \A j \in Differs : l <= j
    BY <2>2, LeastNatural
  <2>4. PICK y \in S : m[y] = l /\ m[y] < n /\ h[y] # k[y]
    OBVIOUS
  <2>5. Holds(h, y) /\ Holds(k, y)
    BY <2>4
  <2>6. m[y] # 0
    BY <2>4, <2>5
  <2>7. next[y] \in S /\ m[next[y]] \in Nat /\ m[next[y]] < l /\ m[next[y]] < n /\ l < n
    BY <2>4, <2>6
  <2>8. ~ (l <= m[next[y]])
    BY <2>7, <2>4
  <2>9. m[next[y]] \notin Differs
    BY <2>3, <2>8, Zenon
  <2>10. h[next[y]] = k[next[y]]
    BY <2>7, <2>9
  <2> QED
    BY <2>4, <2>5, <2>10
<1> DEFINE A(x) == CHOOSE h \in Approx(m[x] + 1) : TRUE
           g    == [x \in S |-> A(x)[x]]
<1>3. ASSUME NEW x \in S
      PROVE  /\ A(x) \in Approx(m[x] + 1) /\ A(x) \in [S -> V] /\ Holds(A(x), x)
             /\ m[x] # 0 => A(x) \in Approx(m[next[x]] + 1)
  <2>1. m[x] + 1 \in Nat /\ m[x] < m[x] + 1
    OBVIOUS
  <2>2. \E h : h \in Approx(m[x] + 1)
    BY <1>1, <2>1
  <2> HIDE DEF Approx
  <2>3. A(x) \in Approx(m[x] + 1)
    BY <2>2, Zenon
  <2> HIDE DEF A
  <2> USE DEF Approx
  <2>4. A(x) \in [S -> V] /\ Holds(A(x), x)
    BY <2>1, <2>3
  <2>5. ASSUME m[x] # 0 PROVE A(x) \in Approx(m[next[x]] + 1)
    <3>1. next[x] \in S /\ \A y \in S : m[y] < m[next[x]] + 1 => m[y] < m[x] + 1
      BY <2>5
    <3> QED
      BY <2>3, <3>1
  <2> QED
    BY <2>3, <2>4, <2>5, Zenon
<1>4. ASSUME NEW x \in S, m[x] # 0
      PROVE  A(x)[next[x]] = A(next[x])[next[x]]
  <2>1. next[x] \in S /\ m[next[x]] \in Nat
    BY <1>4
  <2>2. m[next[x]] < m[next[x]] + 1 /\ m[next[x]] + 1 \in Nat
    BY <2>1
  <2> HIDE DEF A, Approx
  <2>3. A(x) \in Approx(m[next[x]] + 1) /\ A(next[x]) \in Approx(m[next[x]] + 1)
    BY <2>1, <1>3, <1>4
  <2> QED
    BY <2>1, <2>2, <2>3, <1>2
<1> HIDE DEF A
<1>5. g \in [S -> V]
  BY <1>3
<1>6. ASSUME NEW x \in S PROVE Holds(g, x)
  <2>1. g[x] = A(x)[x] /\ Holds(A(x), x)
    BY <1>3
  <2>2. m[x] # 0 => g[next[x]] = A(x)[next[x]]
    BY <1>4
  <2> QED
    BY <2>1, <2>2
<1>7. Recursive(g, S, m, next, base, F)
  BY <1>6 DEF Recursive
<1> QED
  BY <1>5, <1>7

(* The greatest of a set of positions.                                      *)
LEMMA Greatest ==
  ASSUME NEW n \in Nat, NEW T \in SUBSET (1 .. n), T # {}
  PROVE  Max(T) \in T /\ \A i \in T : i <= Max(T)
<1> DEFINE D == {d \in Nat : n - d \in T}
<1>1. PICK t \in T : TRUE
  OBVIOUS
<1>2. n - t \in Nat /\ n - (n - t) = t
  OBVIOUS
<1>3. D # {}
  BY <1>1, <1>2
<1>4. PICK d \in D : \A e \in D : d <= e
  BY <1>3, LeastNatural
<1>5. ASSUME NEW j \in T PROVE n - d >= j
  <2>1. n - j \in Nat /\ n - (n - j) = j
    OBVIOUS
  <2>2. n - j \in D
    BY <2>1
  <2>3. d <= n - j
    BY <2>2, <1>4
  <2> HIDE DEF D
  <2>4. d \in Nat /\ j \in Int
    BY <1>4 DEF D
  <2> QED
    BY <2>3, <2>4
<1>6. n - d \in T /\ \A j \in T : n - d >= j
  BY <1>5
<1>7. Max(T) \in T /\ \A j \in T : Max(T) >= j
  BY <1>6, Zenon DEF Max
<1> QED
  BY <1>7

LEMMA GreatestUpTo ==
  ASSUME NEW n \in Nat, NEW k \in 1 .. n
  PROVE  Max(1 .. k) = k /\ (1 .. k) \ {k} = 1 .. k - 1
<1>1. 1 .. k \in SUBSET (1 .. n) /\ 1 .. k # {}
  OBVIOUS
<1>2. Max(1 .. k) \in 1 .. k /\ \A i \in 1 .. k : i <= Max(1 .. k)
  BY <1>1, Greatest
<1> QED
  BY <1>2

(* A fold over a sequence, as the community modules define it, goes over    *)
(* the subsets of its positions.  There is a function that does, whatever   *)
(* a step of the fold is,                                                   *)
FoldOver(g, s, G, base) ==
  \A T \in SUBSET (DOMAIN s) :
    g[T] = IF T = {} THEN base ELSE G[<<g[T \ {Max(T)}], s[Max(T)]>>]

LEMMA FoldExists ==
  ASSUME NEW V, NEW E, NEW G \in [V \X E -> V], NEW base \in V, NEW s \in Seq(E)
  PROVE  \E g \in [SUBSET (DOMAIN s) -> V] : FoldOver(g, s, G, base)
<1> DEFINE n == Len(s)
           S == SUBSET (1 .. n)
           m == [T \in S |-> IF T = {} THEN 0 ELSE Max(T)]
           p == [T \in S |-> T \ {Max(T)}]
           b == [T \in S |-> base]
           F == [q \in S \X V |-> IF q[1] = {} THEN base ELSE G[<<q[2], s[Max(q[1])]>>]]
<1>1. n \in Nat /\ DOMAIN s = 1 .. n /\ \A i \in 1 .. n : s[i] \in E
  OBVIOUS
<1> HIDE DEF n
<1>2. ASSUME NEW T \in S, T # {}
      PROVE  Max(T) \in T /\ \A i \in T : i <= Max(T)
  BY <1>1, <1>2, Greatest
<1>3. m \in [S -> Nat] /\ p \in [S -> S] /\ b \in [S -> V]
  <2>1. ASSUME NEW T \in S, T # {} PROVE Max(T) \in Nat
    <3>1. Max(T) \in 1 .. n
      BY <2>1, <1>2
    <3> QED
      BY <3>1, <1>1
  <2>2. \A T \in S : T \ {Max(T)} \in S
    OBVIOUS
  <2> QED
    BY <2>1, <2>2
<1>4. F \in [S \X V -> V]
  BY <1>1, <1>2
<1>5. ASSUME NEW T \in S, m[T] # 0 PROVE m[p[T]] < m[T]
  <2>1. T # {}
    BY <1>5
  <2>2. m[T] = Max(T) /\ p[T] = T \ {Max(T)}
    BY <2>1
  <2>3. Max(T) \in 1 .. n /\ \A i \in T : i <= Max(T)
    BY <1>2, <2>1
  <2>4. CASE p[T] = {}
    BY <2>2, <2>3, <2>4
  <2>5. CASE p[T] # {}
    <3>1. Max(p[T]) \in p[T]
      BY <1>2, <1>3, <2>5
    <3>2. m[p[T]] = Max(p[T])
      BY <2>5, <1>3
    <3> HIDE DEF m, p
    <3>3. Max(p[T]) \in T /\ Max(p[T]) # Max(T) /\ Max(p[T]) \in 1 .. n
      BY <3>1, <2>2
    <3> QED
      BY <3>2, <3>3, <2>2, <2>3, <1>1
  <2> QED
    BY <2>4, <2>5
<1>6. \A T \in S : m[T] = 0 <=> T = {}
  BY <1>1, <1>2
<1> HIDE DEF m, p, b, F
<1>7. PICK g \in [S -> V] :
        \A T \in S : g[T] = IF m[T] = 0 THEN b[T] ELSE F[<<T, g[p[T]]>>]
  <2>1. \A T \in S : m[T] # 0 => m[p[T]] < m[T]
    BY <1>5
  <2>2. \E g \in [S -> V] : Recursive(g, S, m, p, b, F)
    BY <1>3, <1>4, <2>1, Recursion
  <2> QED
    BY <2>2 DEF Recursive
<1>8. ASSUME NEW T \in S
      PROVE  g[T] = IF T = {} THEN base ELSE G[<<g[T \ {Max(T)}], s[Max(T)]>>]
  <2>1. CASE T = {}
    BY <1>6, <1>7, <2>1 DEF b
  <2>2. CASE T # {}
    <3>1. g[T] = F[<<T, g[p[T]]>>] /\ p[T] \in S /\ g[p[T]] \in V
      BY <1>3, <1>6, <1>7, <2>2
    <3>2. F[<<T, g[p[T]]>>] = G[<<g[p[T]], s[Max(T)]>>]
      BY <3>1, <2>2 DEF F
    <3> QED
      BY <3>1, <3>2, <2>2 DEF p
  <2> QED
    BY <2>1, <2>2
<1>9. FoldOver(g, s, G, base)
  BY <1>1, <1>8 DEF FoldOver
<1> QED
  BY <1>1, <1>7, <1>9

(* and what it is of the first positions is what the fold has come to after *)
(* so many elements.                                                        *)
StatesOf(w, s, G, base) ==
  w[0] = base /\ \A k \in 1 .. Len(s) : w[k] = G[<<w[k - 1], s[k]>>]

FoldsTo(s, G, base, V, r) ==
  \E w \in [0 .. Len(s) -> V] : StatesOf(w, s, G, base) /\ w[Len(s)] = r

FoldIn(h, s, G, base, V) ==
  /\ h[{}] = base
  /\ \A T \in SUBSET (DOMAIN s) :
       T # {} /\ h[T \ {Max(T)}] \in V => h[T] = G[<<h[T \ {Max(T)}], s[Max(T)]>>]

LEMMA FoldStates ==
  ASSUME NEW V, NEW E, NEW G \in [V \X E -> V], NEW base \in V, NEW s \in Seq(E),
         NEW h, FoldIn(h, s, G, base, V)
  PROVE  FoldsTo(s, G, base, V, h[DOMAIN s])
<1> DEFINE n   == Len(s)
           w   == [k \in 0 .. n |-> h[1 .. k]]
           Bad == {k \in 0 .. n : h[1 .. k] \notin V}
<1>1. n \in Nat /\ DOMAIN s = 1 .. n /\ \A i \in 1 .. n : s[i] \in E
  OBVIOUS
<1>0. /\ h[{}] = base
      /\ \A T \in SUBSET (DOMAIN s) :
           T # {} /\ h[T \ {Max(T)}] \in V => h[T] = G[<<h[T \ {Max(T)}], s[Max(T)]>>]
  BY DEF FoldIn
<1> HIDE DEF n
<1>2. 1 .. 0 = {}
  OBVIOUS
<1>3. ASSUME NEW k \in 1 .. n, h[1 .. k - 1] \in V
      PROVE  h[1 .. k] = G[<<h[1 .. k - 1], s[k]>>]
  <2>1. Max(1 .. k) = k /\ (1 .. k) \ {k} = 1 .. k - 1
    BY <1>1, GreatestUpTo
  <2>2. 1 .. k \in SUBSET (1 .. n) /\ 1 .. k # {}
    <3>1. k \in 1 .. k /\ \A i \in 1 .. k : i \in 1 .. n
      BY <1>1
    <3> QED
      BY <3>1
  <2>3. (1 .. k) \ {Max(1 .. k)} = 1 .. k - 1
    BY <2>1, Zenon
  <2>4. h[1 .. k] = G[<<h[(1 .. k) \ {Max(1 .. k)}], s[Max(1 .. k)]>>]
    BY <1>0, <1>1, <2>2, <2>3, <1>3, Zenon
  <2> QED
    BY <2>1, <2>3, <2>4, Zenon
<1>4. Bad = {}
  <2> SUFFICES ASSUME Bad # {} PROVE FALSE
    OBVIOUS
  <2>1. Bad \in SUBSET Nat
    BY <1>1
  <2>2. PICK k \in Bad : \A j \in Bad : k <= j
    BY <2>1, LeastNatural
  <2>3. h[1 .. 0] \in V
    BY <1>0, <1>2, Zenon
  <2>4. k \in 1 .. n
    BY <2>2, <2>3, <1>1
  <2>5. k - 1 \in 0 .. n /\ ~ (k <= k - 1)
    BY <2>4, <1>1
  <2>6. h[1 .. k - 1] \in V
    BY <2>2, <2>5
  <2>7. h[1 .. k] = G[<<h[1 .. k - 1], s[k]>>]
    BY <1>3, <2>4, <2>6
  <2> QED
    BY <2>6, <2>7, <2>4, <1>1
<1>5. w \in [0 .. n -> V]
  BY <1>4
<1>6. ASSUME NEW k \in 1 .. n PROVE w[k] = G[<<w[k - 1], s[k]>>]
  <2>1. k \in 0 .. n /\ k - 1 \in 0 .. n
    BY <1>1
  <2> QED
    BY <2>1, <1>3, <1>4
<1>7. w[0] = base /\ w[n] = h[DOMAIN s]
  BY <1>0, <1>1, <1>2
<1>8. StatesOf(w, s, G, base)
  BY <1>6, <1>7 DEF n, StatesOf
<1> HIDE DEF w
<1> QED
  BY <1>5, <1>7, <1>8 DEF n, FoldsTo

(* One element more is one step more.                                       *)
LEMMA OneMore ==
  ASSUME NEW V, NEW E, NEW G, NEW base, NEW s \in Seq(E), NEW c \in E,
         NEW x, FoldsTo(s, G, base, V, x), NEW y, FoldsTo(Append(s, c), G, base, V, y)
  PROVE  y = G[<<x, c>>]
<1>a. PICK w \in [0 .. Len(s) -> V] : StatesOf(w, s, G, base) /\ w[Len(s)] = x
  BY DEF FoldsTo
<1>b. PICK v \in [0 .. Len(Append(s, c)) -> V] :
        StatesOf(v, Append(s, c), G, base) /\ v[Len(Append(s, c))] = y
  BY DEF FoldsTo
<1> DEFINE n == Len(s)
           t == Append(s, c)
           Bad == {k \in Nat : k <= n /\ v[k] # w[k]}
<1>1. n \in Nat /\ Len(t) = n + 1 /\ t[n + 1] = c /\ \A k \in 1 .. n : t[k] = s[k]
  OBVIOUS
<1>2. v[0] = base /\ \A k \in 1 .. n + 1 : v[k] = G[<<v[k - 1], t[k]>>]
  BY <1>1, <1>b DEF StatesOf
<1>3. w[0] = base /\ \A k \in 1 .. n : w[k] = G[<<w[k - 1], s[k]>>]
  BY <1>a DEF StatesOf
<1> HIDE DEF n, t
<1>4. Bad = {}
  <2> SUFFICES ASSUME Bad # {} PROVE FALSE
    OBVIOUS
  <2>1. PICK k \in Bad : \A j \in Bad : k <= j
    BY LeastNatural
  <2>2. k # 0
    BY <1>2, <1>3
  <2>3. k \in 1 .. n /\ k \in 1 .. n + 1 /\ k - 1 \in Nat /\ k - 1 <= n /\ ~ (k <= k - 1)
    BY <2>2, <1>1
  <2>4. v[k - 1] = w[k - 1]
    BY <2>1, <2>3
  <2>5. v[k] = G[<<v[k - 1], t[k]>>] /\ w[k] = G[<<w[k - 1], s[k]>>] /\ t[k] = s[k]
    BY <1>1, <1>2, <1>3, <2>3
  <2> QED
    BY <2>4, <2>5
<1>5. v[n] = w[n] /\ n + 1 \in 1 .. n + 1 /\ n + 1 - 1 = n
  BY <1>1, <1>4
<1> QED
  BY <1>1, <1>2, <1>5, <1>a, <1>b DEF n, t
-----------------------------------------------------------------------------
(* Sequences of one element, and turned round.                              *)
LEMMA OneElement ==
  ASSUME NEW E, NEW e \in E
  PROVE  /\ << >> \in Seq(E) /\ <<e>> \in Seq(E) /\ Len(<<e>>) = 1 /\ <<e>>[1] = e
         /\ <<e>> # << >> /\ <<e>> \o << >> = <<e>> /\ Append(<< >>, e) = <<e>>
         /\ Last(<<e>>) = e /\ Reverse(<<e>>) = <<e>>
<1>1. << >> \in Seq(E) /\ <<e>> \in Seq(E) /\ Len(<<e>>) = 1 /\ <<e>>[1] = e /\ <<e>> # << >>
  OBVIOUS
<1>2. <<e>> \o << >> = <<e>> /\ Append(<< >>, e) = <<e>>
  OBVIOUS
<1>3. Last(<<e>>) = e /\ Reverse(<<e>>) = <<e>>
  BY DEF Last, Reverse
<1> QED
  BY <1>1, <1>2, <1>3

LEMMA FrontOf ==
  ASSUME NEW E, NEW r \in Seq(E), r # << >>
  PROVE  /\ Front(r) \in Seq(E) /\ Len(Front(r)) = Len(r) - 1
         /\ \A i \in 1 .. Len(r) - 1 : Front(r)[i] = r[i]
<1>1. Len(r) \in Nat \ {0} /\ \A i \in 1 .. Len(r) - 1 : r[i] \in E
  OBVIOUS
<1>2. /\ Front(r) \in Seq(E) 
      /\ Len(Front(r)) = IF 1 <= Len(r) - 1 THEN Len(r) - 1 - 1 + 1 ELSE 0
      /\ \A i \in 1 .. (Len(r) - 1) - 1 + 1 : Front(r)[i] = r[1 + i - 1]
  BY <1>1, SubSeqProperties DEF Front
<1>3. Len(Front(r)) = Len(r) - 1
  <2>1. \A n \in Nat \ {0} : (IF 1 <= n - 1 THEN n - 1 - 1 + 1 ELSE 0) = n - 1
    OBVIOUS
  <2> QED
    BY <1>1, <1>2, <2>1, Zenon
<1>4. \A i \in 1 .. Len(r) - 1 : Front(r)[i] = r[i]
  <2>1. \A n \in Nat \ {0} : 1 .. (n - 1) - 1 + 1 = 1 .. n - 1 /\ \A i \in 1 .. n - 1 : 1 + i - 1 = i
    OBVIOUS
  <2> HIDE DEF Front
  <2>2. 1 .. (Len(r) - 1) - 1 + 1 = 1 .. Len(r) - 1 /\ \A i \in 1 .. Len(r) - 1 : 1 + i - 1 = i
    BY <1>1, <2>1, Zenon
  <2> QED
    BY <1>2, <2>2, Zenon
<1> QED
  BY <1>2, <1>3, <1>4, Zenon

LEMMA TwoElements ==
  ASSUME NEW E, NEW e \in E, NEW f \in E
  PROVE  /\ <<e, f>> \in Seq(E) /\ <<e, f>> # << >> /\ <<e>> \o <<f>> = <<e, f>>
         /\ Len(<<e, f>>) = 2
         /\ Last(<<e, f>>) = f /\ Front(<<e, f>>) = <<e>>
<1>1. <<e, f>> \in Seq(E) /\ <<e, f>> # << >> /\ Len(<<e, f>>) = 2
      /\ <<e, f>>[1] = e /\ <<e, f>>[2] = f
  OBVIOUS
<1>a. <<e>> \in Seq(E) /\ Len(<<e>>) = 1 /\ <<e>>[1] = e /\ <<f>> \in Seq(E) /\ Len(<<f>>) = 1
      /\ <<f>>[1] = f
  OBVIOUS
<1>2. <<e>> \o <<f>> = <<e, f>>
  <2> DEFINE s == <<e>> \o <<f>>
             t == <<e, f>>
  <2>1. s \in Seq(E) /\ Len(s) = 2 /\ s[1] = e /\ s[2] = f
    BY <1>a, ConcatProperties
  <2>2. t \in Seq(E) /\ Len(t) = 2 /\ t[1] = e /\ t[2] = f
    BY <1>1
  <2> HIDE DEF s, t
  <2>3. s = t
    BY <2>1, <2>2, SeqEqual
  <2> QED
    BY <2>3 DEF s, t
<1>3. Last(<<e, f>>) = f
  BY DEF Last
<1>4. Front(<<e, f>>) = <<e>>
  <2> DEFINE s == Front(<<e, f>>)
             t == <<e>>
  <2>1. s \in Seq(E) /\ Len(s) = 1 /\ s[1] = e
    <3> DEFINE r == <<e, f>>
    <3>1. r \in Seq(E) /\ r # << >> /\ Len(r) = 2 /\ r[1] = e
      BY <1>1
    <3> HIDE DEF r
    <3>2. Front(r) \in Seq(E) /\ Len(Front(r)) = 2 - 1 /\ \A i \in 1 .. 2 - 1 : Front(r)[i] = r[i]
      BY <3>1, FrontOf
    <3>3. Len(Front(r)) = 1 /\ Front(r)[1] = e
      BY <3>1, <3>2
    <3> QED
      BY <3>2, <3>3 DEF r
  <2>2. t \in Seq(E) /\ Len(t) = 1 /\ t[1] = e
    BY <1>a
  <2> HIDE DEF s, t
  <2>3. s = t
    BY <2>1, <2>2, SeqEqual
  <2> QED
    BY <2>3 DEF s, t
<1> QED
  BY <1>1, <1>2, <1>3, <1>4

LEMMA Turned ==
  ASSUME NEW E, NEW s \in Seq(E), NEW e \in E
  PROVE  /\ Reverse(s) \in Seq(E) /\ Len(Reverse(s)) = Len(s)
         /\ \A i \in 1 .. Len(s) : Reverse(s)[i] = s[Len(s) - i + 1]
         /\ Reverse(<<e>> \o s) = Append(Reverse(s), e)
<1>1. Reverse(s) \in Seq(E) /\ Len(Reverse(s)) = Len(s)
  BY DEF Reverse
<1>2. \A i \in 1 .. Len(s) : Reverse(s)[i] = s[Len(s) - i + 1]
  BY DEF Reverse
<1> DEFINE t == <<e>> \o s
           a == Reverse(t)
           b == Append(Reverse(s), e)
<1>3. t \in Seq(E) /\ Len(t) = Len(s) + 1 /\ t[1] = e /\ \A i \in 1 .. Len(s) : t[i + 1] = s[i]
  OBVIOUS
<1>4. a \in Seq(E) /\ Len(a) = Len(s) + 1
  BY <1>3 DEF Reverse
<1>5. \A i \in 1 .. Len(s) + 1 : a[i] = t[Len(s) + 1 - i + 1]
  BY <1>3 DEF Reverse
<1>6. b \in Seq(E) /\ Len(b) = Len(s) + 1
  BY <1>1
<1>7. ASSUME NEW i \in 1 .. Len(s) + 1 PROVE a[i] = b[i]
  <2>1. CASE i = Len(s) + 1
    <3>1. Len(s) + 1 - i + 1 = 1
      BY <2>1
    <3> QED
      BY <1>1, <1>3, <1>5, <2>1, <3>1
  <2>2. CASE i # Len(s) + 1
    <3>1. i \in 1 .. Len(s) /\ Len(s) - i + 1 \in 1 .. Len(s)
          /\ Len(s) + 1 - i + 1 = (Len(s) - i + 1) + 1
      BY <2>2
    <3>2. b[i] = Reverse(s)[i]
      BY <1>1, <3>1
    <3>3. a[i] = s[Len(s) - i + 1]
      BY <1>3, <1>5, <3>1
    <3> QED
      BY <1>2, <3>1, <3>2, <3>3
  <2> QED
    BY <2>1, <2>2
<1> HIDE DEF a, b
<1>8. a = b
  BY <1>4, <1>6, <1>7
<1> QED
  BY <1>1, <1>2, <1>8 DEF a, b

(* The radio: what is printed of a number, and read back.                   *)
Numerals   == {"0", "1", "2", "3", "4", "5", "6", "7", "8", "9"}
FieldChars == Numerals \cup {",", "-"}
ReadChars  == Numerals \cup {","}

LEMMA DigitValue ==
  ASSUME NEW d \in 0 .. 9
  PROVE  Digit[d + 1] \in Numerals /\ Value(Digit[d + 1]) = d
<1> DEFINE c == Digit[d + 1]
<1>1. d + 1 \in DOMAIN Digit /\ Digit[d + 1] \in Numerals
  BY DEF Digit, Numerals
<1>2. \A i \in DOMAIN Digit : Digit[i] = c => i = d + 1
  BY DEF Digit
<1>3. (CHOOSE i \in DOMAIN Digit : Digit[i] = c) = d + 1
  BY <1>1, <1>2
<1> DEFINE i == CHOOSE k \in DOMAIN Digit : Digit[k] = c
<1>4. Value(c) = i - 1
  BY Zenon DEF Value
<1>5. i = d + 1
  BY <1>3, Zenon
<1> HIDE DEF i
<1> QED
  BY <1>1, <1>4, <1>5

LEMMA NumeralValue ==
  ASSUME NEW c \in Numerals
  PROVE  Value(c) \in 0 .. 9
<1>1. \E i \in DOMAIN Digit : Digit[i] = c
  BY DEF Digit, Numerals
<1> DEFINE i == CHOOSE k \in DOMAIN Digit : Digit[k] = c
<1>2. i \in DOMAIN Digit
  BY <1>1
<1>3. DOMAIN Digit = 1 .. 10
  BY DEF Digit
<1>4. Value(c) = i - 1
  BY Zenon DEF Value
<1> HIDE DEF i
<1> QED
  BY <1>2, <1>3, <1>4

ReadStep == [q \in Nat \X ReadChars |->
               IF q[2] = "," THEN q[1] ELSE 10 * q[1] + Value(q[2])]

LEMMA ReadingStates ==
  ASSUME NEW s \in Seq(ReadChars)
  PROVE  FoldsTo(s, ReadStep, 0, Nat, Reading(s))
<1> DEFINE op(n, c) == IF c = "," THEN n ELSE 10 * n + Value(c)
<1>1. ASSUME NEW n \in Nat, NEW c \in ReadChars PROVE op(n, c) \in Nat /\ ReadStep[<<n, c>>] = op(n, c)
  <2>1. c # "," => Value(c) \in 0 .. 9
    BY NumeralValue DEF ReadChars
  <2>2. op(n, c) \in Nat
    <3>1. CASE c = ","
      BY <3>1
    <3>2. CASE c # ","
      <4>1. \A v \in 0 .. 9 : 10 * n + v \in Nat
        OBVIOUS
      <4> QED
        BY <2>1, <3>2, <4>1, Zenon
    <3> QED
      BY <3>1, <3>2
  <2>3. ReadStep[<<n, c>>] = op(n, c)
    BY Zenon DEF ReadStep
  <2> QED
    BY <2>2, <2>3
<1>2. ReadStep \in [Nat \X ReadChars -> Nat]
  <2>1. ASSUME NEW q \in Nat \X ReadChars PROVE op(q[1], q[2]) \in Nat
    BY <1>1
  <2>2. ReadStep = [q \in Nat \X ReadChars |-> op(q[1], q[2])]
    BY Zenon DEF ReadStep
  <2> HIDE DEF op
  <2> QED
    BY <2>1, <2>2
<1>3. PICK g \in [SUBSET (DOMAIN s) -> Nat] : FoldOver(g, s, ReadStep, 0)
  BY <1>2, FoldExists
<1>4. \A T \in SUBSET (DOMAIN s) : T # {} => s[Max(T)] \in ReadChars
  <2> TAKE T \in SUBSET (DOMAIN s)
  <2> HAVE T # {}
  <2>1. Len(s) \in Nat /\ DOMAIN s = 1 .. Len(s)
    OBVIOUS
  <2>2. Max(T) \in DOMAIN s
    BY <2>1, Greatest
  <2> QED
    BY <2>2
<1>5. g = [T \in SUBSET (DOMAIN s) |-> IF T = {} THEN 0 ELSE op(g[T \ {Max(T)}], s[Max(T)])]
  <2>1. \A T \in SUBSET (DOMAIN s) :
          T # {} => g[T] = op(g[T \ {Max(T)}], s[Max(T)])
    BY <1>1, <1>3, <1>4 DEF FoldOver
  <2>2. g[{}] = 0
    BY <1>3 DEF FoldOver
  <2> HIDE DEF op
  <2> QED
    BY <2>1, <2>2
<1>6. \E h : /\ h = [T \in SUBSET (DOMAIN s) |->
                       IF T = {} THEN 0 ELSE op(h[T \ {Max(T)}], s[Max(T)])]
             /\ Reading(s) = h[DOMAIN s]
  BY <1>5 DEF Reading, FoldLeft, MapThenFoldSet
<1>7. PICK h : /\ h = [T \in SUBSET (DOMAIN s) |->
                       IF T = {} THEN 0 ELSE op(h[T \ {Max(T)}], s[Max(T)])]
               /\ Reading(s) = h[DOMAIN s]
  BY <1>6
<1>8. h[{}] = 0
  BY <1>7
<1>9. \A T \in SUBSET (DOMAIN s) :
        T # {} /\ h[T \ {Max(T)}] \in Nat
          => h[T] = ReadStep[<<h[T \ {Max(T)}], s[Max(T)]>>]
  <2>1. \A T \in SUBSET (DOMAIN s) : T # {} => h[T] = op(h[T \ {Max(T)}], s[Max(T)])
    BY <1>7
  <2> QED
    BY <2>1, <1>1, <1>4
<1> HIDE DEF op
<1>11. FoldsTo(s, ReadStep, 0, Nat, h[DOMAIN s])
  <2>1. FoldIn(h, s, ReadStep, 0, Nat) /\ 0 \in Nat
    BY <1>8, <1>9 DEF FoldIn
  <2> QED
    BY <1>2, <2>1, FoldStates
<1> QED
  BY <1>7, <1>11

LEMMA ReadingAppend ==
  ASSUME NEW s \in Seq(ReadChars), NEW c \in ReadChars
  PROVE  /\ Reading(s) \in Nat
         /\ Reading(Append(s, c)) = IF c = "," THEN Reading(s) ELSE 10 * Reading(s) + Value(c)
<1> DEFINE t == Append(s, c)
<1>1. t \in Seq(ReadChars)
  OBVIOUS
<1>2. FoldsTo(s, ReadStep, 0, Nat, Reading(s))
  BY ReadingStates
<1>3. FoldsTo(t, ReadStep, 0, Nat, Reading(t))
  BY <1>1, ReadingStates
<1>5. Reading(s) \in Nat
  BY <1>2 DEF FoldsTo
<1>6. Reading(t) = ReadStep[<<Reading(s), c>>]
  BY <1>2, <1>3, OneMore
<1> QED
  BY <1>5, <1>6 DEF ReadStep, t

LEMMA ReadingNothing == Reading(<< >>) = 0
<1>1. << >> \in Seq(ReadChars) /\ Len(<< >>) = 0
  OBVIOUS
<1>2. FoldsTo(<< >>, ReadStep, 0, Nat, Reading(<< >>))
  BY <1>1, ReadingStates
<1> QED
  BY <1>1, <1>2 DEF FoldsTo, StatesOf

(* Backwards is what its definition says: with less to write at every call. *)
LEMMA BackwardsUnfolds ==
     \A t, j \in Nat :
       Backwards[<<t, j>>] =
         IF t = 0 THEN << >>
         ELSE <<Digit[(t % 10) + 1]>> \o (IF (j + 1) % 3 = 0 THEN <<",">> ELSE << >>)
                \o Backwards[<<t \div 10, j + 1>>]
<1> DEFINE S == Nat \X Nat
           V == Seq(ReadChars)
           front(p) == <<Digit[(p[1] % 10) + 1]>>
                         \o (IF (p[2] + 1) % 3 = 0 THEN <<",">> ELSE << >>)
           m == [p \in S |-> p[1]]
           n == [p \in S |-> <<p[1] \div 10, p[2] + 1>>]
           b == [p \in S |-> << >>]
           F == [q \in S \X V |-> front(q[1]) \o q[2]]
<1>1. ASSUME NEW p \in S PROVE front(p) \in V
  <2>1. p[1] % 10 \in 0 .. 9
    OBVIOUS
  <2>2. Digit[(p[1] % 10) + 1] \in ReadChars
    BY <2>1, DigitValue DEF ReadChars
  <2>3. "," \in ReadChars
    BY DEF ReadChars
  <2>4. <<Digit[(p[1] % 10) + 1]>> \in Seq(ReadChars)
    BY <2>2
  <2>5. (IF (p[2] + 1) % 3 = 0 THEN <<",">> ELSE << >>) \in Seq(ReadChars)
    <3>1. <<",">> \in Seq(ReadChars) /\ << >> \in Seq(ReadChars)
      BY <2>3, OneElement
    <3> QED
      BY <3>1, Zenon
  <2>6. \A a, c \in Seq(ReadChars) : a \o c \in Seq(ReadChars)
    OBVIOUS
  <2> QED
    BY <2>4, <2>5, <2>6, Zenon
<1>2. \A t \in Nat : t \div 10 \in Nat /\ (t # 0 => t \div 10 < t)
  OBVIOUS
<1>3. m \in [S -> Nat] /\ n \in [S -> S] /\ b \in [S -> V]
  BY <1>2
<1>4. F \in [S \X V -> V]
  <2>1. \A a, c \in V : a \o c \in V
    OBVIOUS
  <2>2. \A q \in S \X V : q[1] \in S /\ q[2] \in V
    OBVIOUS
  <2> HIDE DEF front, V
  <2> QED
    BY <1>1, <2>1, <2>2
<1>5. \A p \in S : m[p] # 0 => m[n[p]] < m[p]
  BY <1>2
<1>6. PICK g \in [S -> V] : Recursive(g, S, m, n, b, F)
  <2> HIDE DEF S, V, m, n, b, F
  <2> QED
    BY <1>3, <1>4, <1>5, Recursion
<1>7. ASSUME NEW p \in S
      PROVE  g[p] = IF p[1] = 0 THEN << >> ELSE front(p) \o g[<<p[1] \div 10, p[2] + 1>>]
  <2>1. m[p] = p[1] /\ n[p] = <<p[1] \div 10, p[2] + 1>> /\ b[p] = << >> /\ n[p] \in S
    BY <1>3
  <2>2. g[p] = IF m[p] = 0 THEN b[p] ELSE F[<<p, g[n[p]]>>]
    BY <1>6 DEF Recursive
  <2>3. F[<<p, g[n[p]]>>] = front(p) \o g[n[p]]
    <3> HIDE DEF front, n, V
    <3> QED
      BY <2>1
  <2> HIDE DEF front, m, n, b, F
  <2> QED
    BY <2>1, <2>2, <2>3
<1>8. g = [p \in Nat \X Nat |->
             IF p[1] = 0 THEN << >>
             ELSE <<Digit[(p[1] % 10) + 1]>> \o (IF (p[2] + 1) % 3 = 0 THEN <<",">> ELSE << >>)
                    \o g[<<p[1] \div 10, p[2] + 1>>]]
  BY <1>7
<1>9. Backwards = [p \in Nat \X Nat |->
             IF p[1] = 0 THEN << >>
             ELSE <<Digit[(p[1] % 10) + 1]>> \o (IF (p[2] + 1) % 3 = 0 THEN <<",">> ELSE << >>)
                    \o Backwards[<<p[1] \div 10, p[2] + 1>>]]
  BY <1>8 DEF Backwards
<1>10. ASSUME NEW t \in Nat, NEW j \in Nat
       PROVE  Backwards[<<t, j>>] = IF t = 0 THEN << >>
                ELSE <<Digit[(t % 10) + 1]>> \o (IF (j + 1) % 3 = 0 THEN <<",">> ELSE << >>)
                       \o Backwards[<<t \div 10, j + 1>>]
  BY <1>9
<1> QED
  BY <1>10

(* What print_dec keeps of it: no comma in front, every fourth character a *)
(* comma, and the number can be read.                                       *)
Trimmed(r) == IF Last(r) = "," THEN Front(r) ELSE r

Written(t, j, r) ==
  LET q == Trimmed(r)
  IN  /\ r \in Seq(ReadChars) /\ r # << >>
      /\ q \in Seq(ReadChars) /\ q # << >> /\ q[Len(q)] # ","
      /\ \A i \in 1 .. Len(q) : (q[i] = ",") <=> ((i + (j % 3)) % 4 = 0)
      /\ Reading(Reverse(q)) = t

LEMMA TrimmedLonger ==
  ASSUME NEW a \in Seq(ReadChars), NEW r \in Seq(ReadChars), r # << >>
  PROVE  Trimmed(a \o r) = a \o Trimmed(r)
<1> DEFINE s == a \o r
<1>1. s \in Seq(ReadChars) /\ Len(s) = Len(a) + Len(r) /\ Len(r) > 0
  OBVIOUS
<1>2. Last(s) = Last(r)
  BY <1>1 DEF Last
<1>3. Front(s) = a \o Front(r)
  <2> DEFINE u == a \o Front(r)
  <2>1. Front(r) \in Seq(ReadChars) /\ Len(Front(r)) = Len(r) - 1
        /\ \A i \in 1 .. Len(r) - 1 : Front(r)[i] = r[i]
    BY FrontOf
  <2>2. Front(s) \in Seq(ReadChars) /\ Len(Front(s)) = Len(s) - 1
        /\ \A i \in 1 .. Len(s) - 1 : Front(s)[i] = s[i]
    <3>1. s # << >>
      BY <1>1
    <3> QED
      BY <1>1, <3>1, FrontOf
  <2>3. u \in Seq(ReadChars) /\ Len(u) = Len(s) - 1
    BY <1>1, <2>1
  <2>4. ASSUME NEW i \in 1 .. Len(s) - 1 PROVE u[i] = s[i]
    <3>1. CASE i <= Len(a)
      BY <1>1, <2>1, <3>1
    <3>2. CASE i > Len(a)
      BY <1>1, <2>1, <3>2, SMTT(30)
    <3>3. i \in Int /\ Len(a) \in Nat
      OBVIOUS
    <3> HIDE DEF u, s
    <3> QED
      BY <3>1, <3>2, <3>3
  <2> HIDE DEF u, s
  <2>5. Front(s) = u
    BY <2>2, <2>3, <2>4
  <2> QED
    BY <2>5 DEF u
<1> QED
  BY <1>2, <1>3 DEF Trimmed

LEMMA WrittenOne ==
  ASSUME NEW d \in 1 .. 9, NEW j \in Nat
  PROVE  Written(d, j, <<Digit[d + 1]>> \o (IF (j + 1) % 3 = 0 THEN <<",">> ELSE << >>))
<1> DEFINE D == Digit[d + 1]
           q == <<D>>
           r == <<Digit[d + 1]>> \o (IF (j + 1) % 3 = 0 THEN <<",">> ELSE << >>)
<1>0. d \in 0 .. 9
  OBVIOUS
<1>1. D \in ReadChars /\ D # "," /\ Value(D) = d
  <2>1. D \in Numerals /\ Value(D) = d
    BY <1>0, DigitValue
  <2> HIDE DEF D
  <2> QED
    BY <2>1 DEF ReadChars, Numerals
<1>2. "," \in ReadChars
  BY DEF ReadChars
<1>a. r = <<D>> \o (IF (j + 1) % 3 = 0 THEN <<",">> ELSE << >>)
  OBVIOUS
<1> HIDE DEF D, r
<1>3. r = IF (j + 1) % 3 = 0 THEN <<D, ",">> ELSE <<D>>
  <2>1. <<D>> \o <<",">> = <<D, ",">> /\ <<D>> \o << >> = <<D>>
    BY <1>1, <1>2, OneElement, TwoElements
  <2> QED
    BY <1>a, <2>1, Zenon
<1>4. r \in Seq(ReadChars) /\ r # << >>
  <2>1. <<D>> \in Seq(ReadChars) /\ <<D>> # << >>
    BY <1>1, OneElement, Zenon
  <2>2. <<D, ",">> \in Seq(ReadChars) /\ <<D, ",">> # << >>
    BY <1>1, <1>2, TwoElements, Zenon
  <2> QED
    BY <1>3, <2>1, <2>2, Zenon
<1>5. Trimmed(r) = q
  <2>1. CASE (j + 1) % 3 = 0
    <3>1. Last(<<D, ",">>) = "," /\ Front(<<D, ",">>) = <<D>>
      BY <1>1, <1>2, TwoElements, Zenon
    <3> QED
      BY <1>3, <2>1, <3>1, Zenon DEF Trimmed
  <2>2. CASE (j + 1) % 3 # 0
    <3>1. Last(<<D>>) = D
      BY <1>1, OneElement, Zenon
    <3> QED
      BY <1>1, <1>3, <2>2, <3>1, Zenon DEF Trimmed
  <2> QED
    BY <2>1, <2>2, Zenon
<1>6. q \in Seq(ReadChars) /\ q # << >> /\ q[Len(q)] # "," /\ Len(q) = 1 /\ q[1] # ","
  <2>1. q \in Seq(ReadChars) /\ q # << >> /\ Len(q) = 1 /\ q[1] = D
    BY <1>1, OneElement, Zenon
  <2> QED
    BY <1>1, <2>1, Zenon
<1>7. (1 + (j % 3)) % 4 # 0
  OBVIOUS
<1>8. Reading(Reverse(q)) = d
  <2>1. Reverse(q) = Append(<< >>, D)
    BY <1>1, OneElement, Zenon
  <2>2. << >> \in Seq(ReadChars)
    OBVIOUS
  <2>3. Reading(Append(<< >>, D)) = 10 * Reading(<< >>) + Value(D)
    BY <1>1, <2>2, ReadingAppend
  <2>4. Reading(Append(<< >>, D)) = 10 * 0 + d
    BY <1>1, <2>3, ReadingNothing, Zenon
  <2>5. 10 * 0 + d = d
    OBVIOUS
  <2> QED
    BY <2>1, <2>4, <2>5, Zenon
<1> HIDE DEF q
<1>9. Written(d, j, r)
  <2>1. \A i \in 1 .. Len(q) : (q[i] = ",") <=> ((i + (j % 3)) % 4 = 0)
    <3>0. Len(q) = 1
      BY <1>6, Zenon
    <3>1. \A i \in 1 .. Len(q) : i = 1
      BY <3>0
    <3> QED
      BY <1>6, <1>7, <3>1, Zenon
  <2> QED
    BY <1>4, <1>5, <1>6, <1>8, <2>1, Zenon DEF Written
<1> QED
  BY <1>9 DEF r

(* One digit more in front of what is written already, with a comma or not. *)
LEMMA WrittenMore ==
  ASSUME NEW t \in Nat, NEW d \in 0 .. 9, NEW j \in Nat, NEW r, Written(t, j + 1, r)
  PROVE  Written(10 * t + d, j,
                 <<Digit[d + 1]>> \o (IF (j + 1) % 3 = 0 THEN <<",">> ELSE << >>) \o r)
<1> DEFINE D == Digit[d + 1]
           c == IF (j + 1) % 3 = 0 THEN <<",">> ELSE << >>
           a == <<D>> \o c
           q == Trimmed(r)
           p == a \o q
           k == IF (j + 1) % 3 = 0 THEN 2 ELSE 1
<1>1. D \in ReadChars /\ D # "," /\ Value(D) = d
  <2>1. D \in Numerals /\ Value(D) = d
    BY DigitValue
  <2> HIDE DEF D
  <2> QED
    BY <2>1 DEF ReadChars, Numerals
<1>2. "," \in ReadChars
  BY DEF ReadChars
<1>a. r \in Seq(ReadChars) /\ r # << >>
  BY Zenon DEF Written
<1>b. q \in Seq(ReadChars) /\ q # << >>
  BY Zenon DEF Written
<1>3. q[Len(q)] # ","
  BY Zenon DEF Written
<1>4. \A i \in 1 .. Len(q) : (q[i] = ",") <=> ((i + ((j + 1) % 3)) % 4 = 0)
  BY Zenon DEF Written
<1>5. Reading(Reverse(q)) = t
  BY Zenon DEF Written
<1> HIDE DEF D, q
<1>6. c \in Seq(ReadChars)
  BY <1>2, OneElement, Zenon
<1>7. a \in Seq(ReadChars)
  BY <1>1, <1>6, OneElement, ConcatProperties
<1>8. (j + 1) % 3 = 0 => a = <<D, ",">>
  BY <1>1, <1>2, TwoElements, Zenon
<1>9. (j + 1) % 3 # 0 => a = <<D>>
  BY <1>1, OneElement, Zenon
<1>10. Len(a) = k /\ k \in {1, 2} /\ a[1] = D /\ (k = 2 => a[2] = ",")
  <2>1. CASE (j + 1) % 3 = 0
    <3>1. a = <<D, ",">> /\ k = 2
      BY <1>8, <2>1, Zenon
    <3> HIDE DEF a, k
    <3> QED
      BY <3>1
  <2>2. CASE (j + 1) % 3 # 0
    <3>1. a = <<D>> /\ k = 1
      BY <1>9, <2>2, Zenon
    <3> HIDE DEF a, k
    <3> QED
      BY <3>1
  <2> QED
    BY <2>1, <2>2, Zenon
<1> DEFINE s == a \o r
<1>11. s \in Seq(ReadChars) /\ s # << >> /\ Trimmed(s) = p
  <2>1. s \in Seq(ReadChars) /\ s # << >>
    <3> HIDE DEF a
    <3>1. s \in Seq(ReadChars)
      BY <1>a, <1>7, ConcatProperties
    <3>2. a \o r = << >> => r = << >>
      BY <1>a, <1>7, ConcatEqualIffEmpty
    <3> QED
      BY <1>a, <3>1, <3>2, Zenon
  <2>2. Trimmed(s) = p
    BY <1>a, <1>7, TrimmedLonger, Zenon DEF q
  <2> QED
    BY <2>1, <2>2, Zenon
<1> HIDE DEF a, k
<1>12. p \in Seq(ReadChars) /\ Len(p) = k + Len(q)
       /\ \A i \in 1 .. k + Len(q) : p[i] = IF i <= k THEN a[i] ELSE q[i - k]
  <2>1. Len(a) = k
    BY <1>10, Zenon
  <2> QED
    BY <1>b, <1>7, <2>1, ConcatProperties
<1>13. Len(q) \in Nat \ {0} /\ k \in Nat
  <2>1. k \in {1, 2}
    BY <1>10, Zenon
  <2> QED
    BY <1>b, <2>1
<1>14. \A i \in 1 .. k : p[i] = a[i]
  BY <1>12, <1>13
<1>15. \A i \in 1 .. Len(q) : p[i + k] = q[i]
  <2> TAKE i \in 1 .. Len(q)
  <2>1. i + k \in 1 .. k + Len(q) /\ ~ (i + k <= k) /\ (i + k) - k = i
    BY <1>13
  <2> QED
    BY <1>12, <2>1, Zenon
<1> HIDE DEF p
<1>16. p # << >> /\ p[Len(p)] # ","
  <2>1. Len(p) = Len(q) + k /\ Len(p) # 0
    BY <1>12, <1>13
  <2>2. Len(q) \in 1 .. Len(q)
    BY <1>13
  <2>3. p[Len(p)] = q[Len(q)]
    BY <1>15, <2>1, <2>2, Zenon
  <2>4. p # << >>
    BY <2>1
  <2> QED
    BY <1>3, <2>3, <2>4, Zenon
<1>17. ASSUME NEW i \in 1 .. Len(p) PROVE (p[i] = ",") <=> ((i + (j % 3)) % 4 = 0)
  <2>1. CASE i = 1
    <3>1. p[i] # ","
      <4>1. k \in {1, 2}
        BY <1>10, Zenon
      <4>2. 1 \in 1 .. k
        BY <4>1
      <4> QED
        BY <1>1, <1>10, <1>14, <2>1, <4>2, Zenon
    <3>2. (1 + (j % 3)) % 4 # 0
      OBVIOUS
    <3> QED
      BY <2>1, <3>1, <3>2, Zenon
  <2>2. CASE i = 2 /\ k = 2
    <3>1. p[i] = ","
      <4>1. 2 \in 1 .. 2
        OBVIOUS
      <4> QED
        BY <1>10, <1>14, <2>2, <4>1, Zenon
    <3>2. (j + 1) % 3 = 0
      BY <2>2 DEF k
    <3>3. (2 + (j % 3)) % 4 = 0
      BY <3>2
    <3> QED
      BY <2>2, <3>1, <3>3, Zenon
  <2>3. CASE i > k
    <3>1. i - k \in 1 .. Len(q) /\ i = (i - k) + k
      BY <1>12, <1>13, <2>3
    <3>2. p[i] = q[i - k]
      BY <1>15, <3>1
    <3>3. (p[i] = ",") <=> (((i - k) + ((j + 1) % 3)) % 4 = 0)
      BY <1>4, <3>1, <3>2, Zenon
    <3>4. CASE (j + 1) % 3 = 0
      <4>1. k = 2 /\ (j + 1) % 3 = 0 /\ j % 3 = 2
        BY <3>4 DEF k
      <4>2. \A n \in Int : ((n - 2) + 0) % 4 = (n + 2) % 4
        OBVIOUS
      <4>3. i \in Int
        BY <3>1
      <4> QED
        BY <3>3, <4>1, <4>2, <4>3, Zenon
    <3>5. CASE (j + 1) % 3 # 0
      <4>1. k = 1 /\ (j + 1) % 3 = (j % 3) + 1
        BY <3>5 DEF k
      <4>2. \A n \in Int, m \in Int : (n - 1) + (m + 1) = n + m
        OBVIOUS
      <4>3. i \in Int /\ j % 3 \in Int
        BY <3>1
      <4> QED
        BY <3>3, <4>1, <4>2, <4>3, Zenon
    <3> QED
      BY <3>4, <3>5, Zenon
  <2>4. i = 1 \/ (i = 2 /\ k = 2) \/ i > k
    <3>1. k \in {1, 2}
      BY <1>10, Zenon
    <3>2. i \in Nat \ {0}
      BY <1>12, <1>13
    <3> QED
      BY <3>1, <3>2
  <2> QED
    BY <2>1, <2>2, <2>3, <2>4, Zenon
<1>18. Reading(Reverse(p)) = 10 * t + d
  <2>1. Reverse(q) \in Seq(ReadChars)
    BY <1>b, <1>2, Turned, Zenon
  <2>2. CASE (j + 1) % 3 = 0
    <3> DEFINE u == <<",">> \o q
    <3>1. <<",">> \in Seq(ReadChars) /\ <<D>> \in Seq(ReadChars) /\ a = <<D>> \o <<",">>
      BY <1>1, <1>2, <1>8, <2>2, OneElement, TwoElements, Zenon
    <3>2. u \in Seq(ReadChars) /\ p = <<D>> \o u
      <4>1. u \in Seq(ReadChars)
        BY <1>b, <3>1, ConcatProperties
      <4>a. \A x, y, z \in Seq(ReadChars) : (x \o y) \o z = x \o (y \o z)
        BY ConcatAssociative, SMTT(30)
      <4>2. (<<D>> \o <<",">>) \o q = <<D>> \o u
        BY <1>b, <3>1, <4>a, Zenon
      <4> QED
        BY <3>1, <4>1, <4>2, Zenon DEF p
    <3>3. Reverse(u) = Append(Reverse(q), ",")
      BY <1>2, <1>b, Turned
    <3>4. Reverse(p) = Append(Reverse(u), D)
      BY <1>1, <3>2, Turned
    <3>5. Reverse(u) \in Seq(ReadChars)
      BY <1>2, <3>2, Turned, Zenon
    <3> HIDE DEF u
    <3>6. Reading(Reverse(u)) = t
      BY <1>2, <1>5, <2>1, <3>3, ReadingAppend, Zenon
    <3>7. Reading(Append(Reverse(u), D)) = 10 * Reading(Reverse(u)) + Value(D)
      BY <1>1, <3>5, ReadingAppend, Zenon
    <3> QED
      BY <1>1, <3>4, <3>6, <3>7, Zenon
  <2>3. CASE (j + 1) % 3 # 0
    <3>1. p = <<D>> \o q
      BY <1>9, <2>3, Zenon DEF p
    <3>2. Reverse(p) = Append(Reverse(q), D)
      BY <1>1, <1>b, <3>1, Turned, Zenon
    <3>3. Reading(Append(Reverse(q), D)) = 10 * Reading(Reverse(q)) + Value(D)
      BY <1>1, <2>1, ReadingAppend, Zenon
    <3> QED
      BY <1>1, <1>5, <3>2, <3>3, Zenon
  <2> QED
    BY <2>2, <2>3, Zenon
<1>19. Written(10 * t + d, j, s)
  <2> HIDE DEF s
  <2> QED
    BY <1>11, <1>12, <1>16, <1>17, <1>18, Zenon DEF Written
<1>20. s = <<D>> \o c \o r
  BY Zenon DEF a, s
<1> QED
  BY <1>19, <1>20, Zenon DEF D, c

LEMMA BackwardsWritten ==
  \A t \in Nat \ {0}, j \in Nat : Written(t, j, Backwards[<<t, j>>])
<1> DEFINE Bad == {t \in Nat \ {0} : \E j \in Nat : ~ Written(t, j, Backwards[<<t, j>>])}
<1>1. SUFFICES ASSUME Bad # {} PROVE FALSE
  OBVIOUS
<1>2. PICK t \in Bad : \A u \in Bad : t <= u
  BY <1>1, LeastNatural
<1>3. PICK j \in Nat : ~ Written(t, j, Backwards[<<t, j>>])
  OBVIOUS
<1> DEFINE d == t % 10
           u == t \div 10
           c == IF (j + 1) % 3 = 0 THEN <<",">> ELSE << >>
<1>4. t \in Nat \ {0} /\ d \in 0 .. 9 /\ u \in Nat /\ t = 10 * u + d /\ ~ (t <= u)
  OBVIOUS
<1>5. Backwards[<<t, j>>] = <<Digit[d + 1]>> \o c \o Backwards[<<u, j + 1>>]
  BY <1>4, BackwardsUnfolds
<1>6. j + 1 \in Nat
  OBVIOUS
<1> HIDE DEF d, u
<1>7. CASE u = 0
  <2>1. Backwards[<<u, j + 1>>] = << >>
    BY <1>6, <1>7, BackwardsUnfolds
  <2>2. d \in 1 .. 9 /\ t = d
    BY <1>4, <1>7
  <2>3. Written(d, j, <<Digit[d + 1]>> \o c)
    BY <2>2, WrittenOne
  <2>4. <<Digit[d + 1]>> \o c \o << >> = <<Digit[d + 1]>> \o c
    <3>1. <<Digit[d + 1]>> \o c \in Seq({Digit[d + 1], ","})
      <4> DEFINE E == {Digit[d + 1], ","}
      <4>1. Digit[d + 1] \in E /\ "," \in E
        OBVIOUS
      <4> HIDE DEF E
      <4>2. <<Digit[d + 1]>> \in Seq(E) /\ c \in Seq(E)
        BY <4>1, OneElement, Zenon
      <4> QED
        BY <4>2, ConcatProperties DEF E
    <3> QED
      BY <3>1, ConcatEmptySeq, Zenon
  <2> QED
    BY <1>3, <1>5, <2>1, <2>2, <2>3, <2>4, Zenon
<1>8. CASE u # 0
  <2>1. u \in Nat \ {0} /\ u \notin Bad
    BY <1>2, <1>4, <1>8, Zenon
  <2>2. Written(u, j + 1, Backwards[<<u, j + 1>>])
    BY <1>6, <2>1, Zenon
  <2>3. Written(10 * u + d, j, <<Digit[d + 1]>> \o c \o Backwards[<<u, j + 1>>])
    BY <1>4, <2>2, WrittenMore, Zenon
  <2> QED
    BY <1>3, <1>4, <1>5, <2>3, Zenon
<1> QED
  BY <1>7, <1>8, Zenon

(* What is printed of a number are characters of fields, and they say which *)
(* number it is.                                                            *)
Says(field, n) ==
  IF n < 0 THEN field = <<"-">>
  ELSE field # << >> /\ Grouped(field) /\ Reading(field) = n

LEMMA PrintDec ==
  ASSUME NEW n \in Int
  PROVE  print_dec(n) \in Seq(FieldChars) /\ Says(print_dec(n), n)
<1>1. ReadChars \subseteq FieldChars
  BY DEF ReadChars, FieldChars
<1>2. CASE n = 0
  <2>1. "0" \in ReadChars /\ "0" # "," /\ "0" = Digit[0 + 1]
    BY DEF ReadChars, Numerals, Digit
  <2>2. <<"0">> \in Seq(ReadChars) /\ <<"0">> # << >> /\ <<"0">> = Append(<< >>, "0")
        /\ << >> \in Seq(ReadChars) /\ Len(<<"0">>) = 1 /\ <<"0">>[1] = "0"
    BY <2>1, OneElement
  <2>3. Reading(Append(<< >>, "0")) = 10 * 0 + Value("0")
    BY <2>1, <2>2, ReadingAppend, ReadingNothing
  <2>4. Value("0") = 0
    <3>1. 0 \in 0 .. 9
      OBVIOUS
    <3> QED
      BY <2>1, <3>1, DigitValue, Zenon
  <2>5. Reading(<<"0">>) = 0
    <3>1. 10 * 0 + 0 = 0
      OBVIOUS
    <3> QED
      BY <2>2, <2>3, <2>4, <3>1, Zenon
  <2>6. Grouped(<<"0">>)
    <3> DEFINE f == <<"0">>
    <3>1. DOMAIN f = {1} /\ f[1] # "," /\ ~ (1 > 1)
      BY <2>1
    <3> HIDE DEF f
    <3>2. Grouped(f)
      BY <3>1, Zenon DEF Grouped
    <3> QED
      BY <3>2 DEF f
  <2>7. print_dec(n) = <<"0">> /\ ~ (n < 0)
    BY <1>2 DEF print_dec
  <2>8. <<"0">> \in Seq(FieldChars)
    BY <1>1, <2>2, SeqMonotonic, Zenon
  <2> QED
    BY <1>2, <2>2, <2>5, <2>6, <2>7, <2>8, Zenon DEF Says
<1>3. CASE n < 0
  <2>1. print_dec(n) = <<"-">>
    BY <1>3 DEF print_dec
  <2>2. "-" \in FieldChars
    BY DEF FieldChars
  <2>3. <<"-">> \in Seq(FieldChars)
    BY <2>2, OneElement, Zenon
  <2> QED
    BY <1>3, <2>1, <2>3, Zenon DEF Says
<1>4. CASE n > 0
  <2> DEFINE r == Backwards[<<n, 0>>]
             q == Trimmed(r)
             f == Reverse(q)
  <2>1. n \in Nat \ {0} /\ 0 \in Nat /\ n # 0 /\ ~ (n < 0)
    BY <1>4
  <2>2. Written(n, 0, r)
    BY <2>1, BackwardsWritten
  <2>3. print_dec(n) = f
    BY <2>1, Zenon DEF print_dec, Trimmed
  <2> HIDE DEF r
  <2>4. q \in Seq(ReadChars) /\ q # << >>
    BY <2>2, Zenon DEF Written
  <2>5. q[Len(q)] # ","
    BY <2>2, Zenon DEF Written
  <2>6. \A i \in 1 .. Len(q) : (q[i] = ",") <=> ((i + (0 % 3)) % 4 = 0)
    BY <2>2, Zenon DEF Written
  <2>7. Reading(f) = n
    BY <2>2, Zenon DEF Written
  <2> HIDE DEF q
  <2>0. "-" \in FieldChars
    BY DEF FieldChars
  <2>8. f \in Seq(ReadChars) /\ Len(f) = Len(q)
        /\ \A i \in 1 .. Len(q) : f[i] = q[Len(q) - i + 1]
    <3>1. "," \in ReadChars
      BY DEF ReadChars
    <3> QED
      BY <2>4, <3>1, Turned, Zenon
  <2> HIDE DEF f
  <2>9. Len(q) \in Nat \ {0}
    BY <2>4
  <2>10. f # << >> /\ DOMAIN f = 1 .. Len(q)
    BY <2>8, <2>9
  <2>11. ASSUME NEW i \in 1 .. Len(q) PROVE (f[i] = ",") <=> (i > 1 /\ (Len(q) - i) % 4 = 3)
    <3>1. Len(q) - i + 1 \in 1 .. Len(q)
      BY <2>9
    <3>2. (f[i] = ",") <=> ((Len(q) - i + 1 + (0 % 3)) % 4 = 0)
      BY <2>6, <2>8, <3>1, Zenon
    <3>3. CASE i = 1
      <4>1. Len(q) - 1 + 1 = Len(q)
        BY <2>9
      <4>2. f[i] = q[Len(q)]
        BY <2>8, <3>3, <4>1, Zenon
      <4>3. ~ (i > 1)
        BY <3>3
      <4> QED
        BY <2>5, <4>2, <4>3, Zenon
    <3>4. CASE i # 1
      <4>1. i > 1
        BY <3>4
      <4>2. \A a \in Int : ((a + 1 + (0 % 3)) % 4 = 0) <=> (a % 4 = 3)
        OBVIOUS
      <4>3. Len(q) - i \in Int
        BY <2>9
      <4> QED
        BY <3>2, <4>1, <4>2, <4>3, Zenon
    <3> QED
      BY <3>3, <3>4, Zenon
  <2>12. Grouped(f)
    BY <2>8, <2>10, <2>11, Zenon DEF Grouped
  <2>13. f \in Seq(FieldChars)
    BY <1>1, <2>8, SeqMonotonic, Zenon
  <2> QED
    BY <2>1, <2>3, <2>7, <2>10, <2>12, <2>13, Zenon DEF Says
<1> QED
  BY <1>2, <1>3, <1>4

(* A newline is printed as it is.                                           *)
LEMMA NewLine == alt_printf(<<"\n">>, << >>) = <<"\n">>
<1> DEFINE s    == <<"\n">>
           base == [escape |-> FALSE, out |-> << >>, args |-> << >>]
           op(v, c) == PrintfChar(v, c)
           g    == [T \in SUBSET (DOMAIN s) |-> IF T = {} THEN base ELSE op(base, s[1])]
<1>1. DOMAIN s = {1} /\ s[1] = "\n" /\ DOMAIN s = 1 .. 1
  OBVIOUS
<1> HIDE DEF s
<1>2. ASSUME NEW T \in SUBSET (DOMAIN s), T # {}
      PROVE  T = {1} /\ Max(T) = 1 /\ T \ {Max(T)} = {}
  <2>1. T = {1}
    BY <1>1, <1>2
  <2>2. 1 \in Nat
    OBVIOUS
  <2>3. Max(T) \in T
    BY <1>1, <1>2, <2>2, Greatest
  <2> QED
    BY <2>1, <2>3
<1> HIDE DEF op, base
<1>3. g = [T \in SUBSET (DOMAIN s) |-> IF T = {} THEN base ELSE op(g[T \ {Max(T)}], s[Max(T)])]
  <2>1. {} \in SUBSET (DOMAIN s) /\ g[{}] = base
    OBVIOUS
  <2>2. \A T \in SUBSET (DOMAIN s) : T # {} => g[T \ {Max(T)}] = base /\ s[Max(T)] = s[1]
    BY <1>2, <2>1, Zenon
  <2>3. \A T \in SUBSET (DOMAIN s) :
          g[T] = IF T = {} THEN base ELSE op(g[T \ {Max(T)}], s[Max(T)])
    BY <2>2, Zenon
  <2>4. g = [T \in SUBSET (DOMAIN s) |-> g[T]]
    OBVIOUS
  <2> HIDE DEF g
  <2> QED
    BY <2>3, <2>4, Zenon
<1> USE DEF op, base
<1>4. \E h : /\ h = [T \in SUBSET (DOMAIN s) |->
                       IF T = {} THEN base ELSE op(h[T \ {Max(T)}], s[Max(T)])]
             /\ alt_printf(s, << >>) = h[DOMAIN s].out
  BY <1>3 DEF alt_printf, FoldLeft, MapThenFoldSet
<1>5. PICK h : /\ h = [T \in SUBSET (DOMAIN s) |->
                         IF T = {} THEN base ELSE op(h[T \ {Max(T)}], s[Max(T)])]
               /\ alt_printf(s, << >>) = h[DOMAIN s].out
  BY <1>4
<1> HIDE DEF op, base
<1>6. h[{}] = base
  BY <1>5
<1>7. h[DOMAIN s] = op(base, "\n")
  <2> DEFINE T == DOMAIN s
  <2>1. T \in SUBSET (DOMAIN s) /\ T # {}
    BY <1>1
  <2>2. Max(T) = 1 /\ T \ {Max(T)} = {}
    BY <1>2, <2>1, Zenon
  <2>3. h[T] = op(h[T \ {Max(T)}], s[Max(T)])
    BY <1>5, <2>1
  <2> QED
    BY <1>1, <1>6, <2>2, <2>3, Zenon
<1>8. op(base, "\n").out = Append(<< >>, "\n")
  BY DEF op, base, PrintfChar
<1>9. Append(<< >>, "\n") = <<"\n">>
  BY OneElement
<1> QED
  BY <1>5, <1>7, <1>8, <1>9 DEF s

(* A field of a text is what stands between its label and the next.         *)
LEMMA FieldOf ==
  ASSUME NEW E, NEW label \in E, label \in Labels,
         NEW x \in Seq(E \ {label}), NEW f \in Seq(E \ Labels), NEW y \in Seq(E \ {label}),
         y # << >>, y[1] \in Labels
  PROVE  Field(x \o (<<label>> \o (f \o y)), label) = f
<1> DEFINE t1 == f \o y
           t2 == <<label>> \o t1
           text == x \o t2
           m == Len(x)
           n == Len(f)
           p == Len(y)
<1>1. m \in Nat /\ n \in Nat /\ p \in Nat \ {0}
  BY Zenon, LenProperties, EmptySeq
<1>2. x \in Seq(E) /\ f \in Seq(E) /\ y \in Seq(E) /\ <<label>> \in Seq(E)
  <2>1. \A T \in SUBSET E : \A s \in Seq(T) : s \in Seq(E)
    BY SeqMonotonic
  <2>2. E \ {label} \in SUBSET E /\ E \ Labels \in SUBSET E
    OBVIOUS
  <2>3. <<label>> \in Seq(E)
    BY OneElement, Zenon
  <2> QED
    BY <2>1, <2>2, <2>3, Zenon
<1>3. \A i \in 1 .. m : x[i] # label
  BY ElementOfSeq
<1>4. \A i \in 1 .. n : f[i] \notin Labels
  BY ElementOfSeq
<1>5. \A i \in 1 .. p : y[i] # label
  BY ElementOfSeq
<1> HIDE DEF m, n, p
<1>6. t1 \in Seq(E) /\ Len(t1) = n + p
      /\ (\A i \in 1 .. n + p : t1[i] = IF i <= n THEN f[i] ELSE y[i - n])
  BY <1>2, ConcatProperties, Zenon DEF n, p
<1> HIDE DEF t1
<1>7. t2 \in Seq(E) /\ Len(t2) = 1 + (n + p)
      /\ (\A i \in 1 .. 1 + (n + p) : t2[i] = IF i <= 1 THEN <<label>>[i] ELSE t1[i - 1])
  <2>1. Len(<<label>>) = 1
    BY OneElement, Zenon
  <2>2. t2 \in Seq(E) /\ Len(t2) = Len(<<label>>) + Len(t1)
        /\ \A i \in 1 .. Len(<<label>>) + Len(t1) :
             t2[i] = IF i <= Len(<<label>>) THEN <<label>>[i] ELSE t1[i - Len(<<label>>)]
    BY <1>2, <1>6, ConcatProperties, Zenon
  <2> HIDE DEF t2
  <2> QED
    BY <1>6, <2>1, <2>2, Zenon
<1> HIDE DEF t2
<1>8. text \in Seq(E) /\ Len(text) = m + (1 + (n + p))
      /\ (\A i \in 1 .. m + (1 + (n + p)) : text[i] = IF i <= m THEN x[i] ELSE t2[i - m])
  <2>1. text \in Seq(E) /\ Len(text) = m + Len(t2)
        /\ \A i \in 1 .. m + Len(t2) : text[i] = IF i <= m THEN x[i] ELSE t2[i - m]
    BY <1>2, <1>7, ConcatProperties, Zenon DEF m
  <2> HIDE DEF text
  <2> QED
    BY <1>7, <2>1, Zenon
<1> HIDE DEF text
<1>9. \A i \in 1 .. m : text[i] = x[i]
  BY <1>1, <1>8
<1>10. text[m + 1] = label
  <2>1. m + 1 \in 1 .. m + (1 + (n + p)) /\ ~ (m + 1 <= m) /\ (m + 1) - m = 1
        /\ 1 \in 1 .. 1 + (n + p) /\ 1 <= 1
    BY <1>1
  <2>2. <<label>>[1] = label
    BY OneElement, Zenon
  <2> QED
    BY <1>7, <1>8, <2>1, <2>2, Zenon
<1>11. \A i \in 1 .. n + p : text[m + 1 + i] = t1[i]
  <2> TAKE i \in 1 .. n + p
  <2>1. m + 1 + i \in 1 .. m + (1 + (n + p)) /\ ~ (m + 1 + i <= m) /\ (m + 1 + i) - m = i + 1
        /\ i + 1 \in 1 .. 1 + (n + p) /\ ~ (i + 1 <= 1) /\ (i + 1) - 1 = i
    BY <1>1
  <2> QED
    BY <1>7, <1>8, <2>1, Zenon
<1>12. \A i \in 1 .. n : text[m + 1 + i] = f[i]
  <2> TAKE i \in 1 .. n
  <2>1. i \in 1 .. n + p /\ i <= n
    BY <1>1
  <2> QED
    BY <1>6, <1>11, <2>1, Zenon
<1>13. \A i \in 1 .. p : text[m + 1 + n + i] = y[i]
  <2> TAKE i \in 1 .. p
  <2>1. n + i \in 1 .. n + p /\ ~ (n + i <= n) /\ (n + i) - n = i
        /\ m + 1 + (n + i) = m + 1 + n + i
    BY <1>1
  <2> QED
    BY <1>6, <1>11, <2>1, Zenon
<1>14. DOMAIN text = 1 .. m + (1 + (n + p))
  BY <1>8, LenProperties, Zenon
<1>15. ASSUME NEW i \in DOMAIN text, text[i] = label PROVE i = m + 1
  <2>1. i \in 1 .. m + (1 + (n + p))
    BY <1>14
  <2>2. CASE i <= m
    <3>1. i \in 1 .. m
      BY <1>1, <2>1, <2>2
    <3> QED
      BY <1>3, <1>9, <1>15, <3>1, Zenon
  <2>3. CASE i > m + 1 /\ i <= m + 1 + n
    <3>1. i - (m + 1) \in 1 .. n /\ m + 1 + (i - (m + 1)) = i
      BY <1>1, <2>1, <2>3
    <3> QED
      BY <1>4, <1>12, <1>15, <3>1, Zenon
  <2>4. CASE i > m + 1 + n
    <3>1. i - (m + 1 + n) \in 1 .. p /\ m + 1 + n + (i - (m + 1 + n)) = i
      BY <1>1, <2>1, <2>4
    <3> QED
      BY <1>5, <1>13, <1>15, <3>1, Zenon
  <2>5. i <= m \/ i = m + 1 \/ (i > m + 1 /\ i <= m + 1 + n) \/ i > m + 1 + n
    BY <1>1, <2>1
  <2> QED
    BY <2>2, <2>3, <2>4, <2>5, Zenon
<1>16. m + 1 \in DOMAIN text
  BY <1>1, <1>14
<1> DEFINE from == (CHOOSE i \in DOMAIN text : text[i] = label) + 1
           Ends(i) == text[i] \in Labels /\ \A k \in from .. i - 1 : text[k] \notin Labels
           to   == CHOOSE i \in from .. Len(text) : Ends(i)
<1>17. from = m + 2
  <2>1. (CHOOSE i \in DOMAIN text : text[i] = label) = m + 1
    BY <1>10, <1>15, <1>16, Zenon
  <2>2. (m + 1) + 1 = m + 2
    BY <1>1
  <2> QED
    BY <2>1, <2>2, Zenon
<1>18. Field(text, label) = SubSeq(text, from, to - 1)
  BY Zenon DEF Field
<1> HIDE DEF from
<1>19. m + 2 + n \in from .. Len(text) /\ Ends(m + 2 + n)
  <2>1. m + 2 + n \in from .. Len(text)
    BY <1>1, <1>8, <1>17
  <2>2. text[m + 2 + n] = y[1]
    <3>1. 1 \in 1 .. p /\ m + 1 + n + 1 = m + 2 + n
      BY <1>1
    <3> QED
      BY <1>13, <3>1, Zenon
  <2>3. ASSUME NEW k \in from .. (m + 2 + n) - 1 PROVE text[k] \notin Labels
    <3>1. k - (m + 1) \in 1 .. n /\ m + 1 + (k - (m + 1)) = k
      BY <1>1, <1>17
    <3> QED
      BY <1>4, <1>12, <3>1, Zenon
  <2>4. text[m + 2 + n] \in Labels
    BY <2>2, Zenon
  <2>a. \A k \in from .. (m + 2 + n) - 1 : text[k] \notin Labels
    BY <2>3, Zenon
  <2>5. Ends(m + 2 + n)
    BY <2>a, <2>4, Zenon
  <2> QED
    BY <2>1, <2>5, Zenon
<1>20. ASSUME NEW i \in from .. Len(text), Ends(i) PROVE i = m + 2 + n
  <2>1. from \in Nat /\ i \in Nat /\ i >= from /\ m + 2 + n >= from
    BY <1>1, <1>17
  <2>2. CASE i < m + 2 + n
    <3>1. i \in from .. (m + 2 + n) - 1
      BY <1>1, <2>1, <2>2
    <3>2. text[i] \in Labels
      BY <1>20
    <3>a. \A k \in from .. (m + 2 + n) - 1 : text[k] \notin Labels
      BY <1>19, Zenon
    <3>b. i \in from .. (m + 2 + n) - 1
      BY <3>1, Zenon
    <3>3. text[i] \notin Labels
      BY <3>a, <3>b, Zenon
    <3> QED
      BY <3>2, <3>3, Zenon
  <2>3. CASE i > m + 2 + n
    <3>1. m + 2 + n \in from .. i - 1
      BY <1>1, <2>1, <2>3
    <3> QED
      BY <1>19, <1>20, <3>1, Zenon
  <2> QED
    BY <1>1, <2>1, <2>2, <2>3
<1> HIDE DEF Ends
<1>21. to = m + 2 + n
  BY <1>19, <1>20, Zenon
<1> HIDE DEF to
<1> DEFINE u == SubSeq(text, m + 2, m + 1 + n)
<1>22. Field(text, label) = u
  <2>1. (m + 2 + n) - 1 = m + 1 + n
    BY <1>1
  <2> QED
    BY <1>17, <1>18, <1>21, <2>1, Zenon
<1>23. ASSUME NEW i \in m + 2 .. m + 1 + n PROVE text[i] \in E
  <2>1. i \in 1 .. Len(text)
    BY <1>1, <1>8
  <2> QED
    BY <1>8, <2>1, ElementOfSeq, Zenon
<1> DEFINE c == m + 2
           b == m + 1 + n
<1>a. c \in Int /\ b \in Int /\ b - c + 1 = n /\ (c <= b <=> n # 0)
  BY <1>1
<1> HIDE DEF c, b
<1>24. u \in Seq(E) /\ Len(u) = (IF c <= b THEN b - c + 1 ELSE 0)
       /\ \A i \in 1 .. b - c + 1 : u[i] = text[c + i - 1]
  <2>1. \A i \in c .. b : text[i] \in E
    BY <1>23, Zenon DEF b, c
  <2> DEFINE w == SubSeq(text, c, b)
  <2>2. w \in Seq(E) /\ Len(w) = (IF c <= b THEN b - c + 1 ELSE 0)
        /\ \A i \in 1 .. b - c + 1 : w[i] = text[c + i - 1]
    BY <1>a, <2>1, SubSeqProperties
  <2>3. u = w
    BY Zenon DEF b, c
  <2> HIDE DEF w, u
  <2> QED
    BY <2>2, <2>3, Zenon
<1> HIDE DEF u
<1>25. Len(u) = n
  BY <1>1, <1>a, <1>24
<1>26. ASSUME NEW i \in 1 .. n PROVE u[i] = f[i]
  <2>1. i \in 1 .. b - c + 1 /\ c + i - 1 = m + 1 + i
    BY <1>1, <1>a DEF c
  <2> QED
    BY <1>12, <1>24, <2>1, Zenon
<1>27. u = f
  <2>1. u \in Seq(E) /\ f \in Seq(E) /\ Len(u) = Len(f) /\ \A i \in 1 .. Len(u) : u[i] = f[i]
    BY <1>2, <1>24, <1>25, <1>26, Zenon DEF n
  <2> QED
    BY <2>1, SeqEqual, Zenon
<1> QED
  BY <1>22, <1>27, Zenon DEF text, t2, t1

(* The report, and that its fields can be found.                            *)
Token == FieldChars \cup Labels \cup {"BANNER"}

ReportOf(a, b, c, d) ==
  <<"PLL">> \o a \o <<"FREQ">> \o b \o <<"STEP">> \o c \o <<"GAIN">> \o d \o <<"\n">>

LEMMA FieldTokens ==
  /\ FieldChars \subseteq Token \ Labels
  /\ \A l \in Labels : l \in Token /\ \A k \in Labels : k # l => k \in Token \ {l}
  /\ \A l \in Labels : FieldChars \subseteq Token \ {l}
<1>1. \A x \in FieldChars : x \in Token /\ x \notin Labels
  BY DEF FieldChars, Numerals, Labels, Token
<1>2. \A l \in Labels : l \in Token
  BY DEF Token
<1> QED
  BY <1>1, <1>2

Regroups(E, x, p, z) == (x \o p) \o z = x \o (p \o z)

LEMMA Regroup ==
  ASSUME NEW E, NEW x \in Seq(E), NEW p \in Seq(E), NEW z \in Seq(E)
  PROVE  Regroups(E, x, p, z)
BY ConcatAssociative DEF Regroups

Associates(E, x, p, d, y) ==
  /\ x \o p \o d \in Seq(E) /\ p \o (d \o y) \in Seq(E)
  /\ x \o p \o d \o y = x \o (p \o (d \o y))

LEMMA Reassociate ==
  ASSUME NEW E, NEW x \in Seq(E), NEW p \in Seq(E), NEW d \in Seq(E), NEW y \in Seq(E)
  PROVE  Associates(E, x, p, d, y)
<1>1. x \o p \in Seq(E) /\ d \o y \in Seq(E)
  BY ConcatProperties
<1>2. (x \o p) \o d \in Seq(E) /\ p \o (d \o y) \in Seq(E)
  BY <1>1, ConcatProperties
<1>3. ((x \o p) \o d) \o y = (x \o p) \o (d \o y)
  BY <1>1, ConcatAssociative, SMTT(30)
<1>4. (x \o p) \o (d \o y) = x \o (p \o (d \o y))
  <2> DEFINE z == d \o y
  <2>1. z \in Seq(E)
    BY <1>1
  <2> HIDE DEF z
  <2>2. (x \o p) \o z = x \o (p \o z)
    <3>1. Regroups(E, x, p, z)
      BY <2>1, Regroup, Zenon
    <3> QED
      BY <3>1, Zenon DEF Regroups
  <2> QED
    BY <2>2 DEF z
<1> QED
  BY <1>2, <1>3, <1>4, Zenon DEF Associates

Splits(E, p1, a, p2, b, p3, c, p4, d, p5) ==
  LET r  == p1 \o a \o p2 \o b \o p3 \o c \o p4 \o d \o p5
      y2 == p4 \o (d \o p5)
      y1 == p3 \o (c \o y2)
      y0 == p2 \o (b \o y1)
      x1 == p1 \o a
      x2 == x1 \o p2 \o b
      x3 == x2 \o p3 \o c
  IN  /\ r = p1 \o (a \o y0) /\ r = x1 \o y0 /\ r = x2 \o y1 /\ r = x3 \o y2
      /\ y0 \in Seq(E) /\ y1 \in Seq(E) /\ y2 \in Seq(E)
      /\ x1 \in Seq(E) /\ x2 \in Seq(E) /\ x3 \in Seq(E)

LEMMA ReportAssociates ==
  ASSUME NEW E,
         NEW p1 \in Seq(E), NEW a \in Seq(E), NEW p2 \in Seq(E), NEW b \in Seq(E),
         NEW p3 \in Seq(E), NEW c \in Seq(E), NEW p4 \in Seq(E), NEW d \in Seq(E),
         NEW p5 \in Seq(E)
  PROVE  Splits(E, p1, a, p2, b, p3, c, p4, d, p5)
<1> DEFINE r  == p1 \o a \o p2 \o b \o p3 \o c \o p4 \o d \o p5
           y2 == p4 \o (d \o p5)
           y1 == p3 \o (c \o y2)
           y0 == p2 \o (b \o y1)
           x1 == p1 \o a
           x2 == x1 \o p2 \o b
           x3 == x2 \o p3 \o c
<1>1. r = x3 \o p4 \o d \o p5
  OBVIOUS
<1>2. x1 \in Seq(E)
  BY ConcatProperties
<1> HIDE DEF r, x1
<1>3. x2 \in Seq(E)
  <2>1. Associates(E, x1, p2, b, b)
    BY <1>2, Reassociate, Zenon
  <2> QED
    BY <2>1, Zenon DEF Associates
<1> HIDE DEF x2
<1>4. x3 \in Seq(E)
  <2>1. Associates(E, x2, p3, c, c)
    BY <1>3, Reassociate, Zenon
  <2> QED
    BY <2>1, Zenon DEF Associates
<1> HIDE DEF x3
<1>5. y2 \in Seq(E) /\ r = x3 \o y2
  <2>1. Associates(E, x3, p4, d, p5)
    BY <1>4, Reassociate, Zenon
  <2> QED
    BY <1>1, <2>1, Zenon DEF Associates
<1> HIDE DEF y2
<1>6. y1 \in Seq(E) /\ x2 \o p3 \o c \o y2 = x2 \o y1
  <2>1. Associates(E, x2, p3, c, y2)
    BY <1>3, <1>5, Reassociate, Zenon
  <2> QED
    BY <2>1, Zenon DEF Associates
<1> HIDE DEF y1
<1>7. y0 \in Seq(E) /\ x1 \o p2 \o b \o y1 = x1 \o y0
  <2>1. Associates(E, x1, p2, b, y1)
    BY <1>2, <1>6, Reassociate, Zenon
  <2> QED
    BY <2>1, Zenon DEF Associates
<1> HIDE DEF y0
<1>8. (p1 \o a) \o y0 = p1 \o (a \o y0)
  <2>1. y0 \in Seq(E)
    BY <1>7, Zenon
  <2>2. Regroups(E, p1, a, y0)
    BY <2>1, Regroup, Zenon
  <2> QED
    BY <2>2, Zenon DEF Regroups
<1>9. r = x2 \o y1
  BY <1>5, <1>6, Zenon DEF x3
<1>10. r = x1 \o y0
  BY <1>7, <1>9, Zenon DEF x2
<1>11. r = p1 \o (a \o y0)
  BY <1>8, <1>10, Zenon DEF x1
<1> QED
  BY <1>2, <1>3, <1>4, <1>5, <1>6, <1>7, <1>9, <1>10, <1>11, Zenon
     DEF r, x1, x2, x3, y0, y1, y2, Splits

Piece(E, x, l, f, y) ==
  /\ x \o <<l>> \o f \in Seq(E)
  /\ <<l>> \o (f \o y) \in Seq(E) /\ <<l>> \o (f \o y) # << >> /\ (<<l>> \o (f \o y))[1] = l

LEMMA IsPiece ==
  ASSUME NEW E, NEW x \in Seq(E), NEW l \in E, NEW f \in Seq(E), NEW y \in Seq(E)
  PROVE  Piece(E, x, l, f, y)
<1>1. <<l>> \in Seq(E) /\ Len(<<l>>) = 1 /\ <<l>>[1] = l
  BY OneElement, Zenon
<1> DEFINE z == f \o y
           s == <<l>> \o z
<1>2. Associates(E, x, <<l>>, f, y)
  BY <1>1, Reassociate, Zenon
<1>3. z \in Seq(E)
  BY ConcatProperties
<1> HIDE DEF z
<1>4. s \in Seq(E) /\ Len(s) = 1 + Len(z) /\ s[1] = l
  <2> HIDE DEF s
  <2>1. s \in Seq(E) /\ Len(s) = Len(<<l>>) + Len(z)
        /\ \A i \in 1 .. Len(<<l>>) + Len(z) :
             s[i] = IF i <= Len(<<l>>) THEN <<l>>[i] ELSE z[i - Len(<<l>>)]
    BY <1>1, <1>3, ConcatProperties DEF s
  <2>2. 1 \in 1 .. 1 + Len(z) /\ 1 <= 1
    BY <1>3
  <2> QED
    BY <1>1, <2>1, <2>2, Zenon
<1>5. s # << >>
  <2> HIDE DEF s
  <2>1. Len(s) # 0
    BY <1>3, <1>4
  <2> QED
    BY <2>1
<1> QED
  BY <1>2, <1>4, <1>5, Zenon DEF Piece, Associates, z

FieldIs(E, label, x, f, y) == Field(x \o (<<label>> \o (f \o y)), label) = f

LEMMA IsField ==
  ASSUME NEW E, NEW label \in E, label \in Labels, NEW x, NEW f, NEW y,
         x \in Seq(E \ {label}), f \in Seq(E \ Labels), y \in Seq(E \ {label}),
         y # << >>, NEW l \in Labels, y[1] = l
  PROVE  FieldIs(E, label, x, f, y)
<1>1. y[1] \in Labels
  OBVIOUS
<1> QED
  BY <1>1, FieldOf DEF FieldIs

ReadsAs(r, a, b, c, d) ==
  /\ r \in Seq(Token) /\ r # << >>
  /\ r[1] = "PLL" /\ \A i \in 2 .. Len(r) : r[i] # "PLL"
  /\ Field(r, "PLL") = a /\ Field(r, "FREQ") = b
  /\ Field(r, "STEP") = c /\ Field(r, "GAIN") = d

LEMMA ReportReads ==
  ASSUME NEW a \in Seq(FieldChars), NEW b \in Seq(FieldChars),
         NEW c \in Seq(FieldChars), NEW d \in Seq(FieldChars)
  PROVE  ReadsAs(ReportOf(a, b, c, d), a, b, c, d)
<1> DEFINE r  == ReportOf(a, b, c, d)
           x1 == <<"PLL">> \o a
           x2 == x1 \o <<"FREQ">> \o b
           x3 == x2 \o <<"STEP">> \o c
           y3 == <<"\n">>
           y2 == <<"GAIN">> \o (d \o y3)
           y1 == <<"STEP">> \o (c \o y2)
           y0 == <<"FREQ">> \o (b \o y1)
<1>1. /\ "PLL" \in Labels /\ "FREQ" \in Labels /\ "STEP" \in Labels /\ "GAIN" \in Labels
      /\ "\n" \in Labels
  BY DEF Labels
<1>2. /\ "PLL" # "FREQ" /\ "PLL" # "STEP" /\ "PLL" # "GAIN" /\ "PLL" # "\n"
      /\ "FREQ" # "STEP" /\ "FREQ" # "GAIN" /\ "FREQ" # "\n"
      /\ "STEP" # "GAIN" /\ "STEP" # "\n" /\ "GAIN" # "\n"
  OBVIOUS
<1>3. \A E : FieldChars \subseteq E =>
        a \in Seq(E) /\ b \in Seq(E) /\ c \in Seq(E) /\ d \in Seq(E)
  BY SeqMonotonic, Zenon
<1>4. \A l \in Labels : l \in Token /\ \A k \in Labels : k # l => k \in Token \ {l}
  BY FieldTokens, Zenon
<1>5. \A l \in Labels : FieldChars \subseteq Token \ {l}
  BY FieldTokens, Zenon
<1>6. FieldChars \subseteq Token
  BY FieldTokens
<1>7. /\ r = <<"PLL">> \o (a \o y0) /\ r = x1 \o y0 /\ r = x2 \o y1 /\ r = x3 \o y2
      /\ y0 \in Seq(Token) /\ y1 \in Seq(Token) /\ y2 \in Seq(Token)
      /\ x1 \in Seq(Token) /\ x2 \in Seq(Token) /\ x3 \in Seq(Token)
  <2>1. /\ <<"PLL">> \in Seq(Token) /\ <<"FREQ">> \in Seq(Token) /\ <<"STEP">> \in Seq(Token)
        /\ <<"GAIN">> \in Seq(Token) /\ <<"\n">> \in Seq(Token)
    BY <1>1, <1>4, OneElement, Zenon
  <2>2. a \in Seq(Token) /\ b \in Seq(Token) /\ c \in Seq(Token) /\ d \in Seq(Token)
    BY <1>3, <1>6, Zenon
  <2>3. Splits(Token, <<"PLL">>, a, <<"FREQ">>, b, <<"STEP">>, c, <<"GAIN">>, d, <<"\n">>)
    BY <2>1, <2>2, ReportAssociates, Zenon
  <2> QED
    BY <2>3, Zenon DEF Splits, ReportOf
<1> DEFINE E == Token \ {"PLL"}
           F == Token \ {"FREQ"}
           G == Token \ {"STEP"}
           H == Token \ {"GAIN"}
<1> HIDE DEF E, F, G, H
<1>8. /\ "FREQ" \in E /\ "STEP" \in E /\ "GAIN" \in E /\ "\n" \in E
      /\ "PLL" \in F /\ "STEP" \in F /\ "GAIN" \in F /\ "\n" \in F
      /\ "PLL" \in G /\ "FREQ" \in G /\ "GAIN" \in G /\ "\n" \in G
      /\ "PLL" \in H /\ "FREQ" \in H /\ "STEP" \in H /\ "\n" \in H
  BY <1>1, <1>2, <1>4, Zenon DEF E, F, G, H
<1>9. FieldChars \subseteq E /\ FieldChars \subseteq F /\ FieldChars \subseteq G
      /\ FieldChars \subseteq H
  BY <1>1, <1>5, Zenon DEF E, F, G, H
<1>10. /\ << >> \in Seq(E) /\ << >> \in Seq(F) /\ << >> \in Seq(G) /\ << >> \in Seq(H)
       /\ y3 \in Seq(E) /\ y3 \in Seq(F) /\ y3 \in Seq(G) /\ y3 \in Seq(H)
       /\ y3 # << >> /\ y3[1] = "\n"
  BY <1>8, OneElement, Zenon
<1> HIDE DEF y3
<1>11. y2 \in Seq(E) /\ y2 \in Seq(F) /\ y2 \in Seq(G) /\ y2 # << >> /\ y2[1] = "GAIN"
  <2>1. Piece(E, << >>, "GAIN", d, y3) /\ Piece(F, << >>, "GAIN", d, y3)
        /\ Piece(G, << >>, "GAIN", d, y3)
    BY <1>3, <1>8, <1>9, <1>10, IsPiece, Zenon
  <2> QED
    BY <2>1, Zenon DEF Piece
<1> HIDE DEF y2
<1>12. y1 \in Seq(E) /\ y1 \in Seq(F) /\ y1 # << >> /\ y1[1] = "STEP"
  <2>1. Piece(E, << >>, "STEP", c, y2) /\ Piece(F, << >>, "STEP", c, y2)
    BY <1>3, <1>8, <1>9, <1>10, <1>11, IsPiece, Zenon
  <2> QED
    BY <2>1, Zenon DEF Piece
<1> HIDE DEF y1
<1>13. y0 \in Seq(E) /\ y0 # << >> /\ y0[1] = "FREQ"
  <2>1. Piece(E, << >>, "FREQ", b, y1)
    BY <1>3, <1>8, <1>9, <1>10, <1>12, IsPiece, Zenon
  <2> QED
    BY <2>1, Zenon DEF Piece
<1> HIDE DEF y0
<1>14. x1 \in Seq(F) /\ x1 \in Seq(G) /\ x1 \in Seq(H)
  <2>1. <<"PLL">> \in Seq(F) /\ <<"PLL">> \in Seq(G) /\ <<"PLL">> \in Seq(H)
    BY <1>8, OneElement, Zenon
  <2>2. \A S : \A s, t \in Seq(S) : s \o t \in Seq(S)
    BY ConcatProperties, Zenon
  <2> QED
    BY <1>3, <1>9, <2>1, <2>2, Zenon
<1> HIDE DEF x1
<1>15. x2 \in Seq(G) /\ x2 \in Seq(H)
  <2>1. Piece(G, x1, "FREQ", b, b) /\ Piece(H, x1, "FREQ", b, b)
    BY <1>3, <1>8, <1>9, <1>14, IsPiece, Zenon
  <2> QED
    BY <2>1, Zenon DEF Piece
<1> HIDE DEF x2
<1>16. x3 \in Seq(H)
  <2>1. Piece(H, x2, "STEP", c, c)
    BY <1>3, <1>8, <1>9, <1>15, IsPiece, Zenon
  <2> QED
    BY <2>1, Zenon DEF Piece
<1> HIDE DEF x3
<1>17. /\ a \in Seq(Token \ Labels) /\ b \in Seq(Token \ Labels)
       /\ c \in Seq(Token \ Labels) /\ d \in Seq(Token \ Labels)
  BY <1>3, FieldTokens, Zenon
<1>18. "PLL" \in Token /\ "FREQ" \in Token /\ "STEP" \in Token /\ "GAIN" \in Token
  BY <1>1, <1>4, Zenon
<1>19. Field(r, "PLL") = a
  <2>1. Field(<< >> \o (<<"PLL">> \o (a \o y0)), "PLL") = a
    BY <1>1, <1>10, <1>13, <1>17, <1>18, FieldOf, Zenon DEF E
  <2>2. << >> \o r = r
    <3>1. r \in Seq(Token)
      BY <1>7, ConcatProperties, Zenon
    <3> QED
      BY <3>1, ConcatEmptySeq, Zenon
  <2> QED
    BY <1>7, <2>1, <2>2, Zenon
<1>20. Field(r, "FREQ") = b
  <2>a. FieldIs(Token, "FREQ", x1, b, y1)
    BY <1>1, <1>12, <1>14, <1>17, <1>18, IsField, Zenon DEF F
  <2>1. Field(x1 \o (<<"FREQ">> \o (b \o y1)), "FREQ") = b
    BY <2>a, Zenon DEF FieldIs
  <2> QED
    BY <1>7, <2>1, Zenon DEF y0
<1>21. Field(r, "STEP") = c
  <2>a. FieldIs(Token, "STEP", x2, c, y2)
    BY <1>1, <1>11, <1>15, <1>17, <1>18, IsField, Zenon DEF G
  <2>1. Field(x2 \o (<<"STEP">> \o (c \o y2)), "STEP") = c
    BY <2>a, Zenon DEF FieldIs
  <2> QED
    BY <1>7, <2>1, Zenon DEF y1
<1>22. Field(r, "GAIN") = d
  <2>a. FieldIs(Token, "GAIN", x3, d, y3)
    BY <1>1, <1>10, <1>16, <1>17, <1>18, IsField, Zenon DEF H
  <2>1. Field(x3 \o (<<"GAIN">> \o (d \o y3)), "GAIN") = d
    BY <2>a, Zenon DEF FieldIs
  <2> QED
    BY <1>7, <2>1, Zenon DEF y2
<1>23. r \in Seq(Token) /\ r # << >> /\ r[1] = "PLL" /\ \A i \in 2 .. Len(r) : r[i] # "PLL"
  <2> DEFINE z == a \o y0
  <2>1. z \in Seq(E)
    BY <1>3, <1>9, <1>13, ConcatProperties, Zenon
  <2>2. r = <<"PLL">> \o z
    BY <1>7, Zenon
  <2> HIDE DEF z
  <2>3. E \subseteq Token
    BY DEF E
  <2>4. z \in Seq(Token) /\ <<"PLL">> \in Seq(Token) /\ Len(<<"PLL">>) = 1 /\ <<"PLL">>[1] = "PLL"
    BY <1>18, <2>1, <2>3, SeqMonotonic, OneElement, Zenon
  <2>5. r \in Seq(Token) /\ Len(r) = Len(<<"PLL">>) + Len(z)
        /\ \A i \in 1 .. Len(<<"PLL">>) + Len(z) :
             r[i] = IF i <= Len(<<"PLL">>) THEN <<"PLL">>[i] ELSE z[i - Len(<<"PLL">>)]
    BY <2>2, <2>4, ConcatProperties
  <2>6. Len(r) = 1 + Len(z) /\ \A i \in 1 .. 1 + Len(z) : r[i] = IF i <= 1 THEN <<"PLL">>[i] ELSE z[i - 1]
    BY <2>4, <2>5, Zenon
  <2>7. Len(z) \in Nat /\ Len(r) \in Nat \ {0} /\ 1 \in 1 .. 1 + Len(z) /\ 1 <= 1
    BY <2>4, <2>6
  <2>8. r[1] = "PLL"
    BY <2>4, <2>6, <2>7, Zenon
  <2>9. ASSUME NEW i \in 2 .. Len(r) PROVE r[i] # "PLL"
    <3>1. i \in 1 .. 1 + Len(z) /\ ~ (i <= 1) /\ i - 1 \in 1 .. Len(z)
      BY <2>6, <2>7
    <3>2. r[i] = z[i - 1]
      BY <2>6, <3>1, Zenon
    <3>3. z[i - 1] \in E
      BY <2>1, <3>1, ElementOfSeq, Zenon
    <3> QED
      BY <3>2, <3>3 DEF E
  <2>10. r # << >>
    BY <2>7, EmptySeq, Zenon
  <2> QED
    BY <2>5, <2>8, <2>9, <2>10, Zenon
<1> QED
  BY <1>19, <1>20, <1>21, <1>22, <1>23, Zenon DEF ReadsAs

LEMMA ReportSays ==
  ASSUME freq \in Int, gain \in Nat, freq_step \in Nat
  PROVE  /\ Report \in Seq(Token) /\ Report # << >>
         /\ Report[1] = "PLL" /\ \A i \in 2 .. Len(Report) : Report[i] # "PLL"
         /\ Shows(Report, "PLL", PLL_FREQ) /\ Shows(Report, "FREQ", freq)
         /\ Shows(Report, "STEP", freq_step * KHZ) /\ Shows(Report, "GAIN", gain)
<1>1. PLL_FREQ \in Int /\ freq_step * KHZ \in Int /\ gain \in Int
  BY SdrAssumption
<1>2. /\ print_dec(PLL_FREQ) \in Seq(FieldChars) /\ Says(print_dec(PLL_FREQ), PLL_FREQ)
      /\ print_dec(freq) \in Seq(FieldChars) /\ Says(print_dec(freq), freq)
      /\ print_dec(freq_step * KHZ) \in Seq(FieldChars)
      /\ Says(print_dec(freq_step * KHZ), freq_step * KHZ)
      /\ print_dec(gain) \in Seq(FieldChars) /\ Says(print_dec(gain), gain)
  BY <1>1, PrintDec, Zenon
<1>3. Report = ReportOf(print_dec(PLL_FREQ), print_dec(freq), print_dec(freq_step * KHZ),
                        print_dec(gain))
  BY NewLine, Zenon DEF Report, ReportOf, alt_putstr
<1>a. ReadsAs(ReportOf(print_dec(PLL_FREQ), print_dec(freq), print_dec(freq_step * KHZ),
                       print_dec(gain)),
              print_dec(PLL_FREQ), print_dec(freq), print_dec(freq_step * KHZ), print_dec(gain))
  BY <1>2, ReportReads, Zenon
<1>b. ReadsAs(Report, print_dec(PLL_FREQ), print_dec(freq), print_dec(freq_step * KHZ),
              print_dec(gain))
  BY <1>3, <1>a, Zenon
<1>4. /\ Report \in Seq(Token) /\ Report # << >>
      /\ Report[1] = "PLL" /\ \A i \in 2 .. Len(Report) : Report[i] # "PLL"
      /\ Field(Report, "PLL") = print_dec(PLL_FREQ) /\ Field(Report, "FREQ") = print_dec(freq)
      /\ Field(Report, "STEP") = print_dec(freq_step * KHZ)
      /\ Field(Report, "GAIN") = print_dec(gain)
  BY <1>b, Zenon DEF ReadsAs
<1>5. \A text, label, n : Shows(text, label, n) <=> Says(Field(text, label), n)
  BY Zenon DEF Shows, Says
<1> QED
  BY <1>2, <1>4, <1>5, Zenon

(* A text that ends with a report, whatever of it is out, on its way or     *)
(* shown.                                                                   *)
EndsWith(text, r) ==
  \E k \in 0 .. Len(text) : Len(text) = k + Len(r) /\ \A i \in 1 .. Len(r) : text[k + i] = r[i]

LEMMA HeadAndTail ==
  ASSUME NEW E, NEW s \in Seq(E), s # << >>
  PROVE  /\ Head(s) \in E /\ Tail(s) \in Seq(E) /\ Len(Tail(s)) = Len(s) - 1
         /\ s = <<Head(s)>> \o Tail(s)
<1> DEFINE h == Head(s)
           t == Tail(s)
           u == <<h>> \o t
<1>1. h \in E /\ t \in Seq(E) /\ Len(t) = Len(s) - 1 /\ \A i \in 1 .. Len(t) : t[i] = s[i + 1]
  BY HeadTailProperties
<1>2. h = s[1]
  OBVIOUS
<1> HIDE DEF h, t
<1>3. <<h>> \in Seq(E) /\ Len(<<h>>) = 1 /\ <<h>>[1] = h
  BY <1>1, OneElement, Zenon
<1>4. u \in Seq(E) /\ Len(u) = Len(<<h>>) + Len(t)
      /\ \A i \in 1 .. Len(<<h>>) + Len(t) :
           u[i] = IF i <= Len(<<h>>) THEN <<h>>[i] ELSE t[i - Len(<<h>>)]
  BY <1>1, <1>3, ConcatProperties
<1> HIDE DEF u
<1>5. Len(s) \in Nat /\ Len(u) = Len(s)
      /\ \A i \in 1 .. Len(s) : u[i] = IF i <= 1 THEN <<h>>[i] ELSE t[i - 1]
  <2>1. Len(s) \in Nat /\ 1 + Len(t) = Len(s)
    BY <1>1
  <2> QED
    BY <1>3, <1>4, <2>1, Zenon
<1>6. ASSUME NEW i \in 1 .. Len(s) PROVE u[i] = s[i]
  <2>1. CASE i = 1
    BY <1>2, <1>3, <1>5, <2>1
  <2>2. CASE i # 1
    <3>1. i - 1 \in 1 .. Len(t) /\ ~ (i <= 1) /\ (i - 1) + 1 = i
      BY <1>1, <1>5, <2>2
    <3> QED
      BY <1>1, <1>5, <3>1, Zenon
  <2> QED
    BY <2>1, <2>2
<1>7. s = u
  BY <1>4, <1>5, <1>6, SeqEqual
<1> QED
  BY <1>1, <1>7 DEF u, h, t

LEMMA AddedAtEnd ==
  ASSUME NEW E, NEW c \in Seq(E), NEW o \in Seq(E), NEW r \in Seq(E)
  PROVE  EndsWith(c \o (o \o r), r)
<1> DEFINE t == c \o o
           u == t \o r
<1>1. Regroups(E, c, o, r)
  BY Regroup, Zenon
<1>2. c \o (o \o r) = u
  BY <1>1, Zenon DEF Regroups
<1>3. t \in Seq(E)
  BY ConcatProperties
<1> HIDE DEF t
<1>4. u \in Seq(E) /\ Len(u) = Len(t) + Len(r)
      /\ \A i \in 1 .. Len(t) + Len(r) : u[i] = IF i <= Len(t) THEN t[i] ELSE r[i - Len(t)]
  BY <1>3, ConcatProperties
<1> HIDE DEF u
<1>5. Len(t) \in Nat /\ Len(r) \in Nat /\ Len(t) \in 0 .. Len(u)
  BY <1>3, <1>4
<1>6. ASSUME NEW i \in 1 .. Len(r) PROVE u[Len(t) + i] = r[i]
  <2>1. Len(t) + i \in 1 .. Len(t) + Len(r) /\ ~ (Len(t) + i <= Len(t))
        /\ (Len(t) + i) - Len(t) = i
    BY <1>5
  <2> QED
    BY <1>4, <2>1, Zenon
<1>7. EndsWith(u, r)
  BY <1>4, <1>5, <1>6, Zenon DEF EndsWith
<1> QED
  BY <1>2, <1>7

PutsOut(E, c, t, o) ==
  /\ Append(t, Head(o)) \in Seq(E) /\ Len(Append(t, Head(o))) = Len(t) + 1
  /\ c \o Append(t, Head(o)) \o Tail(o) = c \o t \o o

LEMMA PutOut ==
  ASSUME NEW E, NEW c \in Seq(E), NEW t \in Seq(E), NEW o \in Seq(E), o # << >>
  PROVE  PutsOut(E, c, t, o)
<1> DEFINE h == Head(o)
           q == Tail(o)
<1>1. h \in E /\ q \in Seq(E) /\ o = <<h>> \o q
  BY HeadAndTail, Zenon
<1> HIDE DEF h, q
<1>2. Append(t, h) \in Seq(E) /\ Len(Append(t, h)) = Len(t) + 1 /\ Append(t, h) = t \o <<h>>
  BY <1>1, AppendProperties, AppendIsConcat
<1>3. <<h>> \in Seq(E) /\ c \o t \in Seq(E)
  BY <1>1, OneElement, ConcatProperties
<1>4. Regroups(E, c, t, <<h>>) /\ Regroups(E, c \o t, <<h>>, q)
  BY <1>1, <1>3, Regroup, Zenon
<1>5. c \o (t \o <<h>>) = (c \o t) \o <<h>> /\ ((c \o t) \o <<h>>) \o q = (c \o t) \o (<<h>> \o q)
  BY <1>4, Zenon DEF Regroups
<1>6. (c \o Append(t, h)) \o q = (c \o t) \o o
  BY <1>1, <1>2, <1>5, Zenon
<1> QED
  BY <1>2, <1>6, Zenon DEF h, q, PutsOut

ShowsNext(E, c, t, o) ==
  /\ Append(c, Head(t)) \in Seq(E) /\ Tail(t) \in Seq(E) /\ Len(Tail(t)) = Len(t) - 1
  /\ Append(c, Head(t)) \o Tail(t) \o o = c \o t \o o
  /\ Head(t) \in E

LEMMA Shown ==
  ASSUME NEW E, NEW c \in Seq(E), NEW t \in Seq(E), NEW o \in Seq(E), t # << >>
  PROVE  ShowsNext(E, c, t, o)
<1> DEFINE h == Head(t)
           q == Tail(t)
<1>1. h \in E /\ q \in Seq(E) /\ t = <<h>> \o q /\ Len(q) = Len(t) - 1
  BY HeadAndTail, Zenon
<1> HIDE DEF h, q
<1>2. Append(c, h) \in Seq(E) /\ Append(c, h) = c \o <<h>>
  BY <1>1, AppendProperties, AppendIsConcat
<1>3. <<h>> \in Seq(E)
  BY <1>1, OneElement, Zenon
<1>4. Regroups(E, c, <<h>>, q)
  BY <1>1, <1>3, Regroup, Zenon
<1>5. Append(c, h) \o q = c \o t
  BY <1>1, <1>2, <1>4, Zenon DEF Regroups
<1> QED
  BY <1>1, <1>2, <1>5, Zenon DEF h, q, ShowsNext

(* What is cut off when a report begins is before the last report.          *)
LEMMA CutOff ==
  ASSUME NEW E, NEW c \in Seq(E), NEW z \in Seq(E), z # << >>,
         NEW r \in Seq(E), NEW l, z[1] = l,
         r # << >>, \A i \in 2 .. Len(r) : r[i] # l, EndsWith(c \o z, r)
  PROVE  EndsWith(z, r)
<1> DEFINE u == c \o z
           m == Len(c)
           n == Len(z)
           p == Len(r)
<1>1. m \in Nat /\ n \in Nat \ {0} /\ p \in Nat \ {0}
  BY Zenon, LenProperties, EmptySeq
<1>2. u \in Seq(E) /\ Len(u) = m + n
      /\ \A i \in 1 .. m + n : u[i] = IF i <= m THEN c[i] ELSE z[i - m]
  BY ConcatProperties
<1>3. PICK k \in 0 .. Len(u) : Len(u) = k + p /\ \A i \in 1 .. p : u[k + i] = r[i]
  BY Zenon DEF EndsWith
<1> HIDE DEF u, m, n, p
<1>4. ASSUME NEW i \in 1 .. n PROVE u[m + i] = z[i]
  <2>1. m + i \in 1 .. m + n /\ ~ (m + i <= m) /\ (m + i) - m = i
    BY <1>1
  <2> QED
    BY <1>2, <2>1, Zenon
<1>5. k \in Nat /\ m + n = k + p
  BY <1>2, <1>3
<1>6. m <= k
  <2>1. SUFFICES ASSUME m > k PROVE FALSE
    BY <1>1, <1>5
  <2>2. (m + 1) - k \in 2 .. p /\ (m + 1) - k \in 1 .. p /\ k + ((m + 1) - k) = m + 1 /\ 1 \in 1 .. n
    BY <1>1, <1>5, <2>1
  <2>3. u[m + 1] = z[1] /\ u[m + 1] = r[(m + 1) - k]
    BY <1>3, <1>4, <2>2, Zenon
  <2> QED
    BY <2>2, <2>3, Zenon DEF p
<1>7. k - m \in 0 .. n /\ n = (k - m) + p
  BY <1>1, <1>5, <1>6
<1>8. ASSUME NEW i \in 1 .. p PROVE z[(k - m) + i] = r[i]
  <2>1. (k - m) + i \in 1 .. n /\ m + ((k - m) + i) = k + i
    BY <1>1, <1>5, <1>6, <1>7
  <2> QED
    BY <1>3, <1>4, <2>1, Zenon
<1> QED
  BY <1>7, <1>8, Zenon DEF EndsWith, n, p

(* What holds of the radio after every step: whatever of the latest report *)
(* is not on its way to the host is what main() still has to print.        *)
RadioIndInv ==
  /\ console \in Seq(Token) /\ txfifo \in Seq(Token) /\ out \in Seq(Token)
  /\ Len(txfifo) <= DEPTH
  /\ freq \in Int /\ gain \in 0 .. GAIN_MAX /\ freq_step \in Nat
  /\ pc \in {"report", "print", "gain", "getchar"}
  /\ pc # "report" => EndsWith(console \o txfifo \o out, Report)
  /\ pc \in {"gain", "getchar"} => out = << >> /\ PHASE_INCREMENT = get_phase(freq)
  /\ pc = "getchar" => CIC_GAIN = gain

LEMMA RadioInitHolds == JtagInit /\ SdrInit => RadioIndInv
<1> SUFFICES ASSUME JtagInit /\ SdrInit PROVE RadioIndInv
  OBVIOUS
<1>1. "BANNER" \in Token
  BY DEF Token
<1>2. out = <<"BANNER">>
  BY DEF SdrInit, alt_putstr
<1>3. out \in Seq(Token)
  BY <1>1, <1>2, OneElement, Zenon
<1>4. << >> \in Seq(Token) /\ Len(<< >>) = 0
  BY EmptySeq
<1> QED
  BY <1>3, <1>4, DepthAssumption, SdrAssumption DEF JtagInit, SdrInit, RadioIndInv

(* The report depends on nothing but the settings.                         *)
LEMMA SameReport ==
  ASSUME freq' = freq, gain' = gain, freq_step' = freq_step
  PROVE  Report' = Report
BY DEF Report

LEMMA StartReportHolds == RadioIndInv /\ StartReport => RadioIndInv'
<1> SUFFICES ASSUME RadioIndInv, StartReport PROVE RadioIndInv'
  OBVIOUS
<1>1. /\ pc' = "print" /\ out' = out \o Report
      /\ UNCHANGED <<freq, gain, freq_step, txfifo, console>>
  BY DEF StartReport
<1>2. /\ console \in Seq(Token) /\ txfifo \in Seq(Token) /\ out \in Seq(Token)
      /\ freq \in Int /\ gain \in Nat /\ freq_step \in Nat
  BY SdrAssumption DEF RadioIndInv
<1>3. Report \in Seq(Token) /\ Report' = Report
  BY <1>1, <1>2, ReportSays, SameReport, Zenon
<1>4. console \o txfifo \in Seq(Token) /\ out \o Report \in Seq(Token)
  BY <1>2, <1>3, ConcatProperties
<1>5. EndsWith((console \o txfifo) \o (out \o Report), Report)
  BY <1>2, <1>3, <1>4, AddedAtEnd, Zenon
<1>6. EndsWith(console \o txfifo \o out, Report)'
  BY <1>1, <1>3, <1>5, Zenon
<1>7. out' \in Seq(Token)
  BY <1>1, <1>4, Zenon
<1>8. pc' \notin {"gain", "getchar"} /\ pc' \in {"report", "print", "gain", "getchar"}
  BY <1>1
<1> QED
  BY <1>1, <1>6, <1>7, <1>8, Zenon DEF RadioIndInv

LEMMA PrintNextHolds == RadioIndInv /\ PrintNext => RadioIndInv'
<1> SUFFICES ASSUME RadioIndInv, PrintNext PROVE RadioIndInv'
  OBVIOUS
<1>1. /\ pc = "print" /\ out # << >> /\ WSPACE > 0 /\ WriteData(Head(out)) /\ out' = Tail(out)
      /\ UNCHANGED <<pc, freq, gain, freq_step, console>>
  BY DEF PrintNext, alt_putchar, ALT_DRIVER_WRITE, altera_avalon_jtag_uart_write
<1>2. console \in Seq(Token) /\ txfifo \in Seq(Token) /\ out \in Seq(Token)
  BY DEF RadioIndInv
<1>3. txfifo' = Append(txfifo, Head(out))
  BY <1>1, Zenon DEF WriteData
<1>4. /\ txfifo' \in Seq(Token) /\ Len(txfifo') = Len(txfifo) + 1
      /\ console \o txfifo' \o Tail(out) = console \o txfifo \o out
  <2>1. PutsOut(Token, console, txfifo, out)
    BY <1>1, <1>2, PutOut, Zenon
  <2> QED
    BY <1>3, <2>1, Zenon DEF PutsOut
<1>5. Tail(out) \in Seq(Token)
  BY <1>1, <1>2, HeadAndTail, Zenon
<1>6. Len(txfifo') <= DEPTH
  <2>1. Len(txfifo) \in Nat /\ DEPTH - Len(txfifo) > 0
    BY <1>1, <1>2 DEF WSPACE
  <2> QED
    BY <1>4, <2>1, DepthAssumption
<1>7. Report' = Report
  BY <1>1, SameReport, Zenon
<1>8. EndsWith(console \o txfifo \o out, Report)
  <2>1. pc # "report"
    BY <1>1
  <2> QED
    BY <2>1, Zenon DEF RadioIndInv
<1>9. EndsWith(console \o txfifo \o out, Report)'
  BY <1>1, <1>4, <1>7, <1>8, Zenon
<1>10. pc' \notin {"gain", "getchar"} /\ pc' \in {"report", "print", "gain", "getchar"}
  BY <1>1
<1> QED
  BY <1>1, <1>4, <1>5, <1>6, <1>9, <1>10, Zenon DEF RadioIndInv

LEMMA TuneHolds == RadioIndInv /\ Tune => RadioIndInv'
<1> SUFFICES ASSUME RadioIndInv, Tune PROVE RadioIndInv'
  OBVIOUS
<1>1. /\ pc = "print" /\ pc' = "gain" /\ out = << >> /\ PHASE_INCREMENT' = get_phase(freq)
      /\ UNCHANGED <<out, freq, gain, freq_step, txfifo, console>>
  BY DEF Tune
<1>2. Report' = Report /\ get_phase(freq)' = get_phase(freq)
  BY <1>1, SameReport, Zenon DEF get_phase
<1>3. pc # "report" /\ pc' # "getchar" /\ pc' \in {"report", "print", "gain", "getchar"}
  BY <1>1
<1> QED
  BY <1>1, <1>2, <1>3, Zenon DEF RadioIndInv

LEMMA AmplifyHolds == RadioIndInv /\ Amplify => RadioIndInv'
<1> SUFFICES ASSUME RadioIndInv, Amplify PROVE RadioIndInv'
  OBVIOUS
<1>1. /\ pc = "gain" /\ pc' = "getchar" /\ CIC_GAIN' = Nibble(gain)
      /\ UNCHANGED <<out, freq, gain, freq_step, txfifo, console, PHASE_INCREMENT>>
  BY DEF Amplify
<1>2. Report' = Report /\ get_phase(freq)' = get_phase(freq)
  BY <1>1, SameReport, Zenon DEF get_phase
<1>3. Nibble(gain) = gain
  BY SdrAssumption DEF RadioIndInv, Nibble
<1>4. pc # "report" /\ pc \in {"gain", "getchar"} /\ pc' \in {"report", "print", "gain", "getchar"}
  BY <1>1
<1> QED
  BY <1>1, <1>2, <1>3, <1>4, Zenon DEF RadioIndInv

LEMMA GetKeyHolds == RadioIndInv /\ GetKey => RadioIndInv'
<1> SUFFICES ASSUME RadioIndInv, GetKey PROVE RadioIndInv'
  OBVIOUS
<1>1. /\ pc' = "report"
      /\ UNCHANGED <<out, txfifo, console>>
  BY DEF GetKey
<1>2. PICK key \in Keys :
        freq' = NewFreq(key) /\ gain' = NewGain(key) /\ freq_step' = NewStep(key)
  BY DEF GetKey
<1>3. freq \in Int /\ freq_step \in Nat /\ gain \in 0 .. GAIN_MAX /\ freq_step * KHZ \in Nat
  BY SdrAssumption DEF RadioIndInv
<1>4. NewFreq(key) \in Int
  BY <1>3, SdrAssumption DEF NewFreq
<1>5. NewGain(key) \in 0 .. GAIN_MAX
  BY <1>3, SdrAssumption DEF NewGain
<1>6. NewStep(key) \in Nat
  <2>1. CASE key \in StepKeys
    <3>1. key \in Numerals
      BY <2>1, SdrAssumption DEF Numerals
    <3>2. Value(key) \in 0 .. 9
      BY <3>1, NumeralValue, Zenon
    <3> QED
      BY <2>1, <3>2 DEF NewStep
  <2>2. CASE key \notin StepKeys
    BY <1>3, <2>2, Zenon DEF NewStep
  <2> QED
    BY <2>1, <2>2, Zenon
<1>7. pc' \notin {"gain", "getchar"} /\ pc' \in {"report", "print", "gain", "getchar"}
  BY <1>1
<1> QED
  BY <1>1, <1>2, <1>4, <1>5, <1>6, <1>7 DEF RadioIndInv

LEMMA TypeHolds == RadioIndInv /\ SdrHostType => RadioIndInv'
<1> SUFFICES ASSUME RadioIndInv, SdrHostType PROVE RadioIndInv'
  OBVIOUS
<1>1. UNCHANGED <<pc, out, freq, gain, freq_step, PHASE_INCREMENT, CIC_GAIN, txfifo, console>>
  BY DEF SdrHostType
<1>2. Report' = Report /\ get_phase(freq)' = get_phase(freq)
  BY <1>1, SameReport, Zenon DEF get_phase
<1> QED
  BY <1>1, <1>2, Zenon DEF RadioIndInv

(* The host starts its screen anew with a report; what it drops is from    *)
(* before the last one.                                                    *)
LEMMA TakeHolds == RadioIndInv /\ SdrHostTake => RadioIndInv'
<1> SUFFICES ASSUME RadioIndInv, SdrHostTake PROVE RadioIndInv'
  OBVIOUS
<1> DEFINE h == Head(txfifo)
           q == Tail(txfifo)
<1>1. /\ txfifo # << >> /\ txfifo' = q
      /\ console' = Latest(Append(console, h))
      /\ UNCHANGED <<pc, out, freq, gain, freq_step, PHASE_INCREMENT, CIC_GAIN>>
  BY DEF SdrHostTake, HostTake, Arriving, sdrVars
<1>2. /\ console \in Seq(Token) /\ txfifo \in Seq(Token) /\ out \in Seq(Token)
      /\ Len(txfifo) <= DEPTH /\ freq \in Int /\ gain \in Nat /\ freq_step \in Nat
  BY SdrAssumption DEF RadioIndInv
<1>3. /\ Append(console, h) \in Seq(Token) /\ q \in Seq(Token) /\ Len(q) = Len(txfifo) - 1
      /\ Append(console, h) \o q \o out = console \o txfifo \o out
      /\ h \in Token /\ txfifo = <<h>> \o q
  <2>1. ShowsNext(Token, console, txfifo, out) /\ txfifo = <<h>> \o q
    BY <1>1, <1>2, Shown, HeadAndTail, Zenon
  <2> QED
    BY <2>1, Zenon DEF ShowsNext
<1> HIDE DEF h, q
<1>4. Len(q) <= DEPTH
  <2>1. Len(txfifo) \in Nat
    BY <1>2
  <2> QED
    BY <1>2, <1>3, <2>1, DepthAssumption
<1>5. console' = IF h = "PLL" THEN <<"PLL">> ELSE Append(console, h)
  <2>1. Last(Append(console, h)) = h
    BY <1>2, <1>3, AppendProperties DEF Last
  <2> QED
    BY <1>1, <2>1, Zenon DEF Latest
<1>6. "PLL" \in Token
  BY DEF Token, Labels
<1>7. <<"PLL">> \in Seq(Token) /\ <<h>> \in Seq(Token)
  BY <1>3, <1>6, OneElement, Zenon
<1>8. console' \in Seq(Token)
  BY <1>3, <1>5, <1>7, Zenon
<1>9. Report' = Report /\ get_phase(freq)' = get_phase(freq)
  BY <1>1, SameReport, Zenon DEF get_phase
<1>10. ASSUME pc # "report" PROVE EndsWith(console \o txfifo \o out, Report)'
  <2>1. EndsWith(console \o txfifo \o out, Report)
    BY <1>10, Zenon DEF RadioIndInv
  <2>2. CASE h # "PLL"
    BY <1>1, <1>3, <1>5, <1>9, <2>1, <2>2, Zenon
  <2>3. CASE h = "PLL"
    <3> DEFINE z == txfifo \o out
    <3>1. z \in Seq(Token) /\ z # << >> /\ z[1] = "PLL"
      <4>1. txfifo \in Seq(Token) /\ out \in Seq(Token) /\ Len(txfifo) >= 1 /\ Len(out) \in Nat
            /\ txfifo[1] = h
        BY <1>1, <1>2 DEF h
      <4>2. z \in Seq(Token) /\ Len(z) = Len(txfifo) + Len(out) /\ z[1] = txfifo[1]
        BY <4>1, ConcatProperties
      <4>3. Len(z) # 0
        BY <4>1, <4>2
      <4> QED
        BY <2>3, <4>1, <4>2, <4>3, EmptySeq, Zenon
    <3>2. console \o z = console \o txfifo \o out
      <4>1. Regroups(Token, console, txfifo, out)
        BY <1>2, Regroup, Zenon
      <4> QED
        BY <4>1, Zenon DEF Regroups
    <3>3. /\ Report \in Seq(Token) /\ Report # << >>
          /\ \A i \in 2 .. Len(Report) : Report[i] # "PLL"
      BY <1>2, ReportSays, Zenon
    <3>4. EndsWith(console \o z, Report)
      BY <2>1, <3>2, Zenon
    <3>5. EndsWith(z, Report)
      <4> HIDE DEF z
      <4> QED
        BY <1>2, <3>1, <3>3, <3>4, CutOff, Zenon
    <3>6. <<"PLL">> \o q \o out = z
      BY <1>3, <2>3, Zenon
    <3> HIDE DEF z
    <3> QED
      BY <1>1, <1>5, <1>9, <2>3, <3>5, <3>6, Zenon
  <2> QED
    BY <2>2, <2>3, Zenon
<1> QED
  BY <1>1, <1>3, <1>4, <1>8, <1>9, <1>10, Zenon DEF RadioIndInv

LEMMA RadioStepHolds ==
  RadioIndInv /\ [SdrStep \/ SdrHostType \/ SdrHostTake]_<<jtagVars, sdrVars>> => RadioIndInv'
<1> SUFFICES ASSUME RadioIndInv, [SdrStep \/ SdrHostType \/ SdrHostTake]_<<jtagVars, sdrVars>>
             PROVE  RadioIndInv'
  OBVIOUS
<1>1. CASE UNCHANGED <<jtagVars, sdrVars>>
  <2>1. UNCHANGED <<pc, out, freq, gain, freq_step, PHASE_INCREMENT, CIC_GAIN, txfifo, console>>
    BY <1>1 DEF jtagVars, sdrVars
  <2>2. Report' = Report /\ get_phase(freq)' = get_phase(freq)
    BY <2>1, SameReport, Zenon DEF get_phase
  <2> QED
    BY <2>1, <2>2, Zenon DEF RadioIndInv
<1> QED
  BY <1>1, StartReportHolds, PrintNextHolds, TuneHolds, AmplifyHolds, GetKeyHolds, TypeHolds,
     TakeHolds, Zenon DEF SdrStep

(* While main() waits for a key nothing is left to print: what was sent    *)
(* ends with the report, and that is what SdrInv reads back.               *)
LEMMA RadioFollows == RadioIndInv => SdrInv
<1> SUFFICES ASSUME RadioIndInv PROVE SdrInv
  OBVIOUS
<1>1. /\ console \in Seq(Token) /\ txfifo \in Seq(Token) /\ out \in Seq(Token)
      /\ freq \in Int /\ gain \in Nat /\ freq_step \in Nat
  BY SdrAssumption DEF RadioIndInv
<1>2. ASSUME pc = "getchar"
      PROVE  LET sent == console \o txfifo
                 last == CHOOSE i \in DOMAIN sent :
                           sent[i] = "PLL" /\ \A k \in i + 1 .. Len(sent) : sent[k] # "PLL"
             IN  Settled(SubSeq(sent, last, Len(sent)))
  <2> DEFINE sent == console \o txfifo
             cuts(i) == sent[i] = "PLL" /\ \A k \in i + 1 .. Len(sent) : sent[k] # "PLL"
             last == CHOOSE i \in DOMAIN sent : cuts(i)
             n    == Len(sent)
             r    == Report
             p    == Len(r)
  <2>1. out = << >> /\ EndsWith(sent \o out, r) /\ PHASE_INCREMENT = get_phase(freq)
        /\ CIC_GAIN = gain
    <3>1. pc # "report" /\ pc \in {"gain", "getchar"}
      BY <1>2
    <3> QED
      BY <1>2, <3>1, Zenon DEF RadioIndInv
  <2>2. sent \in Seq(Token) /\ sent \o << >> = sent
    <3>1. sent \in Seq(Token)
      BY <1>1, ConcatProperties
    <3> QED
      BY <3>1, ConcatEmptySeq, Zenon
  <2>3. EndsWith(sent, r)
    BY <2>1, <2>2, Zenon
  <2>4. /\ r \in Seq(Token) /\ r # << >> /\ r[1] = "PLL" /\ \A i \in 2 .. p : r[i] # "PLL"
        /\ Shows(r, "PLL", PLL_FREQ) /\ Shows(r, "FREQ", freq)
        /\ Shows(r, "STEP", freq_step * KHZ) /\ Shows(r, "GAIN", gain)
    BY <1>1, ReportSays, Zenon
  <2> HIDE DEF sent, r
  <2>5. n \in Nat /\ p \in Nat \ {0} /\ DOMAIN sent = 1 .. n
    <3>1. p \in Nat /\ p # 0
      BY <2>4, LenProperties, EmptySeq, Zenon
    <3> QED
      BY <2>2, <3>1, LenProperties
  <2>6. PICK k \in 0 .. n : n = k + p /\ \A i \in 1 .. p : sent[k + i] = r[i]
    BY <2>3, Zenon DEF EndsWith
  <2> HIDE DEF n, p
  <2>7. last = k + 1
    <3>1. k + 1 \in 1 .. n /\ 1 \in 1 .. p
      BY <2>5, <2>6
    <3>2. cuts(k + 1)
      <4>1. sent[k + 1] = "PLL"
        BY <2>4, <2>6, <3>1, Zenon
      <4>2. ASSUME NEW i \in (k + 1) + 1 .. n PROVE sent[i] # "PLL"
        <5>1. i - k \in 2 .. p /\ i - k \in 1 .. p /\ k + (i - k) = i
          BY <2>5, <2>6
        <5> QED
          BY <2>4, <2>6, <5>1, Zenon
      <4> QED
        BY <4>1, <4>2, Zenon DEF n
    <3>3. ASSUME NEW i \in 1 .. n, cuts(i) PROVE i = k + 1
      <4>1. CASE i < k + 1
        <5>1. k + 1 \in i + 1 .. n
          BY <2>5, <2>6, <3>1, <4>1
        <5> QED
          BY <3>2, <3>3, <5>1, Zenon DEF n
      <4>2. CASE i > k + 1
        <5>1. i \in (k + 1) + 1 .. n
          BY <2>5, <2>6, <4>2
        <5> QED
          BY <3>2, <3>3, <5>1, Zenon DEF n
      <4> QED
        BY <2>6, <4>1, <4>2
    <3> HIDE DEF cuts
    <3> QED
      BY <2>5, <3>1, <3>2, <3>3, Zenon
  <2>8. SubSeq(sent, k + 1, n) = r
    <3> DEFINE u == SubSeq(sent, k + 1, n)
    <3>1. k + 1 \in 1 .. n /\ n \in 1 .. n /\ n - (k + 1) + 1 = p
      BY <2>5, <2>6
    <3>2. u \in Seq(Token) /\ Len(u) = p /\ \A i \in 1 .. p : u[i] = sent[(k + 1) + i - 1]
      BY <2>2, <2>5, <2>6, <3>1, SubSeqProperties DEF n
    <3> HIDE DEF u
    <3>3. ASSUME NEW i \in 1 .. p PROVE u[i] = r[i]
      <4>1. (k + 1) + i - 1 = k + i
        BY <2>5, <2>6
      <4> QED
        BY <2>6, <3>2, <4>1, Zenon
    <3>4. u = r
      BY <2>4, <3>2, <3>3, SeqEqual DEF p
    <3> QED
      BY <3>4, Zenon DEF u
  <2>9. Settled(r)
    BY <2>1, <2>4, Zenon DEF Settled
  <2>10. Settled(SubSeq(sent, last, n))
    <3> HIDE DEF last
    <3> QED
      BY <2>7, <2>8, <2>9, Zenon
  <2> QED
    BY <2>10, Zenon DEF sent, last, cuts, n
<1> QED
  BY <1>2, Zenon DEF SdrInv, RadioIndInv

-----------------------------------------------------------------------------
(* Printing a number.  Digits is what its definition says: with a smaller   *)
(* number at every call.                                                    *)
LEMMA DigitsUnfolds ==
  ASSUME NEW v \in Nat, NEW b \in Nat, b > 1
  PROVE  Digits(v, b) = IF v < b THEN <<v>> ELSE Append(Digits(v \div b, b), v % b)
<1> DEFINE V == Seq(Nat)
           m == [n \in Nat |-> IF n < b THEN 0 ELSE n]
           p == [n \in Nat |-> IF n < b THEN n ELSE n \div b]
           c == [n \in Nat |-> <<n>>]
           F == [q \in Nat \X V |-> Append(q[2], q[1] % b)]
           D(h) == h = [n \in Nat |-> IF n < b THEN <<n>> ELSE Append(h[n \div b], n % b)]
<1>1. \A n \in Nat : n \div b \in Nat /\ n % b \in Nat /\ (n >= b => n \div b < n)
  <2> TAKE n \in Nat
  <2>1. n \div b \in Nat /\ n % b \in 0 .. b - 1 /\ n = b * (n \div b) + (n % b)
    <3>1. b \in Nat \ {0}
      OBVIOUS
    <3> QED
      BY <3>1, Division, Zenon
  <2> DEFINE k == n \div b
             r == n % b
  <2>2. n >= b => k < n
    <3> HIDE DEF k, r
    <3>1. k \in Nat /\ r \in Nat /\ n = b * k + r
      BY <2>1 DEF k, r
    <3>2. SUFFICES ASSUME n >= b, k >= n PROVE FALSE
      BY <3>1
    <3>3. b * k >= 2 * k /\ n > 0
      BY <3>1, <3>2
    <3> QED
      BY <3>1, <3>2, <3>3
  <2> QED
    BY <2>1, <2>2
<1>2. m \in [Nat -> Nat] /\ p \in [Nat -> Nat]
  BY <1>1
<1>3. \A n \in Nat : m[n] # 0 => m[p[n]] < m[n]
  BY <1>1
<1>4. c \in [Nat -> V] /\ F \in [Nat \X V -> V]
  <2>1. ASSUME NEW q \in Nat \X V PROVE Append(q[2], q[1] % b) \in V
    <3>1. q[2] \in V /\ q[1] % b \in Nat
      BY <1>1
    <3> QED
      BY <3>1, AppendProperties
  <2>2. ASSUME NEW n \in Nat PROVE <<n>> \in V
    BY OneElement, Zenon
  <2> QED
    BY <2>1, <2>2
<1>5. \E g \in [Nat -> V] : Recursive(g, Nat, m, p, c, F)
  <2> HIDE DEF m, p, c, F, V
  <2> QED
    BY <1>2, <1>3, <1>4, Recursion
<1>6. PICK g \in [Nat -> V] : Recursive(g, Nat, m, p, c, F)
  BY <1>5
<1>7. D(g)
  <2>1. ASSUME NEW n \in Nat
        PROVE  g[n] = IF n < b THEN <<n>> ELSE Append(g[n \div b], n % b)
    <3>1. g[n] = IF m[n] = 0 THEN c[n] ELSE F[<<n, g[p[n]]>>]
      BY <1>6, Zenon DEF Recursive
    <3>2. CASE n < b
      BY <3>1, <3>2
    <3>3. CASE ~ (n < b)
      <4>1. m[n] # 0 /\ p[n] = n \div b /\ n \div b \in Nat
        BY <1>1, <3>3
      <4>2. g[n \div b] \in V
        BY <1>6, <4>1
      <4>3. F[<<n, g[n \div b]>>] = Append(g[n \div b], n % b)
        BY <4>2
      <4> QED
        BY <3>1, <3>3, <4>1, <4>3, Zenon
    <3> QED
      BY <3>2, <3>3
  <2> HIDE DEF V
  <2> QED
    BY <1>6, <2>1
<1> DEFINE h == CHOOSE f : D(f)
<1>8. D(h)
  <2> HIDE DEF D
  <2> QED
    BY <1>7, Zenon
<1>9. Digits(v, b) = h[v] /\ Digits(v \div b, b) = h[v \div b]
  BY Zenon DEF Digits
<1> HIDE DEF h
<1>10. h[v] = IF v < b THEN <<v>> ELSE Append(h[v \div b], v % b)
  BY <1>8
<1> QED
  BY <1>9, <1>10, Zenon

(* They are digits, and the first is not 0 but for the number 0 itself.     *)
DigitsOf(v, b, s) ==
  /\ s \in Seq(0 .. b - 1) /\ Len(s) >= 1
  /\ s[1] = 0 => v = 0 /\ Len(s) = 1

LEMMA DigitsAre ==
  ASSUME NEW v \in Nat, NEW b \in Nat, b > 1
  PROVE  DigitsOf(v, b, Digits(v, b))
<1> DEFINE Bad == {n \in Nat : ~ DigitsOf(n, b, Digits(n, b))}
<1>1. SUFFICES ASSUME Bad # {} PROVE FALSE
  OBVIOUS
<1>2. PICK n \in Bad : \A k \in Bad : n <= k
  BY <1>1, LeastNatural
<1> DEFINE E == 0 .. b - 1
<1>3. CASE n < b
  <2>1. Digits(n, b) = <<n>>
    BY <1>3, DigitsUnfolds, Zenon
  <2>2. n \in E
    BY <1>3
  <2> HIDE DEF E
  <2>3. <<n>> \in Seq(E) /\ Len(<<n>>) = 1 /\ <<n>>[1] = n
    BY <2>2, OneElement, Zenon
  <2>4. DigitsOf(n, b, <<n>>)
    <3>1. Len(<<n>>) >= 1
      BY <2>3
    <3> QED
      BY <2>3, <3>1, Zenon DEF DigitsOf, E
  <2> QED
    BY <1>2, <2>1, <2>4, Zenon
<1>4. CASE ~ (n < b)
  <2> DEFINE k == n \div b
             r == n % b
             s == Digits(k, b)
  <2>1. k \in Nat /\ r \in E /\ n = b * k + r
    BY Division
  <2>2. Digits(n, b) = Append(s, r)
    BY <1>4, DigitsUnfolds, Zenon
  <2> HIDE DEF k, r
  <2>3. k < n /\ k # 0
    <3>1. k # 0
      BY <1>4, <2>1
    <3>2. b * k >= 2 * k
      BY <2>1
    <3> QED
      BY <2>1, <3>1, <3>2
  <2>4. DigitsOf(k, b, s)
    <3>1. k \notin Bad
      BY <1>2, <2>1, <2>3
    <3> QED
      BY <2>1, <3>1, Zenon
  <2> HIDE DEF s, E
  <2>5. s \in Seq(E) /\ Len(s) >= 1 /\ s[1] # 0
    BY <2>3, <2>4, Zenon DEF DigitsOf, E
  <2>6. Append(s, r) \in Seq(E) /\ Len(Append(s, r)) = Len(s) + 1 /\ Append(s, r)[1] = s[1]
    <3>1. Len(s) \in Nat /\ 1 \in 1 .. Len(s)
      BY <2>5
    <3> QED
      BY <2>1, <2>5, <3>1, AppendProperties
  <2>7. Len(Append(s, r)) >= 1 /\ Append(s, r)[1] # 0
    <3>1. Len(s) \in Nat
      BY <2>5, LenProperties, Zenon
    <3>2. Len(Append(s, r)) >= 1
      BY <2>5, <2>6, <3>1
    <3> QED
      BY <2>5, <2>6, <3>2, Zenon
  <2>8. DigitsOf(n, b, Append(s, r))
    BY <2>6, <2>7, Zenon DEF DigitsOf, E
  <2> QED
    BY <1>2, <2>2, <2>8, Zenon
<1> QED
  BY <1>3, <1>4

(* As characters.                                                           *)
Numbered(v, b, upper) == [i \in DOMAIN Digits(v, b) |-> DigitChar(Digits(v, b)[i], upper)]
DigitSet(upper) == {DigitChar(d, upper) : d \in 0 .. 15}
DigitChars == DigitSet(TRUE) \cup DigitSet(FALSE)

LEMMA TextOfDigits ==
  ASSUME NEW s \in Seq(Nat), NEW d \in Nat, NEW u
  PROVE  [i \in DOMAIN Append(s, d) |-> DigitChar(Append(s, d)[i], u)] =
           Append([i \in DOMAIN s |-> DigitChar(s[i], u)], DigitChar(d, u))
<1> DEFINE f(x) == DigitChar(x, u)
<1> HIDE DEF f
<1>1. [i \in DOMAIN Append(s, d) |-> f(Append(s, d)[i])] = Append([i \in DOMAIN s |-> f(s[i])], f(d))
  OBVIOUS
<1> QED
  BY <1>1 DEF f

LEMMA DigitCharIs ==
  ASSUME NEW d \in 0 .. 15, NEW u \in BOOLEAN
  PROVE  /\ DigitChar(d, u) \in DigitChars
         /\ DigitChar(d, u) = "0" <=> d = 0
         /\ DigitChar(d, u) # " " /\ DigitChar(d, u) # "-" /\ DigitChar(d, u) # "^D"
         /\ DigitChar(d, u) # "none"
<1>1. DigitChar(d, u) \in DigitChars
  <2>1. u = TRUE \/ u = FALSE
    OBVIOUS
  <2> QED
    BY <2>1, Zenon DEF DigitChars, DigitSet
<1> DEFINE c == DigitChar(d, u)
<1>2. CASE u
  <2>1. c = "0" <=> d = 0
    BY <1>2 DEF DigitChar
  <2>2. c \in {"0", "1", "2", "3", "4", "5", "6", "7", "8", "9", "A", "B", "C", "D", "E", "F"}
    BY <1>2 DEF DigitChar
  <2> HIDE DEF c
  <2>3. c # " " /\ c # "-" /\ c # "^D" /\ c # "none"
    BY <2>2
  <2> QED
    BY <1>1, <2>1, <2>3 DEF c
<1>3. CASE ~ u
  <2>1. c = "0" <=> d = 0
    BY <1>3 DEF DigitChar
  <2>2. c \in {"0", "1", "2", "3", "4", "5", "6", "7", "8", "9", "a", "b", "c", "d", "e", "f"}
    BY <1>3 DEF DigitChar
  <2> HIDE DEF c
  <2>3. c # " " /\ c # "-" /\ c # "^D" /\ c # "none"
    BY <2>2
  <2> QED
    BY <1>1, <2>1, <2>3 DEF c
<1> QED
  BY <1>2, <1>3

LEMMA DigitCharTells ==
  ASSUME NEW d \in 0 .. 15, NEW k \in 0 .. 15, NEW u \in BOOLEAN, DigitChar(d, u) = DigitChar(k, u)
  PROVE  d = k
<1>2. CASE u
  BY <1>2 DEF DigitChar
<1>3. CASE ~ u
  BY <1>3 DEF DigitChar
<1> QED
  BY <1>2, <1>3

LEMMA NumberedUnfolds ==
  ASSUME NEW v \in Nat, NEW b \in Nat, b > 1, NEW u
  PROVE  Numbered(v, b, u) = IF v < b THEN <<DigitChar(v, u)>>
                             ELSE Append(Numbered(v \div b, b, u), DigitChar(v % b, u))
<1> DEFINE f(s) == [i \in DOMAIN s |-> DigitChar(s[i], u)]
           q == v \div b
           r == v % b
           s == Digits(q, b)
<1>1. q \in Nat /\ r \in Nat
  <2>1. b \in Nat \ {0}
    OBVIOUS
  <2> QED
    BY <2>1, Division
<1>2. s \in Seq(Nat)
  <2>1. DigitsOf(q, b, s)
    BY <1>1, DigitsAre, Zenon
  <2>2. 0 .. b - 1 \subseteq Nat
    OBVIOUS
  <2> QED
    BY <2>1, <2>2, SeqMonotonic, Zenon DEF DigitsOf
<1>3. Numbered(v, b, u) = f(Digits(v, b)) /\ Numbered(q, b, u) = f(s)
  BY Zenon DEF Numbered
<1>4. Digits(v, b) = IF v < b THEN <<v>> ELSE Append(s, r)
  BY DigitsUnfolds, Zenon
<1> HIDE DEF q, r, s
<1>5. f(Append(s, r)) = Append(f(s), DigitChar(r, u))
  BY <1>1, <1>2, TextOfDigits, Zenon
<1>6. f(<<v>>) = <<DigitChar(v, u)>>
  OBVIOUS
<1> HIDE DEF f
<1> QED
  BY <1>3, <1>4, <1>5, <1>6, Zenon DEF q, r

LEMMA NumberedIs ==
  ASSUME NEW v \in Nat, NEW b \in {8, 10, 16}, NEW u \in BOOLEAN
  PROVE  /\ Numbered(v, b, u) \in Seq(DigitChars) /\ Len(Numbered(v, b, u)) >= 1
         /\ Numbered(v, b, u) \in Seq(DigitSet(u))
         /\ Numbered(v, b, u)[1] = "0" => v = 0 /\ Len(Numbered(v, b, u)) = 1
<1> DEFINE s == Digits(v, b)
           t == Numbered(v, b, u)
<1>1. DigitsOf(v, b, s)
  <2>1. b \in Nat /\ b > 1
    OBVIOUS
  <2> QED
    BY <2>1, DigitsAre, Zenon
<1>2. t = [i \in DOMAIN s |-> DigitChar(s[i], u)]
  BY Zenon DEF Numbered
<1> HIDE DEF s, t
<1>3. s \in Seq(0 .. 15) /\ Len(s) \in Nat /\ Len(s) >= 1 /\ DOMAIN s = 1 .. Len(s)
  <2>1. 0 .. b - 1 \subseteq 0 .. 15
    OBVIOUS
  <2> QED
    BY <1>1, <2>1, SeqMonotonic, LenProperties, Zenon DEF DigitsOf
<1>4. \A i \in 1 .. Len(s) : s[i] \in 0 .. 15 /\ DigitChar(s[i], u) \in DigitSet(u)
  BY <1>3, ElementOfSeq, Zenon DEF DigitSet
<1>5. t \in Seq(DigitSet(u)) /\ Len(t) = Len(s) /\ t \in Seq(DigitChars)
  <2>1. t \in [1 .. Len(s) -> DigitSet(u)]
    BY <1>2, <1>3, <1>4, Zenon
  <2>2. t \in Seq(DigitSet(u)) /\ Len(t) = Len(s)
    BY <1>3, <2>1
  <2>3. DigitSet(u) \subseteq DigitChars
    BY DigitCharIs, Zenon DEF DigitSet
  <2> QED
    BY <2>2, <2>3, SeqMonotonic, Zenon
<1>6. 1 \in 1 .. Len(s)
  BY <1>3
<1>7. t[1] = DigitChar(s[1], u)
  BY <1>2, <1>3, <1>6, Zenon
<1>8. t[1] = "0" => s[1] = 0
  BY <1>4, <1>6, <1>7, DigitCharIs, Zenon
<1> QED
  BY <1>1, <1>3, <1>5, <1>8, Zenon DEF DigitsOf, t

(* The log: what of the text of a console one side has written.            *)
OwnStep(origin, C) ==
  [q \in Seq(C) \X (Nat \X C) |-> IF q[2][1] = origin THEN Append(q[1], q[2][2]) ELSE q[1]]

LEMMA OwnStates ==
  ASSUME NEW C, NEW origin, NEW s \in Seq(Nat \X C)
  PROVE  FoldsTo(s, OwnStep(origin, C), << >>, Seq(C), OwnOf(s, origin))
<1> DEFINE op(own, x) == IF x[1] = origin THEN Append(own, x[2]) ELSE own
           G == OwnStep(origin, C)
           V == Seq(C)
           E == Nat \X C
<1>1. ASSUME NEW v \in V, NEW x \in E PROVE op(v, x) \in V /\ G[<<v, x>>] = op(v, x)
  <2>1. Append(v, x[2]) \in V
    BY AppendProperties
  <2>2. G[<<v, x>>] = op(v, x)
    BY Zenon DEF OwnStep
  <2> QED
    BY <2>1, <2>2, Zenon
<1>2. G \in [V \X E -> V]
  <2>1. ASSUME NEW q \in V \X E PROVE op(q[1], q[2]) \in V
    BY <1>1
  <2>2. G = [q \in V \X E |-> op(q[1], q[2])]
    BY Zenon DEF OwnStep
  <2> HIDE DEF op, G, V, E
  <2> QED
    BY <2>1, <2>2
<1>a. << >> \in V
  BY EmptySeq
<1> HIDE DEF G
<1>3. PICK g \in [SUBSET (DOMAIN s) -> V] : FoldOver(g, s, G, << >>)
  BY <1>2, <1>a, FoldExists, Zenon
<1>4. \A T \in SUBSET (DOMAIN s) : T # {} => s[Max(T)] \in E
  <2> TAKE T \in SUBSET (DOMAIN s)
  <2> HAVE T # {}
  <2>1. Len(s) \in Nat /\ DOMAIN s = 1 .. Len(s)
    BY LenProperties
  <2>2. Max(T) \in DOMAIN s
    BY <2>1, Greatest
  <2> QED
    BY <2>1, <2>2, ElementOfSeq, Zenon
<1>5. g = [T \in SUBSET (DOMAIN s) |-> IF T = {} THEN << >> ELSE op(g[T \ {Max(T)}], s[Max(T)])]
  <2>1. \A T \in SUBSET (DOMAIN s) : T \ {Max(T)} \in SUBSET (DOMAIN s)
    OBVIOUS
  <2>2. ASSUME NEW T \in SUBSET (DOMAIN s), T # {}
        PROVE  g[T] = op(g[T \ {Max(T)}], s[Max(T)])
    <3>1. g[T] = G[<<g[T \ {Max(T)}], s[Max(T)]>>]
      BY <1>3, <2>2, Zenon DEF FoldOver
    <3>2. g[T \ {Max(T)}] \in V /\ s[Max(T)] \in E
      BY <1>4, <2>1, <2>2
    <3> HIDE DEF op, V, E
    <3> QED
      BY <1>1, <3>1, <3>2, Zenon
  <2>3. g[{}] = << >>
    BY <1>3, Zenon DEF FoldOver
  <2> HIDE DEF op, V, E
  <2> QED
    BY <2>2, <2>3
<1>6. \E h : /\ h = [T \in SUBSET (DOMAIN s) |->
                       IF T = {} THEN << >> ELSE op(h[T \ {Max(T)}], s[Max(T)])]
             /\ OwnOf(s, origin) = h[DOMAIN s]
  BY <1>5 DEF OwnOf, FoldLeft, MapThenFoldSet
<1>7. PICK h : /\ h = [T \in SUBSET (DOMAIN s) |->
                       IF T = {} THEN << >> ELSE op(h[T \ {Max(T)}], s[Max(T)])]
               /\ OwnOf(s, origin) = h[DOMAIN s]
  BY <1>6
<1>8. h[{}] = << >>
  BY <1>7
<1> HIDE DEF op, V, E
<1>9. \A T \in SUBSET (DOMAIN s) :
        T # {} /\ h[T \ {Max(T)}] \in V => h[T] = G[<<h[T \ {Max(T)}], s[Max(T)]>>]
  <2>1. \A T \in SUBSET (DOMAIN s) : T # {} => h[T] = op(h[T \ {Max(T)}], s[Max(T)])
    BY <1>7
  <2> QED
    BY <2>1, <1>1, <1>4
<1>10. FoldIn(h, s, G, << >>, V)
  BY <1>8, <1>9 DEF FoldIn
<1>11. FoldsTo(s, G, << >>, V, h[DOMAIN s])
  <2>1. s \in Seq(E)
    BY DEF E
  <2> QED
    BY <1>2, <1>a, <1>10, <2>1, FoldStates, Zenon
<1> QED
  BY <1>7, <1>11, Zenon DEF G, V, E

Owns(C, s, n, c, origin) ==
  /\ OwnOf(s, origin) \in Seq(C)
  /\ OwnOf(Append(s, <<n, c>>), origin) =
       IF n = origin THEN Append(OwnOf(s, origin), c) ELSE OwnOf(s, origin)

LEMMA OwnAppend ==
  ASSUME NEW C, NEW s \in Seq(Nat \X C), NEW n \in Nat, NEW c \in C, NEW origin
  PROVE  Owns(C, s, n, c, origin)
<1> DEFINE t == Append(s, <<n, c>>)
           G == OwnStep(origin, C)
<1>1. t \in Seq(Nat \X C) /\ <<n, c>> \in Nat \X C
  BY AppendProperties
<1>2. FoldsTo(s, G, << >>, Seq(C), OwnOf(s, origin))
  BY OwnStates, Zenon
<1>3. FoldsTo(t, G, << >>, Seq(C), OwnOf(t, origin))
  BY <1>1, OwnStates, Zenon
<1>4. OwnOf(s, origin) \in Seq(C)
  BY <1>2, LenProperties DEF FoldsTo
<1>5. OwnOf(t, origin) = G[<<OwnOf(s, origin), <<n, c>>>>]
  <2> DEFINE e == <<n, c>>
             E == Nat \X C
             V == Seq(C)
             x == OwnOf(s, origin)
             y == OwnOf(Append(s, e), origin)
  <2>1. e \in E /\ s \in Seq(E) /\ FoldsTo(s, G, << >>, V, x)
        /\ FoldsTo(Append(s, e), G, << >>, V, y)
    BY <1>1, <1>2, <1>3, Zenon
  <2> HIDE DEF e, E, V, G, x, y
  <2>2. y = G[<<x, e>>]
    BY <2>1, OneMore
  <2> QED
    BY <2>2 DEF x, y, e
<1>6. G[<<OwnOf(s, origin), <<n, c>>>>] =
        IF n = origin THEN Append(OwnOf(s, origin), c) ELSE OwnOf(s, origin)
  BY <1>4 DEF OwnStep
<1> QED
  BY <1>4, <1>5, <1>6, Zenon DEF Owns

LEMMA OwnNothing == ASSUME NEW origin PROVE OwnOf(<< >>, origin) = << >>
<1>1. << >> \in Seq(Nat \X {}) /\ Len(<< >>) = 0
  BY EmptySeq
<1>2. FoldsTo(<< >>, OwnStep(origin, {}), << >>, Seq({}), OwnOf(<< >>, origin))
  BY <1>1, OwnStates, Zenon
<1> QED
  BY <1>1, <1>2, Zenon DEF FoldsTo, StatesOf

(* The entries of an origin are the last; no origin is beyond m.            *)
AtTheEnd(s, n) == \A i \in DOMAIN s : s[i][1] = n => \A k \in i .. Len(s) : s[k][1] = n
UpTo(s, m)     == \A i \in DOMAIN s : s[i][1] \in 0 .. m

LEMMA EndIsOnePiece ==
  ASSUME NEW E, NEW s \in Seq(E), NEW n, AtTheEnd(s, n)
  PROVE  InOnePiece(s, n)
<1>1. Len(s) \in Nat /\ DOMAIN s = 1 .. Len(s)
  BY LenProperties
<1>2. ASSUME NEW i \in DOMAIN s, NEW j \in DOMAIN s, s[i][1] = n, NEW k \in i .. j
      PROVE  s[k][1] = n
  <2>1. k \in i .. Len(s)
    BY <1>1
  <2> QED
    BY <1>2, <2>1, Zenon DEF AtTheEnd
<1> QED
  BY <1>2, Zenon DEF InOnePiece

(* What an entry more does to them.                                         *)
Continues(s, n, c, m) ==
  LET t == Append(s, <<n, c>>)
  IN  /\ \A l \in Nat : l # n /\ InOnePiece(s, l) => InOnePiece(t, l)
      /\ AtTheEnd(s, n) => AtTheEnd(t, n)
      /\ UpTo(s, m) /\ n <= m => UpTo(t, m)

LEMMA Continued ==
  ASSUME NEW C, NEW s \in Seq(Nat \X C), NEW n \in Nat, NEW c \in C, NEW m \in Nat
  PROVE  Continues(s, n, c, m)
<1> DEFINE e == <<n, c>>
           t == Append(s, e)
           p == Len(s)
<1>1. p \in Nat /\ DOMAIN s = 1 .. p /\ e \in Nat \X C /\ e[1] = n
  BY LenProperties
<1>2. t \in Seq(Nat \X C) /\ Len(t) = p + 1 /\ t[p + 1] = e /\ \A i \in 1 .. p : t[i] = s[i]
  <2> HIDE DEF e
  <2> QED
    BY <1>1, AppendProperties
<1>3. DOMAIN t = 1 .. p + 1
  BY <1>2, LenProperties
<1> HIDE DEF t, p, e
<1>4. ASSUME NEW l \in Nat, l # n, InOnePiece(s, l) PROVE InOnePiece(t, l)
  <2>1. ASSUME NEW i \in 1 .. p + 1, NEW j \in 1 .. p + 1, t[i][1] = l, t[j][1] = l, NEW k \in i .. j
        PROVE  t[k][1] = l
    <3>1. i # p + 1 /\ j # p + 1
      BY <1>1, <1>2, <1>4, <2>1, Zenon
    <3>2. i \in 1 .. p /\ j \in 1 .. p /\ k \in 1 .. p
      BY <1>1, <2>1, <3>1
    <3>3. s[i][1] = l /\ s[j][1] = l
      BY <1>2, <2>1, <3>2, Zenon
    <3>4. s[k][1] = l
      BY <1>1, <1>4, <2>1, <3>2, <3>3, Zenon DEF InOnePiece
    <3> QED
      BY <1>2, <3>2, <3>4, Zenon
  <2> QED
    BY <1>3, <2>1, Zenon DEF InOnePiece
<1>5. ASSUME AtTheEnd(s, n) PROVE AtTheEnd(t, n)
  <2>1. ASSUME NEW i \in 1 .. p + 1, t[i][1] = n, NEW k \in i .. p + 1 PROVE t[k][1] = n
    <3>1. CASE k = p + 1
      BY <1>1, <1>2, <3>1, Zenon
    <3>2. CASE k # p + 1
      <4>1. i \in 1 .. p /\ k \in i .. p /\ k \in 1 .. p
        BY <1>1, <2>1, <3>2
      <4>2. s[k][1] = n
        BY <1>1, <1>2, <1>5, <2>1, <4>1, Zenon DEF AtTheEnd, p
      <4> QED
        BY <1>2, <4>1, <4>2, Zenon
    <3> QED
      BY <3>1, <3>2
  <2> QED
    BY <1>2, <1>3, <2>1, Zenon DEF AtTheEnd
<1>6. ASSUME UpTo(s, m), n <= m PROVE UpTo(t, m)
  <2>1. n \in 0 .. m
    BY <1>6
  <2>2. ASSUME NEW i \in 1 .. p + 1 PROVE t[i][1] \in 0 .. m
    <3>1. CASE i = p + 1
      BY <1>1, <1>2, <2>1, <3>1, Zenon
    <3>2. CASE i # p + 1
      <4>1. i \in 1 .. p
        BY <1>1, <3>2
      <4> QED
        BY <1>1, <1>2, <1>6, <4>1, Zenon DEF UpTo
    <3> QED
      BY <3>1, <3>2
  <2> QED
    BY <1>3, <2>2, Zenon DEF UpTo
<1> QED
  BY <1>4, <1>5, <1>6, Zenon DEF Continues, t, e

LEMMA OneOriginMore ==
  ASSUME NEW s, NEW m \in Nat, UpTo(s, m)
  PROVE  UpTo(s, m + 1) /\ AtTheEnd(s, m + 1)
<1>1. \A x \in 0 .. m : x \in 0 .. m + 1 /\ x # m + 1
  OBVIOUS
<1> QED
  BY <1>1, Zenon DEF UpTo, AtTheEnd

(* The log.  No text the program logs holds a Ctrl-D, and none an interrupt *)
(* logs the word that stands for no interrupt.                              *)
Headers   == {"JTAG Startup Info:", "JTAG Alarm:", "JTAG IRQ:", "System Clock On "}
Logged    == DigitChars \cup {" ", "-", "\n", "%", "i", "u", "o", "x", "X"} \cup Headers
TextChars == UNION {Range(text) : text \in Writes}
Plain     == Logged \cup {"D", "s", "\r", "Write Echo: "} \cup (TextChars \ {"^D"})

LEMMA LoggedIs ==
  /\ "none" \notin Logged /\ "^D" \notin Logged /\ "^D" \notin Plain
  /\ Logged \subseteq Plain /\ DigitChars \subseteq Logged
<1>1. ASSUME NEW c \in DigitChars PROVE c # "none" /\ c # "^D"
  <2>1. PICK d \in 0 .. 15, u \in BOOLEAN : c = DigitChar(d, u)
    <3>1. TRUE \in BOOLEAN /\ FALSE \in BOOLEAN
      OBVIOUS
    <3> QED
      BY <3>1, Zenon DEF DigitChars, DigitSet
  <2> QED
    BY <2>1, DigitCharIs, Zenon
<1>2. "none" \notin Logged /\ "^D" \notin Logged
  BY <1>1 DEF Logged, Headers
<1> QED
  BY <1>2 DEF Plain, Logged

LogTypes ==
  /\ console \in Seq(Nat \X Plain) /\ txfifo \in Seq(Nat \X Plain)
  /\ message \in Seq(Plain) /\ said \in Seq(Plain)
  /\ ready \in BOOLEAN /\ irqs \in Nat /\ lost \in Nat /\ in_sec \in Nat
  /\ isr # NoIsr => isr \in Seq(Logged) /\ irqs # 0
  /\ isaid \in Seq(Seq(Logged)) /\ Len(isaid) = irqs

(* A thread that has seen room in the FIFO will find it full only if an     *)
(* interrupt has come since, of which no loss has been told yet.            *)
LogCounts ==
  /\ lost <= irqs
  /\ ready => /\ message # << >>
              /\ WSPACE > 0 \/ lost < irqs
              /\ isr # NoIsr => lost < irqs

LogThread ==
  /\ lost = 0 => From(0) \o message = said
  /\ Len(From(0)) + lost + Len(message) = Len(said)

LogPieces ==
  /\ \A n \in 1 .. irqs : From(n) \o Running(n) = isaid[n]
  /\ \A n \in Nat : n > irqs => From(n) = << >>

LogOrder ==
  /\ UpTo(Arrived, irqs)
  /\ \A n \in 1 .. irqs : InOnePiece(Arrived, n)
  /\ isr # NoIsr => AtTheEnd(Arrived, irqs)

LogIndInv == LogTypes /\ LogCounts /\ LogThread /\ LogPieces /\ LogOrder

LEMMA NotLogged == NoIsr \notin Seq(Logged)
<1>1. NoIsr[1] = "none" /\ Len(NoIsr) = 1
  BY DEF NoIsr
<1>2. SUFFICES ASSUME NoIsr \in Seq(Logged) PROVE FALSE
  OBVIOUS
<1>3. NoIsr[1] \in Logged
  <2>1. 1 \in 1 .. Len(NoIsr)
    BY <1>1
  <2> HIDE DEF NoIsr
  <2> QED
    BY <1>2, <2>1, ElementOfSeq
<1> QED
  BY <1>1, <1>3, LoggedIs, Zenon

LEMMA FromIs == ASSUME NEW n PROVE From(n) = OwnOf(Arrived, n)
BY DEF From

LEMMA SameText ==
  ASSUME console' = console, txfifo' = txfifo
  PROVE  Arrived' = Arrived /\ (\A n : From(n)' = From(n)) /\ WSPACE' = WSPACE
BY DEF Arrived, From, WSPACE

LEMMA TextTypes ==
  ASSUME LogTypes
  PROVE  Arrived \in Seq(Nat \X Plain) /\ \A n : From(n) \in Seq(Plain)
<1>1. Arrived \in Seq(Nat \X Plain)
  BY ConcatProperties, Zenon DEF LogTypes, Arrived
<1>2. ASSUME NEW n PROVE From(n) \in Seq(Plain)
  <2>1. FoldsTo(Arrived, OwnStep(n, Plain), << >>, Seq(Plain), From(n))
    BY <1>1, OwnStates, FromIs, Zenon
  <2> QED
    BY <1>1, <2>1, LenProperties DEF FoldsTo
<1> QED
  BY <1>1, <1>2

(* One entry more on its way to the console.                                *)
LEMMA TextMore ==
  ASSUME LogTypes, NEW n \in Nat, NEW c \in Plain,
         console' = console, txfifo' = Append(txfifo, <<n, c>>)
  PROVE  /\ Arrived' = Append(Arrived, <<n, c>>)
         /\ txfifo' \in Seq(Nat \X Plain) /\ Len(txfifo') = Len(txfifo) + 1
         /\ From(n)' = Append(From(n), c)
         /\ \A k : k # n => From(k)' = From(k)
<1> DEFINE e == <<n, c>>
<1>1. e \in Nat \X Plain /\ console \in Seq(Nat \X Plain) /\ txfifo \in Seq(Nat \X Plain)
      /\ <<e>> \in Seq(Nat \X Plain)
  BY OneElement, Zenon DEF LogTypes
<1>2. txfifo' \in Seq(Nat \X Plain) /\ Len(txfifo') = Len(txfifo) + 1
  <2>1. txfifo' = Append(txfifo, e)
    OBVIOUS
  <2> HIDE DEF e
  <2> QED
    BY <1>1, <2>1, AppendProperties
<1>3. Arrived' = Append(Arrived, e)
  <2>1. Regroups(Nat \X Plain, console, txfifo, <<e>>)
    BY <1>1, Regroup, Zenon
  <2>2. console \o txfifo \in Seq(Nat \X Plain)
    BY <1>1, ConcatProperties, Zenon
  <2>3. txfifo' = Append(txfifo, e)
    OBVIOUS
  <2> HIDE DEF e
  <2>4. Append(txfifo, e) = txfifo \o <<e>>
        /\ Append(console \o txfifo, e) = (console \o txfifo) \o <<e>>
    BY <1>1, <2>2, AppendIsConcat, Zenon
  <2>5. Arrived' = console \o txfifo'
    BY DEF Arrived
  <2> QED
    BY <2>1, <2>3, <2>4, <2>5, Zenon DEF Regroups, Arrived
<1>4. ASSUME NEW k PROVE From(k)' = IF n = k THEN Append(From(k), c) ELSE From(k)
  <2>1. Arrived \in Seq(Nat \X Plain)
    BY TextTypes, Zenon
  <2>2. Owns(Plain, Arrived, n, c, k)
    BY <2>1, OwnAppend, Zenon
  <2>3. From(k)' = OwnOf(Arrived', k)
    BY DEF From
  <2> QED
    BY <1>3, <2>2, <2>3, FromIs, Zenon DEF Owns
<1> QED
  BY <1>2, <1>3, <1>4, Zenon

LEMMA LogInitHolds ==
  JtagInit /\ LogInit /\ Startup \in Seq(Plain) => LogIndInv
<1> SUFFICES ASSUME JtagInit, LogInit, Startup \in Seq(Plain) PROVE LogIndInv
  OBVIOUS
<1>1. /\ message = Startup /\ said = Startup /\ ready = FALSE /\ isr = NoIsr /\ irqs = 0
      /\ in_sec = 0 /\ lost = 0 /\ isaid = << >> /\ console = << >> /\ txfifo = << >>
  BY DEF JtagInit, LogInit
<1>2. \A S : << >> \in Seq(S) /\ Len(<< >>) = 0 /\ DOMAIN << >> = {}
  BY EmptySeq
<1>3. Arrived = << >>
  <2>1. << >> \o << >> = << >>
    OBVIOUS
  <2> QED
    BY <1>1, <2>1, Zenon DEF Arrived
<1>4. \A n : From(n) = << >>
  BY <1>3, FromIs, OwnNothing, Zenon
<1>5. LogTypes
  BY <1>1, <1>2 DEF LogTypes
<1>6. LogCounts
  BY <1>1 DEF LogCounts
<1>7. LogThread
  <2>1. << >> \o Startup = Startup /\ Len(Startup) \in Nat /\ Len(From(0)) = 0
    BY <1>2, <1>4, ConcatEmptySeq, LenProperties, Zenon
  <2> QED
    BY <1>1, <1>4, <2>1 DEF LogThread
<1>8. LogPieces
  BY <1>1, <1>4 DEF LogPieces
<1>9. LogOrder
  BY <1>1, <1>2, <1>3 DEF LogOrder, UpTo
<1> QED
  BY <1>5, <1>6, <1>7, <1>8, <1>9 DEF LogIndInv

(* Steps that leave the FIFO and what the interrupts have to say alone.     *)
LEMMA TxPollHolds == LogIndInv /\ TxPoll => LogIndInv'
<1> SUFFICES ASSUME LogIndInv, TxPoll PROVE LogIndInv'
  OBVIOUS
<1>1. /\ isr = NoIsr /\ message # << >> /\ WSPACE > 0 /\ ready' = TRUE
      /\ UNCHANGED <<message, isr, irqs, in_sec, said, lost, isaid, txfifo, console>>
  BY DEF TxPoll, Ready
<1>2. Arrived' = Arrived /\ (\A n : From(n)' = From(n)) /\ WSPACE' = WSPACE
  BY <1>1, SameText, Zenon
<1>3. \A n : Running(n)' = Running(n)
  BY <1>1 DEF Running
<1>4. LogTypes' /\ LogThread' /\ LogPieces' /\ LogOrder'
  BY <1>1, <1>2, <1>3 DEF LogIndInv, LogTypes, LogThread, LogPieces, LogOrder
<1>5. LogCounts'
  BY <1>1, <1>2 DEF LogIndInv, LogCounts
<1> QED
  BY <1>4, <1>5 DEF LogIndInv

LEMMA IsrReturnHolds == LogIndInv /\ IsrReturn => LogIndInv'
<1> SUFFICES ASSUME LogIndInv, IsrReturn PROVE LogIndInv'
  OBVIOUS
<1>1. /\ isr = << >> /\ isr' = NoIsr
      /\ UNCHANGED <<message, ready, irqs, in_sec, said, lost, isaid, txfifo, console>>
  BY DEF IsrReturn
<1>2. Arrived' = Arrived /\ (\A n : From(n)' = From(n)) /\ WSPACE' = WSPACE
  BY <1>1, SameText, Zenon
<1>3. \A n : Running(n)' = Running(n)
  BY <1>1 DEF Running
<1>4. LogTypes' /\ LogThread' /\ LogPieces' /\ LogOrder'
  BY <1>1, <1>2, <1>3 DEF LogIndInv, LogTypes, LogThread, LogPieces, LogOrder
<1>5. LogCounts'
  BY <1>1, <1>2 DEF LogIndInv, LogCounts
<1> QED
  BY <1>4, <1>5 DEF LogIndInv

LEMMA TakeLogHolds == LogIndInv /\ LogHostTake => LogIndInv'
<1> SUFFICES ASSUME LogIndInv, LogHostTake PROVE LogIndInv'
  OBVIOUS
<1> DEFINE h == Head(txfifo)
           q == Tail(txfifo)
           E == Nat \X Plain
<1>1. /\ txfifo # << >> /\ txfifo' = q /\ console' = Append(console, h)
      /\ UNCHANGED <<message, ready, isr, irqs, in_sec, said, lost, isaid>>
  BY DEF LogHostTake, HostTake, Arriving, logVars
<1>2. console \in Seq(E) /\ txfifo \in Seq(E) /\ << >> \in Seq(E)
  BY EmptySeq, Zenon DEF LogIndInv, LogTypes
<1>3. ShowsNext(E, console, txfifo, << >>)
  BY <1>1, <1>2, Shown, Zenon
<1>4. /\ console' \in Seq(E) /\ txfifo' \in Seq(E) /\ Len(txfifo') = Len(txfifo) - 1
      /\ console' \o txfifo' \o << >> = console \o txfifo \o << >>
  BY <1>1, <1>3, Zenon DEF ShowsNext
<1> HIDE DEF h, q, E
<1>5. Arrived' = Arrived
  <2>1. console' \o txfifo' \in Seq(E) /\ console \o txfifo \in Seq(E)
    BY <1>2, <1>4, ConcatProperties, Zenon
  <2>2. console' \o txfifo' \o << >> = console' \o txfifo'
        /\ console \o txfifo \o << >> = console \o txfifo
    BY <2>1, ConcatEmptySeq, Zenon
  <2>3. Arrived' = console' \o txfifo'
    BY DEF Arrived
  <2> QED
    BY <1>4, <2>2, <2>3, Zenon DEF Arrived
<1>6. \A n : From(n)' = From(n)
  BY <1>5 DEF From
<1>7. WSPACE > 0 => WSPACE' > 0
  <2>1. Len(txfifo) \in Nat
    BY <1>2, LenProperties
  <2> QED
    BY <1>4, <2>1, DepthAssumption DEF WSPACE
<1>8. \A n : Running(n)' = Running(n)
  BY <1>1 DEF Running
<1>9. LogTypes' /\ LogThread' /\ LogPieces' /\ LogOrder'
  BY <1>1, <1>4, <1>5, <1>6, <1>8 DEF LogIndInv, LogTypes, LogThread, LogPieces, LogOrder, E
<1>10. LogCounts'
  BY <1>1, <1>7 DEF LogIndInv, LogCounts
<1> QED
  BY <1>9, <1>10 DEF LogIndInv

(* The thread writes, or finds the FIFO full.                               *)
LEMMA TxWriteHolds == LogIndInv /\ TxWrite => LogIndInv'
<1> SUFFICES ASSUME LogIndInv, TxWrite PROVE LogIndInv'
  OBVIOUS
<1> USE DEF LogIndInv
<1> DEFINE h == Head(message)
           q == Tail(message)
<1>1. /\ isr = NoIsr /\ ready /\ WriteData(<<0, h>>) /\ message' = q /\ ready' = FALSE
      /\ lost' = IF WSPACE > 0 THEN lost ELSE lost + 1
      /\ UNCHANGED <<isr, irqs, in_sec, said, isaid, console>>
  BY DEF TxWrite
<1>2. message # << >> /\ message \in Seq(Plain) /\ irqs \in Nat /\ lost \in Nat
      /\ (WSPACE > 0 \/ lost < irqs) /\ lost <= irqs
  BY <1>1 DEF LogTypes, LogCounts
<1>3. h \in Plain /\ q \in Seq(Plain) /\ Len(q) = Len(message) - 1 /\ Len(message) \in Nat
  BY <1>2, HeadAndTail, LenProperties, Zenon
<1> HIDE DEF h, q
<1>4. \A n : Running(n)' = Running(n)
  BY <1>1 DEF Running
<1>5. LogCounts'
  BY <1>1, <1>2 DEF LogCounts
<1>6. CASE WSPACE > 0
  <2>1. txfifo' = Append(txfifo, <<0, h>>)
    BY <1>1, <1>6, Zenon DEF WriteData
  <2>2. /\ Arrived' = Append(Arrived, <<0, h>>) /\ txfifo' \in Seq(Nat \X Plain)
        /\ From(0)' = Append(From(0), h) /\ \A k : k # 0 => From(k)' = From(k)
    <3>1. 0 \in Nat
      OBVIOUS
    <3> QED
      BY <1>1, <1>3, <2>1, <3>1, TextMore, Zenon
  <2>3. From(0) \in Seq(Plain) /\ Arrived \in Seq(Nat \X Plain)
    BY TextTypes, Zenon
  <2>4. LogTypes'
    BY <1>1, <1>3, <1>6, <2>2 DEF LogTypes
  <2>5. LogThread'
    <3>1. ShowsNext(Plain, From(0), message, << >>)
      BY <1>2, <2>3, Shown, EmptySeq, Zenon
    <3>2. Append(From(0), h) \o q \o << >> = From(0) \o message \o << >>
          /\ Append(From(0), h) \in Seq(Plain)
      BY <3>1, Zenon DEF ShowsNext, h, q
    <3>3. From(0) \o message \in Seq(Plain) /\ Append(From(0), h) \o q \in Seq(Plain)
      BY <1>2, <1>3, <2>3, <3>2, ConcatProperties, Zenon
    <3>4. Append(From(0), h) \o q = From(0) \o message
      BY <3>2, <3>3, ConcatEmptySeq, Zenon
    <3>5. Len(Append(From(0), h)) = Len(From(0)) + 1 /\ Len(From(0)) \in Nat
      BY <1>3, <2>3, AppendProperties, LenProperties
    <3>6. lost' = 0 => lost = 0
      BY <1>1, <1>6, Zenon
    <3>7. lost' = 0 => From(0)' \o message' = said'
      BY <1>1, <2>2, <3>4, <3>6, Zenon DEF LogThread
    <3>8. Len(From(0)') + lost' + Len(message') = Len(said')
      <4>1. Len(From(0)) + lost + Len(message) = Len(said) /\ lost' = lost
        BY <1>1, <1>6, Zenon DEF LogThread
      <4>2. Len(From(0)') = Len(From(0)) + 1 /\ Len(message') = Len(message) - 1 /\ said' = said
        BY <1>1, <1>3, <2>2, <3>5, Zenon
      <4>3. (Len(From(0)) + 1) + lost + (Len(message) - 1) = Len(From(0)) + lost + Len(message)
        BY <1>2, <1>3, <3>5
      <4> QED
        BY <4>1, <4>2, <4>3, Zenon
    <3> QED
      BY <3>7, <3>8, Zenon DEF LogThread
  <2>6. LogPieces'
    <3>1. ASSUME NEW n \in Nat, n # 0 PROVE From(n)' = From(n)
      BY <2>2, <3>1, Zenon
    <3>2. \A n \in 1 .. irqs : n \in Nat /\ n # 0
      BY <1>2
    <3>3. \A n \in Nat : n > irqs => n # 0
      BY <1>2
    <3> QED
      BY <1>1, <1>4, <3>1, <3>2, <3>3, Zenon DEF LogPieces
  <2>7. LogOrder'
    <3>1. Continues(Arrived, 0, h, irqs)
      BY <1>2, <1>3, <2>3, Continued, Zenon
    <3>2. 0 <= irqs /\ \A n \in 1 .. irqs : n \in Nat /\ n # 0
      BY <1>2
    <3> QED
      BY <1>1, <2>2, <3>1, <3>2, Zenon DEF LogOrder, Continues
  <2> QED
    BY <1>5, <2>4, <2>5, <2>6, <2>7, Zenon
<1>7. CASE ~ (WSPACE > 0)
  <2>1. txfifo' = txfifo /\ lost' = lost + 1
    BY <1>1, <1>7, Zenon DEF WriteData
  <2>2. Arrived' = Arrived /\ \A n : From(n)' = From(n)
    BY <1>1, <2>1, SameText, Zenon
  <2>3. LogTypes'
    <3>1. lost' \in Nat
      BY <1>2, <2>1
    <3>2. ready' \in BOOLEAN
      BY <1>1
    <3> QED
      BY <1>1, <1>3, <2>1, <3>1, <3>2, Zenon DEF LogTypes
  <2>4. LogThread'
    <3>1. lost' # 0
      BY <1>2, <2>1
    <3>2. Len(From(0)') + lost' + Len(message') = Len(said')
      <4>1. Len(From(0)) + lost + Len(message) = Len(said)
        BY Zenon DEF LogThread
      <4>2. Len(From(0)) \in Nat
        BY TextTypes, LenProperties, Zenon
      <4>3. Len(From(0)) + (lost + 1) + (Len(message) - 1) = Len(From(0)) + lost + Len(message)
        BY <1>2, <1>3, <4>2
      <4>4. Len(message') = Len(message) - 1 /\ said' = said /\ Len(From(0)') = Len(From(0))
        BY <1>1, <1>3, <2>2, Zenon
      <4> QED
        BY <2>1, <4>1, <4>3, <4>4, Zenon
    <3> QED
      BY <3>1, <3>2, Zenon DEF LogThread
  <2>5. LogPieces' /\ LogOrder'
    BY <1>1, <1>4, <2>2 DEF LogPieces, LogOrder
  <2> QED
    BY <1>5, <2>3, <2>4, <2>5, Zenon
<1> QED
  BY <1>6, <1>7

(* The interrupt that runs writes.                                          *)
LEMMA IsrTxHolds == LogIndInv /\ IsrTx => LogIndInv'
<1> SUFFICES ASSUME LogIndInv, IsrTx PROVE LogIndInv'
  OBVIOUS
<1> USE DEF LogIndInv
<1> DEFINE h == Head(isr)
           q == Tail(isr)
<1>1. /\ isr # NoIsr /\ isr # << >> /\ WSPACE > 0 /\ WriteData(<<irqs, h>>) /\ isr' = q
      /\ UNCHANGED <<message, ready, irqs, in_sec, said, lost, isaid, console>>
  BY DEF IsrTx
<1>2. isr \in Seq(Logged) /\ irqs \in Nat /\ irqs # 0
  BY <1>1 DEF LogTypes
<1>3. h \in Logged /\ h \in Plain /\ q \in Seq(Logged) /\ Len(q) = Len(isr) - 1
  <2>1. h \in Logged /\ q \in Seq(Logged) /\ Len(q) = Len(isr) - 1
    BY <1>1, <1>2, HeadAndTail, Zenon
  <2> QED
    BY <2>1, LoggedIs, Zenon
<1>4. q # NoIsr
  BY <1>3, NotLogged, Zenon
<1> HIDE DEF h, q
<1>5. txfifo' = Append(txfifo, <<irqs, h>>)
  BY <1>1, Zenon DEF WriteData
<1>6. /\ Arrived' = Append(Arrived, <<irqs, h>>) /\ txfifo' \in Seq(Nat \X Plain)
      /\ From(irqs)' = Append(From(irqs), h) /\ \A k : k # irqs => From(k)' = From(k)
  BY <1>1, <1>2, <1>3, <1>5, TextMore, Zenon
<1>7. From(irqs) \in Seq(Plain) /\ Arrived \in Seq(Nat \X Plain)
  BY TextTypes, Zenon
<1>8. LogTypes'
  BY <1>1, <1>2, <1>3, <1>6 DEF LogTypes
<1>9. LogCounts'
  <2>1. ready => lost < irqs
    BY <1>1, Zenon DEF LogCounts
  <2> QED
    BY <1>1, <2>1, Zenon DEF LogCounts
<1>10. LogThread'
  <2>1. From(0)' = From(0)
    BY <1>2, <1>6, Zenon
  <2> QED
    BY <1>1, <2>1, Zenon DEF LogThread
<1>11. LogPieces'
  <2>1. From(irqs) \o isr = isaid[irqs]
    <3>1. irqs \in 1 .. irqs
      BY <1>2
    <3> QED
      BY <1>1, <3>1, Zenon DEF LogPieces, Running
  <2>2. From(irqs)' \o q = From(irqs) \o isr
    <3>1. isr \in Seq(Plain)
      <4>1. Logged \subseteq Plain
        BY LoggedIs, Zenon
      <4> QED
        BY <1>2, <4>1, SeqMonotonic, Zenon
    <3>2. ShowsNext(Plain, From(irqs), isr, << >>)
      BY <1>1, <1>7, <3>1, Shown, EmptySeq, Zenon
    <3>3. Append(From(irqs), h) \o q \o << >> = From(irqs) \o isr \o << >>
          /\ Append(From(irqs), h) \in Seq(Plain) /\ q \in Seq(Plain)
      BY <3>2, Zenon DEF ShowsNext, h, q
    <3>4. From(irqs) \o isr \in Seq(Plain) /\ Append(From(irqs), h) \o q \in Seq(Plain)
      BY <1>7, <3>1, <3>3, ConcatProperties, Zenon
    <3> QED
      BY <1>6, <3>3, <3>4, ConcatEmptySeq, Zenon
  <2>3. ASSUME NEW n \in 1 .. irqs PROVE From(n)' \o Running(n)' = isaid[n]
    <3>1. CASE n = irqs
      BY <1>1, <1>4, <2>1, <2>2, <3>1, Zenon DEF Running
    <3>2. CASE n # irqs
      BY <1>1, <1>6, <3>2, Zenon DEF Running, LogPieces
    <3> QED
      BY <3>1, <3>2
  <2>4. \A n \in Nat : n > irqs => n # irqs
    BY <1>2
  <2>5. \A n \in Nat : n > irqs => From(n)' = << >>
    BY <1>6, <2>4, Zenon DEF LogPieces
  <2> QED
    BY <1>1, <2>3, <2>5, Zenon DEF LogPieces
<1>12. LogOrder'
  <2>1. Continues(Arrived, irqs, h, irqs)
    BY <1>2, <1>3, <1>7, Continued, Zenon
  <2>2. irqs <= irqs /\ \A n \in 1 .. irqs : n \in Nat
    BY <1>2
  <2>3. AtTheEnd(Arrived', irqs) /\ UpTo(Arrived', irqs)
    BY <1>1, <1>6, <2>1, <2>2, Zenon DEF LogOrder, Continues
  <2>4. Arrived' \in Seq(Nat \X Plain)
    <3>1. <<irqs, h>> \in Nat \X Plain
      BY <1>2, <1>3
    <3> QED
      BY <1>6, <1>7, <3>1, AppendProperties
  <2>5. InOnePiece(Arrived', irqs)
    BY <2>3, <2>4, EndIsOnePiece, Zenon
  <2>6. \A n \in 1 .. irqs : InOnePiece(Arrived', n)
    BY <1>6, <2>1, <2>2, <2>5, Zenon DEF LogOrder, Continues
  <2> QED
    BY <1>1, <2>3, <2>6, Zenon DEF LogOrder
<1> QED
  BY <1>8, <1>9, <1>10, <1>11, <1>12, Zenon

(* The thread begins a call, which has something to print or not.           *)
LEMMA LogCallHolds == LogIndInv /\ LogCall /\ message' \in Seq(Plain) => LogIndInv'
<1> SUFFICES ASSUME LogIndInv, LogCall, message' \in Seq(Plain) PROVE LogIndInv'
  OBVIOUS
<1> USE DEF LogIndInv
<1>1. /\ isr = NoIsr /\ message = << >> /\ said' = said \o message'
      /\ UNCHANGED <<ready, isr, irqs, in_sec, lost, isaid, txfifo, console>>
  BY DEF LogCall, Idle
<1>2. Arrived' = Arrived /\ (\A n : From(n)' = From(n)) /\ WSPACE' = WSPACE
  BY <1>1, SameText, Zenon
<1>3. \A n : Running(n)' = Running(n)
  BY <1>1 DEF Running
<1>4. said \in Seq(Plain) /\ said' \in Seq(Plain) /\ Len(said') = Len(said) + Len(message')
  <2>1. said \in Seq(Plain)
    BY Zenon DEF LogTypes
  <2> QED
    BY <1>1, <2>1, ConcatProperties
<1>5. LogTypes' /\ LogPieces' /\ LogOrder'
  BY <1>1, <1>2, <1>3, <1>4 DEF LogTypes, LogPieces, LogOrder
<1>6. LogCounts'
  BY <1>1, <1>2 DEF LogCounts
<1>7. LogThread'
  <2>1. From(0) \in Seq(Plain) /\ Len(<< >>) = 0 /\ From(0) \o << >> = From(0)
    BY TextTypes, EmptySeq, ConcatEmptySeq, Zenon
  <2>2. lost = 0 => From(0) = said
    BY <1>1, <2>1, Zenon DEF LogThread
  <2>3. Len(From(0)) + lost + Len(message') = Len(said')
    <3>1. Len(From(0)) + lost + 0 = Len(said)
      BY <1>1, <2>1, Zenon DEF LogThread
    <3>2. Len(From(0)) \in Nat /\ lost \in Nat /\ Len(message') \in Nat
      BY <2>1, LenProperties, Zenon DEF LogTypes
    <3> QED
      BY <1>4, <3>1, <3>2
  <2> QED
    BY <1>1, <1>2, <2>2, <2>3, Zenon DEF LogThread
<1> QED
  BY <1>5, <1>6, <1>7, Zenon

(* An interrupt comes, between any two steps of the thread.                 *)
LEMMA LogIsrHolds ==
  ASSUME LogIndInv, NEW text \in Seq(Logged), LogIsr(text), in_sec' \in Nat
  PROVE  LogIndInv'
<1> USE DEF LogIndInv
<1>1. /\ isr = NoIsr /\ irqs' = irqs + 1 /\ isr' = text /\ isaid' = Append(isaid, text)
      /\ UNCHANGED <<message, ready, said, lost, txfifo, console>>
  BY DEF LogIsr
<1>2. Arrived' = Arrived /\ (\A n : From(n)' = From(n)) /\ WSPACE' = WSPACE
  BY <1>1, SameText, Zenon
<1>3. irqs \in Nat /\ lost \in Nat /\ isaid \in Seq(Seq(Logged)) /\ Len(isaid) = irqs /\ lost <= irqs
  BY DEF LogTypes, LogCounts
<1>4. text # NoIsr
  BY NotLogged, Zenon
<1>5. /\ isaid' \in Seq(Seq(Logged)) /\ Len(isaid') = irqs + 1 /\ isaid'[irqs + 1] = text
      /\ \A n \in 1 .. irqs : isaid'[n] = isaid[n]
  BY <1>1, <1>3, AppendProperties
<1>6. irqs' \in Nat /\ irqs' # 0 /\ lost < irqs' /\ lost <= irqs'
  BY <1>1, <1>3
<1>7. LogTypes'
  BY <1>1, <1>4, <1>5, <1>6, Zenon DEF LogTypes
<1>8. LogCounts'
  BY <1>1, <1>2, <1>6, Zenon DEF LogCounts
<1>9. LogThread'
  BY <1>1, <1>2, Zenon DEF LogThread
<1>10. LogPieces'
  <2>1. ASSUME NEW n \in 1 .. irqs' PROVE From(n)' \o Running(n)' = isaid'[n]
    <3>1. CASE n = irqs'
      <4>1. From(n) = << >>
        <5>1. n \in Nat /\ n > irqs
          BY <1>1, <1>3, <3>1
        <5> QED
          BY <5>1, Zenon DEF LogPieces
      <4>2. Running(n)' = text
        BY <1>1, <1>4, <3>1, Zenon DEF Running
      <4>3. << >> \o text = text
        BY ConcatEmptySeq, Zenon
      <4> QED
        BY <1>1, <1>2, <1>5, <3>1, <4>1, <4>2, <4>3, Zenon
    <3>2. CASE n # irqs'
      <4>1. n \in 1 .. irqs
        BY <1>1, <1>3, <3>2
      <4>2. Running(n) = << >> /\ Running(n)' = << >>
        BY <1>1, <3>2, Zenon DEF Running
      <4> QED
        BY <1>2, <1>5, <4>1, <4>2, Zenon DEF LogPieces
    <3> QED
      BY <3>1, <3>2
  <2>2. ASSUME NEW n \in Nat, n > irqs' PROVE From(n)' = << >>
    <3>1. n > irqs
      BY <1>1, <1>3, <2>2
    <3> QED
      BY <1>2, <3>1, Zenon DEF LogPieces
  <2> QED
    BY <2>1, <2>2, Zenon DEF LogPieces
<1>11. LogOrder'
  <2>1. UpTo(Arrived, irqs + 1) /\ AtTheEnd(Arrived, irqs + 1)
    BY <1>3, OneOriginMore, Zenon DEF LogOrder
  <2>2. InOnePiece(Arrived, irqs + 1)
    BY <2>1, TextTypes, EndIsOnePiece, Zenon
  <2>3. \A n \in 1 .. irqs + 1 : n \in 1 .. irqs \/ n = irqs + 1
    BY <1>3
  <2> QED
    BY <1>1, <1>2, <2>1, <2>2, <2>3, Zenon DEF LogOrder
<1> QED
  BY <1>7, <1>8, <1>9, <1>10, <1>11, Zenon

(* The callback of the alarm adds to what the interrupt has logged.         *)
LEMMA IsrReportHolds == LogIndInv /\ IsrReport /\ isr' \in Seq(Logged) => LogIndInv'
<1> SUFFICES ASSUME LogIndInv, IsrReport, isr' \in Seq(Logged) PROVE LogIndInv'
  OBVIOUS
<1> USE DEF LogIndInv
<1>1. /\ isr = << >> /\ isaid' = [isaid EXCEPT ![irqs] = isaid[irqs] \o isr']
      /\ UNCHANGED <<message, ready, irqs, in_sec, said, lost, txfifo, console>>
  BY DEF IsrReport
<1>2. Arrived' = Arrived /\ (\A n : From(n)' = From(n)) /\ WSPACE' = WSPACE
  BY <1>1, SameText, Zenon
<1>3. isr # NoIsr /\ isr' # NoIsr
  <2>1. << >> # NoIsr
    BY DEF NoIsr
  <2> QED
    BY <1>1, <2>1, NotLogged, Zenon
<1>4. irqs \in Nat \ {0} /\ isaid \in Seq(Seq(Logged)) /\ Len(isaid) = irqs
  BY <1>3 DEF LogTypes
<1>5. irqs \in 1 .. Len(isaid) /\ DOMAIN isaid = 1 .. irqs
  BY <1>4
<1>6. isaid[irqs] \in Seq(Logged) /\ isaid[irqs] \o isr' \in Seq(Logged)
  <2>1. isaid[irqs] \in Seq(Logged)
    BY <1>4, <1>5, ElementOfSeq, Zenon
  <2> QED
    BY <2>1, ConcatProperties, Zenon
<1>7. /\ isaid' \in Seq(Seq(Logged)) /\ Len(isaid') = irqs /\ isaid'[irqs] = isaid[irqs] \o isr'
      /\ \A n \in 1 .. irqs : n # irqs => isaid'[n] = isaid[n]
  <2>1. isaid' \in Seq(Seq(Logged)) /\ Len(isaid') = Len(isaid)
    BY <1>1, <1>4, <1>5, <1>6, ExceptSeq
  <2> QED
    BY <1>1, <1>4, <1>5, <2>1
<1>8. LogTypes'
  BY <1>1, <1>4, <1>7, Zenon DEF LogTypes
<1>9. LogCounts'
  BY <1>1, <1>2, <1>3, Zenon DEF LogCounts
<1>10. LogThread'
  BY <1>1, <1>2, Zenon DEF LogThread
<1>11. LogPieces'
  <2>1. ASSUME NEW n \in 1 .. irqs PROVE From(n)' \o Running(n)' = isaid'[n]
    <3>1. CASE n = irqs
      <4>1. From(irqs) \o << >> = isaid[irqs]
        BY <1>1, <1>3, <2>1, <3>1, Zenon DEF LogPieces, Running
      <4>2. From(irqs) \o << >> = From(irqs)
        BY TextTypes, ConcatEmptySeq, Zenon
      <4>3. Running(n)' = isr'
        BY <1>1, <1>3, <3>1, Zenon DEF Running
      <4> QED
        BY <1>2, <1>7, <3>1, <4>1, <4>2, <4>3, Zenon
    <3>2. CASE n # irqs
      <4>1. Running(n) = << >> /\ Running(n)' = << >>
        BY <1>1, <3>2, Zenon DEF Running
      <4> QED
        BY <1>2, <1>7, <2>1, <3>2, <4>1, Zenon DEF LogPieces
    <3> QED
      BY <3>1, <3>2
  <2> QED
    BY <1>1, <1>2, <2>1, Zenon DEF LogPieces
<1>12. LogOrder'
  BY <1>1, <1>2, <1>3, Zenon DEF LogOrder
<1> QED
  BY <1>8, <1>9, <1>10, <1>11, <1>12, Zenon

(* What of LogInv is about the FIFO follows.                                *)
LEMMA LogFollows == LogIndInv => LogKeeps
<1> SUFFICES ASSUME LogIndInv PROVE LogKeeps
  OBVIOUS
<1> USE DEF LogIndInv
<1>1. Arrived \in Seq(Nat \X Plain)
  BY TextTypes, Zenon
<1>2. ASSUME NEW i \in DOMAIN Arrived PROVE Arrived[i][2] # "^D"
  <2>1. Arrived[i] \in Nat \X Plain
    BY <1>1, LenProperties, ElementOfSeq
  <2>2. Arrived[i][2] \in Plain
    BY <2>1
  <2> QED
    BY <2>2, LoggedIs, Zenon
<1> QED
  BY <1>2, Zenon DEF LogKeeps, LogCounts, LogThread, LogPieces, LogOrder

(* What an integer is printed as.                                           *)
Negative(s, arg)  == s.signed /\ arg >= WORD \div 2
Magnitude(s, arg) == IF Negative(s, arg) THEN WORD - arg ELSE arg
Sign(s, arg)      == IF Negative(s, arg) THEN <<"-">> ELSE << >>
Figures(s, arg)   == Numbered(Magnitude(s, arg), s.base, s.upper)
Padding(s, arg)   == s.before - Len(Figures(s, arg)) - (IF Negative(s, arg) THEN 1 ELSE 0)

LEMMA IntegerPrintIs ==
  ASSUME NEW s, NEW arg
  PROVE  IntegerPrint(s, arg) =
           IF s.zero THEN Sign(s, arg) \o Repeat("0", Padding(s, arg)) \o Figures(s, arg)
           ELSE Repeat(" ", Padding(s, arg)) \o Sign(s, arg) \o Figures(s, arg)
BY DEF IntegerPrint, Negative, Magnitude, Sign, Figures, Padding, Numbered

LEMMA RepeatIs ==
  ASSUME NEW c, NEW n \in Int
  PROVE  /\ Repeat(c, n) \in Seq({c}) /\ Len(Repeat(c, n)) = (IF n > 0 THEN n ELSE 0)
         /\ n <= 0 => Repeat(c, n) = << >>
<1> DEFINE k == IF n > 0 THEN n ELSE 0
<1>1. k \in Nat
  OBVIOUS
<1> HIDE DEF k
<1>2. [i \in 1 .. k |-> c] \in Seq({c}) /\ Len([i \in 1 .. k |-> c]) = k
  BY <1>1
<1>3. Repeat(c, n) = [i \in 1 .. k |-> c]
  BY DEF Repeat, k
<1>4. n <= 0 => Repeat(c, n) = << >>
  <2> HAVE n <= 0
  <2>1. k = 0
    BY DEF k
  <2> QED
    BY <1>2, <1>3, <2>1, EmptySeq
<1> QED
  BY <1>2, <1>3, <1>4 DEF k

(* The states of the format machine that puts out characters of O.          *)
FmtStates(O) ==
  [st : {"chars", "first", "other"}, zero : BOOLEAN, before : Int, after : Int,
   base : {8, 10, 16}, signed : BOOLEAN, upper : BOOLEAN, out : Seq(O)]

LEMMA IntegerPrintTyped ==
  ASSUME NEW O, NEW s \in FmtStates(O), NEW arg \in Nat, s.signed => arg < WORD
  PROVE  /\ Magnitude(s, arg) \in Nat /\ Figures(s, arg) \in Seq(DigitChars)
         /\ Padding(s, arg) \in Int /\ IntegerPrint(s, arg) \in Seq(Logged)
<1>1. s.base \in {8, 10, 16} /\ s.upper \in BOOLEAN /\ s.before \in Int
  BY DEF FmtStates
<1>2. Magnitude(s, arg) \in Nat
  BY LogAssumption DEF Magnitude, Negative
<1>3. Figures(s, arg) \in Seq(DigitChars)
  BY <1>1, <1>2, NumberedIs, Zenon DEF Figures
<1>4. Padding(s, arg) \in Int
  BY <1>1, <1>3 DEF Padding
<1>5. DigitChars \subseteq Logged /\ "0" \in Logged /\ " " \in Logged /\ "-" \in Logged
  <2>1. DigitChar(0, FALSE) = "0" /\ 0 \in 0 .. 15 /\ FALSE \in BOOLEAN
    BY DEF DigitChar
  <2>2. "0" \in DigitChars
    BY <2>1, DigitCharIs, Zenon
  <2> QED
    BY <2>2, Zenon DEF Logged
<1>6. /\ Figures(s, arg) \in Seq(Logged) /\ Sign(s, arg) \in Seq(Logged)
      /\ Repeat("0", Padding(s, arg)) \in Seq(Logged) /\ Repeat(" ", Padding(s, arg)) \in Seq(Logged)
  <2>1. {"0"} \subseteq Logged /\ {" "} \subseteq Logged
    BY <1>5, Zenon
  <2>2. <<"-">> \in Seq(Logged) /\ << >> \in Seq(Logged)
    BY <1>5, OneElement, Zenon
  <2> QED
    BY <1>3, <1>4, <1>5, <2>1, <2>2, RepeatIs, SeqMonotonic, Zenon DEF Sign
<1>7. IntegerPrint(s, arg) \in Seq(Logged)
  BY <1>6, IntegerPrintIs, ConcatProperties, Zenon
<1> QED
  BY <1>2, <1>3, <1>4, <1>7

(* A format is printed character by character.                              *)
PrintfOf(fmt, arg) == FoldLeft(LAMBDA s, c : FmtChar(s, c, arg), Fresh, fmt)

Prints(F, O, arg) == \A s \in FmtStates(O), c \in F : FmtChar(s, c, arg) \in FmtStates(O)

FmtStep(F, O, arg) == [q \in FmtStates(O) \X F |-> FmtChar(q[1], q[2], arg)]

LEMMA FreshIsState == ASSUME NEW O PROVE Fresh \in FmtStates(O)
BY EmptySeq DEF Fresh, FmtStates

LEMMA PrintfStates ==
  ASSUME NEW F, NEW O, NEW arg, Prints(F, O, arg), NEW fmt \in Seq(F)
  PROVE  FoldsTo(fmt, FmtStep(F, O, arg), Fresh, FmtStates(O), PrintfOf(fmt, arg))
<1> DEFINE op(s, c) == FmtChar(s, c, arg)
           G == FmtStep(F, O, arg)
           V == FmtStates(O)
<1>1. ASSUME NEW v \in V, NEW x \in F PROVE op(v, x) \in V /\ G[<<v, x>>] = op(v, x)
  <2>1. op(v, x) \in V
    BY Zenon DEF Prints
  <2>2. <<v, x>> \in V \X F
    OBVIOUS
  <2>3. G = [q \in V \X F |-> FmtChar(q[1], q[2], arg)]
    BY Zenon DEF FmtStep
  <2> HIDE DEF V, G
  <2>4. G[<<v, x>>] = FmtChar(v, x, arg)
    BY <2>2, <2>3
  <2> QED
    BY <2>1, <2>3, Zenon
<1>2. G \in [V \X F -> V]
  <2>1. ASSUME NEW q \in V \X F PROVE op(q[1], q[2]) \in V
    BY <1>1
  <2>2. G = [q \in V \X F |-> op(q[1], q[2])]
    BY Zenon DEF FmtStep
  <2> HIDE DEF op, G, V
  <2> QED
    BY <2>1, <2>2
<1>a. Fresh \in V
  BY FreshIsState, Zenon
<1> HIDE DEF G, V
<1>3. PICK g \in [SUBSET (DOMAIN fmt) -> V] : FoldOver(g, fmt, G, Fresh)
  BY <1>2, <1>a, FoldExists, Zenon
<1>4. \A T \in SUBSET (DOMAIN fmt) : T # {} => fmt[Max(T)] \in F
  <2> TAKE T \in SUBSET (DOMAIN fmt)
  <2> HAVE T # {}
  <2>1. Len(fmt) \in Nat /\ DOMAIN fmt = 1 .. Len(fmt)
    BY LenProperties
  <2>2. Max(T) \in DOMAIN fmt
    BY <2>1, Greatest
  <2> QED
    BY <2>1, <2>2, ElementOfSeq, Zenon
<1> HIDE DEF op
<1>5. g = [T \in SUBSET (DOMAIN fmt) |->
             IF T = {} THEN Fresh ELSE op(g[T \ {Max(T)}], fmt[Max(T)])]
  <2>1. \A T \in SUBSET (DOMAIN fmt) : T \ {Max(T)} \in SUBSET (DOMAIN fmt)
    OBVIOUS
  <2>2. ASSUME NEW T \in SUBSET (DOMAIN fmt), T # {}
        PROVE  g[T] = op(g[T \ {Max(T)}], fmt[Max(T)])
    <3>1. g[T] = G[<<g[T \ {Max(T)}], fmt[Max(T)]>>]
      BY <1>3, <2>2, Zenon DEF FoldOver
    <3>2. g[T \ {Max(T)}] \in V /\ fmt[Max(T)] \in F
      BY <1>4, <2>1, <2>2
    <3> QED
      BY <1>1, <3>1, <3>2, Zenon
  <2>3. g[{}] = Fresh
    BY <1>3, Zenon DEF FoldOver
  <2> QED
    BY <2>2, <2>3
<1>6. \E h : /\ h = [T \in SUBSET (DOMAIN fmt) |->
                       IF T = {} THEN Fresh ELSE op(h[T \ {Max(T)}], fmt[Max(T)])]
             /\ PrintfOf(fmt, arg) = h[DOMAIN fmt]
  <2> DEFINE D(h) == h = [T \in SUBSET (DOMAIN fmt) |->
                       IF T = {} THEN Fresh ELSE op(h[T \ {Max(T)}], fmt[Max(T)])]
             h == CHOOSE f : D(f)
  <2>1. PrintfOf(fmt, arg) = h[DOMAIN fmt]
    BY DEF PrintfOf, FoldLeft, MapThenFoldSet, op
  <2>2. D(h)
    <3> HIDE DEF D
    <3>1. D(g)
      BY <1>5 DEF D
    <3> QED
      BY <3>1, Zenon
  <2> QED
    BY <2>1, <2>2, Zenon
<1>7. PICK h : /\ h = [T \in SUBSET (DOMAIN fmt) |->
                       IF T = {} THEN Fresh ELSE op(h[T \ {Max(T)}], fmt[Max(T)])]
               /\ PrintfOf(fmt, arg) = h[DOMAIN fmt]
  BY <1>6
<1>8. h[{}] = Fresh
  BY <1>7
<1>9. \A T \in SUBSET (DOMAIN fmt) :
        T # {} /\ h[T \ {Max(T)}] \in V => h[T] = G[<<h[T \ {Max(T)}], fmt[Max(T)]>>]
  <2>1. \A T \in SUBSET (DOMAIN fmt) : T # {} => h[T] = op(h[T \ {Max(T)}], fmt[Max(T)])
    BY <1>7
  <2> QED
    BY <2>1, <1>1, <1>4
<1>10. FoldIn(h, fmt, G, Fresh, V)
  BY <1>8, <1>9, Zenon DEF FoldIn
<1>11. FoldsTo(fmt, G, Fresh, V, h[DOMAIN fmt])
  BY <1>2, <1>a, <1>10, FoldStates, Zenon
<1> QED
  BY <1>7, <1>11, Zenon DEF G, V

PrintsMore(fmt, c, arg) == PrintfOf(Append(fmt, c), arg) = FmtChar(PrintfOf(fmt, arg), c, arg)

LEMMA PrintfMore ==
  ASSUME NEW F, NEW O, NEW arg, Prints(F, O, arg), NEW fmt \in Seq(F), NEW c \in F
  PROVE  PrintsMore(fmt, c, arg) /\ PrintfOf(fmt, arg) \in FmtStates(O)
<1> DEFINE t == Append(fmt, c)
           G == FmtStep(F, O, arg)
           V == FmtStates(O)
           x == PrintfOf(fmt, arg)
           y == PrintfOf(t, arg)
<1>1. t \in Seq(F)
  BY AppendProperties
<1>2. FoldsTo(fmt, G, Fresh, V, x) /\ FoldsTo(t, G, Fresh, V, y)
  BY <1>1, PrintfStates, Zenon
<1> HIDE DEF G, V, x, y
<1>3. x \in V
  BY <1>2, LenProperties DEF FoldsTo
<1>4. y = G[<<x, c>>]
  BY <1>2, OneMore DEF t
<1>5. G[<<x, c>>] = FmtChar(x, c, arg)
  <2>1. <<x, c>> \in V \X F
    BY <1>3
  <2>2. G = [q \in V \X F |-> FmtChar(q[1], q[2], arg)]
    BY Zenon DEF G, V, FmtStep
  <2> QED
    BY <2>1, <2>2
<1> QED
  BY <1>3, <1>4, <1>5, Zenon DEF PrintsMore, x, y, V

LEMMA PrintfNothing == ASSUME NEW arg PROVE PrintfOf(<< >>, arg) = Fresh
<1>1. << >> \in Seq({}) /\ Len(<< >>) = 0
  BY EmptySeq
<1>2. Prints({}, {}, arg)
  BY DEF Prints
<1>3. FoldsTo(<< >>, FmtStep({}, {}, arg), Fresh, FmtStates({}), PrintfOf(<< >>, arg))
  BY <1>1, <1>2, PrintfStates, Zenon
<1> QED
  BY <1>1, <1>3, Zenon DEF FoldsTo, StatesOf

(* The formats of numbers, and of the echo.                                 *)
Letters == {"d", "i", "u", "o", "x", "X"}
TenDigits == {"0", "1", "2", "3", "4", "5", "6", "7", "8", "9"}
NumberFormat(L) == Headers \cup {"%", "\n"} \cup TenDigits \cup L
EchoFormat == {"Write Echo: ", "%", "s"}

LEMMA DecimalIs ==
  /\ \A c : Decimal(c) <=> c \in TenDigits
  /\ \A d \in 0 .. 9 : DigitChar(d, FALSE) \in TenDigits /\ DigitOf(DigitChar(d, FALSE)) = d
  /\ \A c : Decimal(c) => DigitOf(c) \in 0 .. 9
  /\ TenDigits \subseteq DigitChars
<1>1. ASSUME NEW d \in 0 .. 9 PROVE DigitChar(d, FALSE) \in TenDigits
  BY DEF DigitChar, TenDigits
<1>2. \A c \in TenDigits : \E d \in 0 .. 9 : DigitChar(d, FALSE) = c
  <2>1. /\ DigitChar(0, FALSE) = "0" /\ DigitChar(1, FALSE) = "1" /\ DigitChar(2, FALSE) = "2"
        /\ DigitChar(3, FALSE) = "3" /\ DigitChar(4, FALSE) = "4" /\ DigitChar(5, FALSE) = "5"
        /\ DigitChar(6, FALSE) = "6" /\ DigitChar(7, FALSE) = "7" /\ DigitChar(8, FALSE) = "8"
        /\ DigitChar(9, FALSE) = "9"
    BY DEF DigitChar
  <2>2. /\ 0 \in 0 .. 9 /\ 1 \in 0 .. 9 /\ 2 \in 0 .. 9 /\ 3 \in 0 .. 9 /\ 4 \in 0 .. 9
        /\ 5 \in 0 .. 9 /\ 6 \in 0 .. 9 /\ 7 \in 0 .. 9 /\ 8 \in 0 .. 9 /\ 9 \in 0 .. 9
    OBVIOUS
  <2> QED
    BY <2>1, <2>2, Zenon DEF TenDigits
<1>3. \A c : Decimal(c) <=> c \in TenDigits
  BY <1>1, <1>2, Zenon DEF Decimal
<1>4. ASSUME NEW d \in 0 .. 9 PROVE DigitOf(DigitChar(d, FALSE)) = d
  <2> DEFINE k == DigitOf(DigitChar(d, FALSE))
  <2>1. k \in 0 .. 9 /\ DigitChar(k, FALSE) = DigitChar(d, FALSE)
    BY Zenon DEF DigitOf
  <2> HIDE DEF k
  <2>2. k \in 0 .. 15 /\ d \in 0 .. 15
    BY <2>1
  <2> QED
    BY <2>1, <2>2, DigitCharTells, Zenon DEF k
<1>5. ASSUME NEW c, Decimal(c) PROVE DigitOf(c) \in 0 .. 9
  BY <1>5, Zenon DEF DigitOf, Decimal
<1>6. TenDigits \subseteq DigitChars
  <2>1. \A d \in 0 .. 9 : d \in 0 .. 15
    OBVIOUS
  <2>2. \A d \in 0 .. 9 : DigitChar(d, FALSE) \in DigitChars
    BY <2>1, DigitCharIs, Zenon
  <2> QED
    BY <1>2, <2>2, Zenon
<1> QED
  BY <1>1, <1>3, <1>4, <1>5, <1>6

LEMMA LetterTyped ==
  ASSUME NEW L \in SUBSET Letters, NEW arg \in Nat, arg < WORD \/ L \subseteq {"u", "o", "x", "X"},
         NEW s \in FmtStates(Logged), NEW c \in NumberFormat(L)
  PROVE  Letter(s, c, arg) \in Seq(Logged)
<1> DEFINE f(b, sg, u) == [s EXCEPT !.base = b, !.signed = sg, !.upper = u]
<1>1. ASSUME NEW b \in {8, 10, 16}, NEW sg \in BOOLEAN, NEW u \in BOOLEAN, sg => arg < WORD
      PROVE  IntegerPrint(f(b, sg, u), arg) \in Seq(Logged)
  <2>1. f(b, sg, u) \in FmtStates(Logged) /\ f(b, sg, u).signed = sg
    BY DEF FmtStates
  <2> HIDE DEF f
  <2> QED
    BY <1>1, <2>1, IntegerPrintTyped, Zenon
<1>2. CASE c \in {"d", "i"}
  <2>1. Letter(s, c, arg) = IntegerPrint(f(10, TRUE, FALSE), arg)
    BY <1>2, Zenon DEF Letter
  <2>2. c \in L
    BY <1>2 DEF NumberFormat, TenDigits, Headers
  <2>3. arg < WORD
    <3>1. c \notin {"u", "o", "x", "X"}
      BY <1>2
    <3> QED
      BY <2>2, <3>1, Zenon
  <2> HIDE DEF f
  <2> QED
    BY <1>1, <2>1, <2>3
<1>3. CASE c = "u"
  <2>1. Letter(s, c, arg) = IntegerPrint(f(10, FALSE, FALSE), arg)
    BY <1>3 DEF Letter
  <2> HIDE DEF f
  <2> QED
    BY <1>1, <2>1
<1>4. CASE c = "o"
  <2>1. Letter(s, c, arg) = IntegerPrint(f(8, FALSE, FALSE), arg)
    BY <1>4 DEF Letter
  <2> HIDE DEF f
  <2> QED
    BY <1>1, <2>1
<1>5. CASE c = "x"
  <2>1. Letter(s, c, arg) = IntegerPrint(f(16, FALSE, FALSE), arg)
    BY <1>5 DEF Letter
  <2> HIDE DEF f
  <2> QED
    BY <1>1, <2>1
<1>6. CASE c = "X"
  <2>1. Letter(s, c, arg) = IntegerPrint(f(16, FALSE, TRUE), arg)
    BY <1>6 DEF Letter
  <2> HIDE DEF f
  <2> QED
    BY <1>1, <2>1
<1>7. CASE c \notin Letters
  <2>1. c # "c" /\ c # "s"
    <3>1. "c" \notin NumberFormat(L) /\ "s" \notin NumberFormat(L)
      BY DEF NumberFormat, TenDigits, Headers, Letters
    <3> QED
      BY <3>1, Zenon
  <2>2. Letter(s, c, arg) = << >>
    BY <1>7, <2>1 DEF Letter, Letters
  <2> QED
    BY <2>2, EmptySeq
<1> QED
  BY <1>2, <1>3, <1>4, <1>5, <1>6, <1>7 DEF Letters

(* A step of the machine is one of the machine's states, whatever letters   *)
(* print.                                                                   *)
LEMMA FmtCharTyped ==
  ASSUME NEW O, NEW s \in FmtStates(O), NEW c \in O, NEW arg,
         \A t \in FmtStates(O) : Letter(t, c, arg) \in Seq(O)
  PROVE  FmtChar(s, c, arg) \in FmtStates(O)
<1>1. s.out \in Seq(O) /\ Append(s.out, c) \in Seq(O)
  <2>1. s.out \in Seq(O)
    BY DEF FmtStates
  <2> QED
    BY <2>1, AppendProperties
<1>2. ASSUME NEW t \in FmtStates(O) PROVE OtherFmtChar(t, c, arg) \in FmtStates(O)
  <2>1. t.before \in Int /\ t.after \in Int
    BY DEF FmtStates
  <2>6. \A a \in Int : [t EXCEPT !.before = a] \in FmtStates(O) /\ [t EXCEPT !.after = a] \in FmtStates(O)
    BY DEF FmtStates
  <2>2. CASE c = "."
    <3>1. OtherFmtChar(t, c, arg) = [t EXCEPT !.after = 0]
      BY <2>2, Zenon DEF OtherFmtChar
    <3>2. 0 \in Int
      OBVIOUS
    <3> QED
      BY <2>6, <3>1, <3>2, Zenon
  <2>3. CASE c # "." /\ Decimal(c)
    <3>1. DigitOf(c) \in 0 .. 9
      BY <2>3, DecimalIs, Zenon
    <3>2. OtherFmtChar(t, c, arg) = IF t.after < 0
             THEN [t EXCEPT !.before = (IF t.before < 0 THEN 0 ELSE 10 * t.before) + DigitOf(c)]
             ELSE [t EXCEPT !.after = 10 * t.after + DigitOf(c)]
      BY <2>3, Zenon DEF OtherFmtChar
    <3>3. (IF t.before < 0 THEN 0 ELSE 10 * t.before) + DigitOf(c) \in Int
          /\ 10 * t.after + DigitOf(c) \in Int
      <4>1. \A a \in Int, d \in 0 .. 9 : 10 * a + d \in Int /\ (IF a < 0 THEN 0 ELSE 10 * a) + d \in Int
        OBVIOUS
      <4> QED
        BY <2>1, <3>1, <4>1, Zenon
    <3> QED
      BY <2>6, <3>2, <3>3, Zenon
  <2>4. CASE c # "." /\ ~ Decimal(c) /\ c = "l"
    BY <2>4, Zenon DEF OtherFmtChar
  <2>5. CASE c # "." /\ ~ Decimal(c) /\ c # "l"
    <3>1. OtherFmtChar(t, c, arg) = [t EXCEPT !.st = "chars", !.out = t.out \o Letter(t, c, arg)]
      BY <2>5, Zenon DEF OtherFmtChar
    <3>2. t.out \o Letter(t, c, arg) \in Seq(O)
      <4>1. t.out \in Seq(O)
        BY DEF FmtStates
      <4> QED
        BY <4>1, ConcatProperties, Zenon
    <3> QED
      BY <3>1, <3>2 DEF FmtStates
  <2> QED
    BY <2>2, <2>3, <2>4, <2>5, Zenon
<1>3. CASE s.st = "chars"
  <2>1. FmtChar(s, c, arg) = IF c = "%" THEN [Fresh EXCEPT !.st = "first", !.out = s.out]
                             ELSE [s EXCEPT !.out = Append(s.out, c)]
    BY <1>3 DEF FmtChar
  <2>2. Fresh \in FmtStates(O)
    BY FreshIsState, Zenon
  <2>3. [Fresh EXCEPT !.st = "first", !.out = s.out] \in FmtStates(O)
    <3> HIDE DEF Fresh
    <3> QED
      BY <1>1, <2>2 DEF FmtStates
  <2>4. [s EXCEPT !.out = Append(s.out, c)] \in FmtStates(O)
    BY <1>1 DEF FmtStates
  <2> QED
    BY <2>1, <2>3, <2>4, Zenon
<1>4. CASE s.st = "first"
  <2>1. FmtChar(s, c, arg) =
          IF c = "0" THEN [s EXCEPT !.zero = TRUE, !.st = "other"]
          ELSE IF c = "%" THEN [s EXCEPT !.out = Append(s.out, c), !.st = "chars"]
          ELSE OtherFmtChar([s EXCEPT !.st = "other"], c, arg)
    BY <1>4 DEF FmtChar
  <2>2. [s EXCEPT !.zero = TRUE, !.st = "other"] \in FmtStates(O)
        /\ [s EXCEPT !.out = Append(s.out, c), !.st = "chars"] \in FmtStates(O)
        /\ [s EXCEPT !.st = "other"] \in FmtStates(O)
    BY <1>1 DEF FmtStates
  <2> QED
    BY <1>2, <2>1, <2>2, Zenon
<1>5. CASE s.st = "other"
  <2>1. FmtChar(s, c, arg) = OtherFmtChar(s, c, arg)
    BY <1>5 DEF FmtChar
  <2> QED
    BY <1>2, <2>1, Zenon
<1>6. s.st \in {"chars", "first", "other"}
  BY DEF FmtStates
<1> QED
  BY <1>3, <1>4, <1>5, <1>6, Zenon

LEMMA NumbersPrint ==
  ASSUME NEW L \in SUBSET Letters, NEW arg \in Nat, arg < WORD \/ L \subseteq {"u", "o", "x", "X"}
  PROVE  Prints(NumberFormat(L), Logged, arg)
<1>1. ASSUME NEW c \in NumberFormat(L) PROVE c \in Logged
  <2>1. TenDigits \subseteq Logged /\ Headers \subseteq Logged
    BY DecimalIs, LoggedIs DEF Logged
  <2>2. DigitChar(13, FALSE) = "d" /\ 13 \in 0 .. 15 /\ FALSE \in BOOLEAN
    BY DEF DigitChar
  <2>3. "d" \in DigitChars
    BY <2>2, DigitCharIs, Zenon
  <2>4. Letters \subseteq Logged /\ "%" \in Logged /\ "\n" \in Logged
    BY <2>3, Zenon DEF Letters, Logged
  <2> QED
    BY <2>1, <2>4, Zenon DEF NumberFormat
<1> QED
  BY <1>1, LetterTyped, FmtCharTyped, Zenon DEF Prints

(* What the log prints has the characters it may have.                      *)
LEMMA PrintedIs ==
  ASSUME NEW F, NEW O, NEW arg, Prints(F, O, arg), NEW fmt \in Seq(F)
  PROVE  alt_log_private_printf(fmt, arg) \in Seq(O)
<1>1. FoldsTo(fmt, FmtStep(F, O, arg), Fresh, FmtStates(O), PrintfOf(fmt, arg))
  BY PrintfStates, Zenon
<1>2. PrintfOf(fmt, arg) \in FmtStates(O)
  <2> DEFINE x == PrintfOf(fmt, arg)
             V == FmtStates(O)
             G == FmtStep(F, O, arg)
  <2>1. FoldsTo(fmt, G, Fresh, V, x)
    BY <1>1
  <2> HIDE DEF x, V, G
  <2>2. x \in V
    BY <2>1, LenProperties DEF FoldsTo
  <2> QED
    BY <2>2 DEF x, V
<1>3. alt_log_private_printf(fmt, arg) = PrintfOf(fmt, arg).out
  BY Zenon DEF alt_log_private_printf, PrintfOf
<1> QED
  BY <1>2, <1>3 DEF FmtStates

LEMMA FourElements ==
  ASSUME NEW E, NEW a \in E, NEW b \in E, NEW c \in E, NEW d \in E
  PROVE  <<a, b, c, d>> \in Seq(E)
OBVIOUS

LEMMA NumberLinePrints ==
  ASSUME NEW h \in Headers, NEW letter \in {"d", "u"}, NEW arg \in Nat, letter = "d" => arg < WORD
  PROVE  alt_log_private_printf(<<h, "%", letter, "\n">>, arg) \in Seq(Logged)
<1> DEFINE F == NumberFormat({letter})
<1>1. {letter} \in SUBSET Letters /\ (arg < WORD \/ {letter} \subseteq {"u", "o", "x", "X"})
  BY DEF Letters
<1>2. Prints(F, Logged, arg)
  BY <1>1, NumbersPrint, Zenon
<1>3. h \in F /\ "%" \in F /\ letter \in F /\ "\n" \in F
  BY Zenon DEF NumberFormat
<1> HIDE DEF F
<1>4. <<h, "%", letter, "\n">> \in Seq(F)
  BY <1>3, FourElements, Zenon
<1> QED
  BY <1>2, <1>4, PrintedIs, Zenon

LEMMA ControlRegPrints ==
  ASSUME NEW h \in Headers, txfifo \in Seq(Nat \X Plain)
  PROVE  print_control_reg(h) \in Seq(Logged)
<1>1. WSPACE % WORD \in Nat /\ WSPACE % WORD < WORD
  <2>1. WSPACE \in Int
    <3>1. Len(txfifo) \in Nat
      BY LenProperties, Zenon
    <3> QED
      BY <3>1, DepthAssumption DEF WSPACE
  <2>2. WORD \in Nat /\ WORD > 2
    BY LogAssumption
  <2> QED
    BY <2>1, <2>2
<1> QED
  BY <1>1, NumberLinePrints, Zenon DEF print_control_reg

Formatted(m) ==
  m \in [zero : BOOLEAN, width : 0 .. 9, letter : Letters, arg : 0 .. WORD - 1]

LEMMA FormatIs ==
  ASSUME NEW m, Formatted(m)
  PROVE  Fmt(m) \in Seq(NumberFormat(Letters))
<1> DEFINE F == NumberFormat(Letters)
<1>1. "%" \in F /\ "0" \in F /\ m.letter \in F /\ DigitChar(m.width, FALSE) \in F
  <2>1. m.letter \in Letters /\ m.width \in 0 .. 9
    BY DEF Formatted
  <2>2. "0" \in TenDigits
    BY DEF TenDigits
  <2> QED
    BY <2>1, <2>2, DecimalIs, Zenon DEF NumberFormat
<1> HIDE DEF F
<1>2. /\ <<"%">> \in Seq(F) /\ <<"0">> \in Seq(F) /\ << >> \in Seq(F) /\ <<m.letter>> \in Seq(F)
      /\ <<DigitChar(m.width, FALSE)>> \in Seq(F)
  BY <1>1, OneElement, Zenon
<1> QED
  BY <1>2, ConcatProperties, Zenon DEF Fmt, F

LEMMA FormatPrints ==
  ASSUME NEW m, Formatted(m)
  PROVE  alt_log_private_printf(Fmt(m), m.arg) \in Seq(Logged)
<1>1. m.arg \in Nat /\ m.arg < WORD /\ Letters \in SUBSET Letters
  BY LogAssumption DEF Formatted
<1>2. Prints(NumberFormat(Letters), Logged, m.arg)
  BY <1>1, NumbersPrint, Zenon
<1> QED
  BY <1>2, FormatIs, PrintedIs, Zenon

LEMMA EchoPrints ==
  ASSUME NEW text \in Writes
  PROVE  Echo(text) \in Seq(Plain)
<1> DEFINE length == IF ECHO_LEN > Len(text) THEN Len(text) ELSE ECHO_LEN
           f(i) == IF i = length THEN "\n" ELSE IF i = length + 1 THEN "\r"
                   ELSE IF text[i] = "^D" THEN "D" ELSE text[i]
           buf == [i \in 1 .. length + 1 |-> f(i)]
           fmt == <<"Write Echo: ", "%", "s">>
<1>1. Len(text) \in Nat /\ DOMAIN text = 1 .. Len(text)
  <2>1. text \in Seq(STRING)
    BY LogAssumption
  <2> QED
    BY <2>1, LenProperties, Zenon
<1>2. length \in Nat /\ length <= Len(text)
  BY <1>1, LogAssumption
<1> HIDE DEF length
<1>3. ASSUME NEW i \in 1 .. length + 1 PROVE f(i) \in Plain
  <2>1. "\n" \in Plain /\ "\r" \in Plain /\ "D" \in Plain
    BY Zenon DEF Plain, Logged
  <2>2. CASE i # length /\ i # length + 1 /\ text[i] # "^D"
    <3>1. i \in DOMAIN text
      BY <1>1, <1>2, <2>2
    <3>2. text[i] \in TextChars
      <4>1. text[i] \in {text[k] : k \in DOMAIN text}
        BY <3>1, Zenon
      <4>2. Range(text) = {text[k] : k \in DOMAIN text}
        BY DEF Range
      <4> QED
        BY <4>1, <4>2, Zenon DEF TextChars
    <3>3. f(i) = text[i]
      BY <2>2, Zenon
    <3> QED
      BY <2>2, <3>2, <3>3, Zenon DEF Plain
  <2> QED
    BY <2>1, <2>2, Zenon
<1>4. buf \in Seq(Plain)
  <2>1. buf \in [1 .. length + 1 -> Plain]
    BY <1>3, Zenon
  <2>2. length + 1 \in Nat
    BY <1>2
  <2> HIDE DEF buf
  <2> QED
    BY <2>1, <2>2
<1>5. Echo(text) = IF length < 2 THEN << >> ELSE alt_log_private_printf(fmt, buf)
  BY Zenon DEF Echo, length
<1> HIDE DEF buf
<1>6. Prints(EchoFormat, Plain, buf)
  <2>1. ASSUME NEW c \in EchoFormat PROVE c \in Plain
    BY Zenon DEF EchoFormat, Plain, Logged
  <2>2. ASSUME NEW s \in FmtStates(Plain), NEW c \in EchoFormat
        PROVE  Letter(s, c, buf) \in Seq(Plain)
    <3>1. CASE c = "s"
      <4>1. Letter(s, c, buf) = Repeat(" ", s.before - Len(buf)) \o buf
        BY <3>1 DEF Letter
      <4>2. s.before - Len(buf) \in Int
        BY <1>4 DEF FmtStates
      <4>3. {" "} \subseteq Plain
        BY Zenon DEF Plain, Logged
      <4>4. Repeat(" ", s.before - Len(buf)) \in Seq(Plain)
        BY <4>2, <4>3, RepeatIs, SeqMonotonic, Zenon
      <4> QED
        BY <1>4, <4>1, <4>4, ConcatProperties, Zenon
    <3>2. CASE c # "s"
      <4>1. Letter(s, c, buf) = << >>
        BY <3>2 DEF Letter, EchoFormat
      <4> QED
        BY <4>1, EmptySeq
    <3> QED
      BY <3>1, <3>2
  <2> QED
    BY <2>1, <2>2, FmtCharTyped, Zenon DEF Prints
<1>7. fmt \in Seq(EchoFormat)
  BY DEF EchoFormat
<1>8. alt_log_private_printf(fmt, buf) \in Seq(Plain)
  BY <1>6, <1>7, PrintedIs, Zenon
<1> QED
  BY <1>5, <1>8, EmptySeq, Zenon

(* The log as a whole.                                                      *)
LEMMA LogStarts == JtagInit /\ LogInit => LogIndInv
<1> SUFFICES ASSUME JtagInit, LogInit PROVE LogIndInv
  OBVIOUS
<1>1. txfifo \in Seq(Nat \X Plain) /\ "JTAG Startup Info:" \in Headers
  BY EmptySeq DEF JtagInit, Headers
<1>2. print_control_reg("JTAG Startup Info:") \in Seq(Logged)
  BY <1>1, ControlRegPrints, Zenon
<1>3. print_control_reg("JTAG Startup Info:") \in Seq(Plain)
  BY <1>2, LoggedIs, SeqMonotonic, Zenon
<1>4. Startup \in Seq(Plain)
  BY <1>3, EmptySeq, Zenon DEF Startup
<1> QED
  BY <1>4, LogInitHolds, Zenon

LEMMA LogStepHolds ==
  LogIndInv /\ [LogStep \/ LogIrq \/ LogHostTake]_<<jtagVars, logVars>> => LogIndInv'
<1> SUFFICES ASSUME LogIndInv, [LogStep \/ LogIrq \/ LogHostTake]_<<jtagVars, logVars>>
             PROVE  LogIndInv'
  OBVIOUS
<1>a. txfifo \in Seq(Nat \X Plain) /\ in_sec \in Nat
  BY Zenon DEF LogIndInv, LogTypes
<1>b. \A h \in Headers : print_control_reg(h) \in Seq(Logged)
  BY <1>a, ControlRegPrints, Zenon
<1>1. CASE LogCall
  <2>1. ASSUME NEW m \in Formats, Boot(m) PROVE message' \in Seq(Plain)
    <3>1. Formatted(m)
      BY LogAssumption DEF Formatted, Letters
    <3>2. alt_log_private_printf(Fmt(m), m.arg) \in Seq(Plain)
      BY <3>1, FormatPrints, LoggedIs, SeqMonotonic, Zenon
    <3> QED
      BY <2>1, <3>2, EmptySeq, Zenon DEF Boot
  <2>2. ASSUME NEW text \in Writes, Write(text) PROVE message' \in Seq(Plain)
    BY <2>2, EchoPrints, EmptySeq, Zenon DEF Write
  <2>3. message' \in Seq(Plain)
    BY <1>1, <2>1, <2>2, Zenon DEF LogCall
  <2> QED
    BY <1>1, <2>3, LogCallHolds, Zenon
<1>2. CASE IsrReport
  <2>1. isr' \in Seq(Logged)
    <3>1. "JTAG Alarm:" \in Headers
      BY DEF Headers
    <3> QED
      BY <1>2, <1>b, <3>1, Zenon DEF IsrReport
  <2> QED
    BY <1>2, <2>1, IsrReportHolds, Zenon
<1>3. CASE IsrTick
  <2> DEFINE text == IF Heartbeat
                     THEN alt_log_private_printf(<<"System Clock On ", "%", "u", "\n">>, in_sec)
                     ELSE << >>
  <2>1. LogIsr(text)
    BY <1>3, Zenon DEF IsrTick
  <2>2. text \in Seq(Logged)
    <3>1. "System Clock On " \in Headers /\ "u" \in {"d", "u"} /\ "u" # "d"
      BY DEF Headers
    <3>2. alt_log_private_printf(<<"System Clock On ", "%", "u", "\n">>, in_sec) \in Seq(Logged)
      BY <1>a, <3>1, NumberLinePrints, Zenon
    <3> QED
      BY <3>2, EmptySeq, Zenon
  <2>3. in_sec' \in Nat
    <3>1. in_sec' = in_sec + 1 \/ in_sec' = in_sec
      BY <1>3, Zenon DEF IsrTick
    <3>2. in_sec + 1 \in Nat
      BY <1>a
    <3> QED
      BY <1>a, <3>1, <3>2, Zenon
  <2> HIDE DEF text
  <2> QED
    BY <2>1, <2>2, <2>3, LogIsrHolds, Zenon
<1>4. CASE IsrUart
  <2> DEFINE text == IF alt_log_jtag_uart_isr_on_flag THEN print_control_reg("JTAG IRQ:") ELSE << >>
  <2>1. LogIsr(text) /\ in_sec' = in_sec
    BY <1>4, Zenon DEF IsrUart
  <2>2. text \in Seq(Logged)
    <3>1. "JTAG IRQ:" \in Headers
      BY DEF Headers
    <3> QED
      BY <1>b, <3>1, EmptySeq, Zenon
  <2>3. in_sec' \in Nat
    BY <2>1, <1>a, Zenon
  <2> HIDE DEF text
  <2> QED
    BY <2>1, <2>2, <2>3, LogIsrHolds, Zenon
<1>5. CASE UNCHANGED <<jtagVars, logVars>>
  <2>1. UNCHANGED <<message, ready, isr, irqs, in_sec, said, lost, isaid, txfifo, console>>
    BY <1>5 DEF jtagVars, logVars
  <2>2. Arrived' = Arrived /\ (\A n : From(n)' = From(n)) /\ WSPACE' = WSPACE
    BY <2>1, SameText, Zenon
  <2>3. \A n : Running(n)' = Running(n)
    BY <2>1 DEF Running
  <2> QED
    BY <2>1, <2>2, <2>3 DEF LogIndInv, LogTypes, LogCounts, LogThread, LogPieces, LogOrder
<1> QED
  BY <1>1, <1>2, <1>3, <1>4, <1>5, TxPollHolds, TxWriteHolds, IsrTxHolds, IsrReturnHolds,
     TakeLogHolds, Zenon DEF LogStep, LogIrq


(* What a format prints, exactly: the integer, as the format specifies it.  *)
Machine(st, zero, before, base, signed, upper) ==
  [st |-> st, zero |-> zero, before |-> before, after |-> -1,
   base |-> base, signed |-> signed, upper |-> upper, out |-> << >>]

BeforePoint(st, zero, before) == Machine(st, zero, before, 10, TRUE, FALSE)

Specified(m) ==
  Machine("other", m.zero, IF m.width = 0 THEN -1 ELSE m.width,
          Base(m.letter), IF m.letter \in {"d", "i"} THEN TRUE ELSE FALSE,
          IF m.letter = "X" THEN TRUE ELSE FALSE)

SetState(s, v)                   == [s EXCEPT !.st = v]
SetBefore(s, v)                  == [s EXCEPT !.before = v]
SetNumber(s, base, signed, upper) ==
  [s EXCEPT !.base = base, !.signed = signed, !.upper = upper]

LEMMA SameFields ==
  ASSUME NEW l, NEW r, NEW D, l = [x \in D |-> l[x]], r = [x \in D |-> r[x]],
         \A x \in D : l[x] = r[x]
  PROVE  l = r
OBVIOUS

SetsState(st, z, b, a, g, u, v) ==
  SetState(Machine(st, z, b, a, g, u), v) = Machine(v, z, b, a, g, u)
SetsBefore(st, z, b, a, g, u, v) ==
  SetBefore(Machine(st, z, b, a, g, u), v) = Machine(st, z, v, a, g, u)
SetsNumber(st, z, b, a, g, u, v, v2, v3) ==
  SetNumber(Machine(st, z, b, a, g, u), v, v2, v3) = Machine(st, z, b, v, v2, v3)

LEMMA StateSet ==
  ASSUME NEW st, NEW z, NEW b, NEW a, NEW g, NEW u, NEW v
  PROVE  SetsState(st, z, b, a, g, u, v)
<1> DEFINE F == {"st", "zero", "before", "after", "base", "signed", "upper", "out"}
           l == SetState(Machine(st, z, b, a, g, u), v)
           k == Machine(v, z, b, a, g, u)
<1>1. l = [x \in F |-> l[x]] /\ k = [x \in F |-> k[x]]
  BY DEF Machine, SetState
<1>2. /\ l.st = k.st /\ l.zero = k.zero /\ l.before = k.before /\ l.after = k.after
      /\ l.base = k.base /\ l.signed = k.signed /\ l.upper = k.upper /\ l.out = k.out
  BY DEF Machine, SetState
<1> HIDE DEF l, k
<1>3. \A x \in F : l[x] = k[x]
  BY <1>2
<1> HIDE DEF F
<1>4. l = k
  BY <1>1, <1>3, SameFields, Zenon
<1> QED
  BY <1>4 DEF l, k, SetsState

LEMMA BeforeSet ==
  ASSUME NEW st, NEW z, NEW b, NEW a, NEW g, NEW u, NEW v
  PROVE  SetsBefore(st, z, b, a, g, u, v)
<1> DEFINE F == {"st", "zero", "before", "after", "base", "signed", "upper", "out"}
           l == SetBefore(Machine(st, z, b, a, g, u), v)
           k == Machine(st, z, v, a, g, u)
<1>1. l = [x \in F |-> l[x]] /\ k = [x \in F |-> k[x]]
  BY DEF Machine, SetBefore
<1>2. /\ l.st = k.st /\ l.zero = k.zero /\ l.before = k.before /\ l.after = k.after
      /\ l.base = k.base /\ l.signed = k.signed /\ l.upper = k.upper /\ l.out = k.out
  BY DEF Machine, SetBefore
<1> HIDE DEF l, k
<1>3. \A x \in F : l[x] = k[x]
  BY <1>2
<1> HIDE DEF F
<1>4. l = k
  BY <1>1, <1>3, SameFields, Zenon
<1> QED
  BY <1>4 DEF l, k, SetsBefore

LEMMA NumberSet ==
  ASSUME NEW st, NEW z, NEW b, NEW a, NEW g, NEW u, NEW v, NEW v2, NEW v3
  PROVE  SetsNumber(st, z, b, a, g, u, v, v2, v3)
<1> DEFINE F == {"st", "zero", "before", "after", "base", "signed", "upper", "out"}
           l == SetNumber(Machine(st, z, b, a, g, u), v, v2, v3)
           k == Machine(st, z, b, v, v2, v3)
<1>1. l = [x \in F |-> l[x]] /\ k = [x \in F |-> k[x]]
  BY DEF Machine, SetNumber
<1>2. /\ l.st = k.st /\ l.zero = k.zero /\ l.before = k.before /\ l.after = k.after
      /\ l.base = k.base /\ l.signed = k.signed /\ l.upper = k.upper /\ l.out = k.out
  BY DEF Machine, SetNumber
<1> HIDE DEF l, k
<1>3. \A x \in F : l[x] = k[x]
  BY <1>2
<1> HIDE DEF F
<1>4. l = k
  BY <1>1, <1>3, SameFields, Zenon
<1> QED
  BY <1>4 DEF l, k, SetsNumber

LEMMA PercentBegins == ASSUME NEW arg PROVE FmtChar(Fresh, "%", arg) = BeforePoint("first", FALSE, -1)
BY DEF FmtChar, Fresh, BeforePoint, Machine

LEMMA ZeroSets ==
  ASSUME NEW arg PROVE FmtChar(BeforePoint("first", FALSE, -1), "0", arg) = BeforePoint("other", TRUE, -1)
BY DEF FmtChar, BeforePoint, Machine

LEMMA WidthSets ==
  ASSUME NEW st \in {"first", "other"}, NEW z \in BOOLEAN, NEW w \in 1 .. 9, NEW arg
  PROVE  FmtChar(BeforePoint(st, z, -1), DigitChar(w, FALSE), arg) = BeforePoint("other", z, w)
<1> DEFINE c == DigitChar(w, FALSE)
           s == BeforePoint("other", z, -1)
<1>1. c # "0" /\ c # "%" /\ c # "." /\ Decimal(c) /\ DigitOf(c) = w
  <2>1. w \in 0 .. 15 /\ w # 0 /\ w \in 0 .. 9 /\ FALSE \in BOOLEAN
    OBVIOUS
  <2>2. c # "0" /\ c \in TenDigits /\ DigitOf(c) = w
    BY <2>1, DigitCharIs, DecimalIs, Zenon
  <2>3. "%" \notin TenDigits /\ "." \notin TenDigits
    BY DEF TenDigits
  <2> QED
    BY <2>2, <2>3, DecimalIs, Zenon
<1> HIDE DEF c
<1>2. FmtChar(BeforePoint(st, z, -1), c, arg) = OtherFmtChar(s, c, arg)
  <2>1. CASE st = "first"
    <3>1. FmtChar(BeforePoint(st, z, -1), c, arg) =
            OtherFmtChar([BeforePoint(st, z, -1) EXCEPT !.st = "other"], c, arg)
      BY <1>1, <2>1 DEF FmtChar, BeforePoint, Machine
    <3>2. [BeforePoint(st, z, -1) EXCEPT !.st = "other"] = s
      <4>1. SetsState(st, z, -1, 10, TRUE, FALSE, "other")
        BY StateSet, Zenon
      <4> QED
        BY <4>1, Zenon DEF SetsState, SetState, BeforePoint
    <3> QED
      BY <3>1, <3>2, Zenon
  <2>2. CASE st = "other"
    BY <2>2 DEF FmtChar, BeforePoint, Machine
  <2> QED
    BY <2>1, <2>2
<1>3. s.after < 0 /\ s.before = -1
  BY DEF BeforePoint, Machine
<1>4. OtherFmtChar(s, c, arg) = [s EXCEPT !.before = (IF s.before < 0 THEN 0 ELSE 10 * s.before) + DigitOf(c)]
  BY <1>1, <1>3, Zenon DEF OtherFmtChar
<1>5. (IF s.before < 0 THEN 0 ELSE 10 * s.before) + DigitOf(c) = w
  BY <1>1, <1>3
<1>6. [s EXCEPT !.before = w] = BeforePoint("other", z, w)
  <2>1. SetsBefore("other", z, -1, 10, TRUE, FALSE, w)
    BY BeforeSet, Zenon
  <2> QED
    BY <2>1, Zenon DEF SetsBefore, SetBefore, BeforePoint
<1> QED
  BY <1>2, <1>4, <1>5, <1>6, Zenon DEF c

(* The letter prints the number, whatever the format has been given.        *)
LEMMA LetterEnds ==
  ASSUME NEW m, Formatted(m), NEW st \in {"first", "other"},
         st = "first" => ~ m.zero /\ m.width = 0
  PROVE  FmtChar(BeforePoint(st, m.zero, IF m.width = 0 THEN -1 ELSE m.width), m.letter, m.arg).out
           = IntegerPrint(Specified(m), m.arg)
<1> DEFINE b == IF m.width = 0 THEN -1 ELSE m.width
           c == m.letter
           s == BeforePoint("other", m.zero, b)
<1>0. m.letter \in Letters /\ m.zero \in BOOLEAN /\ m.width \in 0 .. 9
  BY DEF Formatted
<1>1. c # "0" /\ c # "%" /\ c # "." /\ c # "l" /\ ~ Decimal(c)
  <2>1. "0" \notin Letters /\ "%" \notin Letters /\ "." \notin Letters /\ "l" \notin Letters
    BY DEF Letters
  <2>2. \A x \in TenDigits : x \notin Letters
    BY DEF Letters, TenDigits
  <2> QED
    BY <1>0, <2>1, <2>2, DecimalIs, Zenon
<1> HIDE DEF c, b
<1>2. FmtChar(BeforePoint(st, m.zero, b), c, m.arg) = OtherFmtChar(s, c, m.arg)
  <2>1. CASE st = "first"
    <3>1. FmtChar(BeforePoint(st, m.zero, b), c, m.arg) =
            OtherFmtChar([BeforePoint(st, m.zero, b) EXCEPT !.st = "other"], c, m.arg)
      BY <1>1, <2>1 DEF FmtChar, BeforePoint, Machine
    <3>2. [BeforePoint(st, m.zero, b) EXCEPT !.st = "other"] = s
      <4>1. SetsState(st, m.zero, b, 10, TRUE, FALSE, "other")
        BY StateSet, Zenon
      <4> QED
        BY <4>1, Zenon DEF SetsState, SetState, BeforePoint
    <3> QED
      BY <3>1, <3>2, Zenon
  <2>2. CASE st = "other"
    BY <2>2 DEF FmtChar, BeforePoint, Machine
  <2> QED
    BY <2>1, <2>2
<1>3. OtherFmtChar(s, c, m.arg) = [s EXCEPT !.st = "chars", !.out = s.out \o Letter(s, c, m.arg)]
  BY <1>1, Zenon DEF OtherFmtChar
<1>4. Letter(s, c, m.arg) = IntegerPrint(Specified(m), m.arg)
  <2> DEFINE f(base, signed, upper) == [s EXCEPT !.base = base, !.signed = signed, !.upper = upper]
  <2>0. ASSUME NEW x, NEW sg, NEW u
        PROVE  f(x, sg, u) = Machine("other", m.zero, b, x, sg, u)
    <3>1. SetsNumber("other", m.zero, b, 10, TRUE, FALSE, x, sg, u)
      BY NumberSet, Zenon
    <3> QED
      BY <3>1, Zenon DEF SetsNumber, SetNumber, BeforePoint
  <2>1. CASE c \in {"d", "i"}
    <3>1. Letter(s, c, m.arg) = IntegerPrint(f(10, TRUE, FALSE), m.arg)
      BY <2>1, Zenon DEF Letter
    <3>2. Base(m.letter) = 10 /\ m.letter \in {"d", "i"} /\ m.letter # "X"
      BY <2>1 DEF Base, c
    <3>3. f(10, TRUE, FALSE) = Machine("other", m.zero, b, 10, TRUE, FALSE)
      BY <2>0, Zenon
    <3>4. Specified(m) = Machine("other", m.zero, b, 10, TRUE, FALSE)
      BY <3>2, Zenon DEF Specified, b
    <3> QED
      BY <3>1, <3>3, <3>4, Zenon
  <2>2. CASE c = "u"
    <3>1. Letter(s, c, m.arg) = IntegerPrint(f(10, FALSE, FALSE), m.arg)
      BY <2>2 DEF Letter
    <3>2. Base(m.letter) = 10 /\ m.letter \notin {"d", "i"} /\ m.letter # "X"
      BY <2>2 DEF Base, c
    <3>3. f(10, FALSE, FALSE) = Machine("other", m.zero, b, 10, FALSE, FALSE)
      BY <2>0, Zenon
    <3>4. Specified(m) = Machine("other", m.zero, b, 10, FALSE, FALSE)
      BY <3>2, Zenon DEF Specified, b
    <3> QED
      BY <3>1, <3>3, <3>4, Zenon
  <2>3. CASE c = "o"
    <3>1. Letter(s, c, m.arg) = IntegerPrint(f(8, FALSE, FALSE), m.arg)
      BY <2>3 DEF Letter
    <3>2. Base(m.letter) = 8 /\ m.letter \notin {"d", "i"} /\ m.letter # "X"
      BY <2>3 DEF Base, c
    <3>3. f(8, FALSE, FALSE) = Machine("other", m.zero, b, 8, FALSE, FALSE)
      BY <2>0, Zenon
    <3>4. Specified(m) = Machine("other", m.zero, b, 8, FALSE, FALSE)
      BY <3>2, Zenon DEF Specified, b
    <3> QED
      BY <3>1, <3>3, <3>4, Zenon
  <2>4. CASE c = "x"
    <3>1. Letter(s, c, m.arg) = IntegerPrint(f(16, FALSE, FALSE), m.arg)
      BY <2>4 DEF Letter
    <3>2. Base(m.letter) = 16 /\ m.letter \notin {"d", "i"} /\ m.letter # "X"
      BY <2>4 DEF Base, c
    <3>3. f(16, FALSE, FALSE) = Machine("other", m.zero, b, 16, FALSE, FALSE)
      BY <2>0, Zenon
    <3>4. Specified(m) = Machine("other", m.zero, b, 16, FALSE, FALSE)
      BY <3>2, Zenon DEF Specified, b
    <3> QED
      BY <3>1, <3>3, <3>4, Zenon
  <2>5. CASE c = "X"
    <3>1. Letter(s, c, m.arg) = IntegerPrint(f(16, FALSE, TRUE), m.arg)
      BY <2>5 DEF Letter
    <3>2. Base(m.letter) = 16 /\ m.letter \notin {"d", "i"} /\ m.letter = "X"
      BY <2>5 DEF Base, c
    <3>3. f(16, FALSE, TRUE) = Machine("other", m.zero, b, 16, FALSE, TRUE)
      <4>1. SetsNumber("other", m.zero, b, 10, TRUE, FALSE, 16, FALSE, TRUE)
        BY NumberSet, Zenon
      <4> QED
        BY <4>1, Zenon DEF SetsNumber, SetNumber, BeforePoint
    <3>4. Specified(m) = Machine("other", m.zero, b, 16, FALSE, TRUE)
      BY <3>2, Zenon DEF Specified, b
    <3> QED
      BY <3>1, <3>3, <3>4, Zenon
  <2> QED
    BY <1>0, <2>1, <2>2, <2>3, <2>4, <2>5 DEF c, Letters
<1>5. IntegerPrint(Specified(m), m.arg) \in Seq(Logged)
  <2>1. Specified(m) \in FmtStates(Logged)
    <3>1. Base(m.letter) \in {8, 10, 16}
      BY DEF Base
    <3>2. << >> \in Seq(Logged) /\ (IF m.width = 0 THEN -1 ELSE m.width) \in Int
      BY <1>0, EmptySeq
    <3> QED
      BY <1>0, <3>1, <3>2 DEF Specified, Machine, FmtStates
  <2>2. m.arg \in Nat /\ m.arg < WORD
    BY LogAssumption DEF Formatted
  <2> QED
    BY <2>1, <2>2, IntegerPrintTyped, Zenon
<1>6. s.out = << >> /\ << >> \o IntegerPrint(Specified(m), m.arg) = IntegerPrint(Specified(m), m.arg)
  BY <1>5, ConcatEmptySeq DEF BeforePoint, Machine
<1>7. OtherFmtChar(s, c, m.arg).out = s.out \o Letter(s, c, m.arg)
  BY <1>3 DEF BeforePoint, Machine
<1> QED
  BY <1>2, <1>4, <1>6, <1>7, Zenon DEF b, c

LEMMA PrintfPlus ==
  ASSUME NEW F, NEW O, NEW arg, Prints(F, O, arg), NEW fmt \in Seq(F), NEW c \in F
  PROVE  fmt \o <<c>> \in Seq(F) /\ PrintfOf(fmt \o <<c>>, arg) = FmtChar(PrintfOf(fmt, arg), c, arg)
<1>1. Append(fmt, c) = fmt \o <<c>> /\ Append(fmt, c) \in Seq(F)
  BY AppendIsConcat, AppendProperties, Zenon
<1> QED
  BY <1>1, PrintfMore, Zenon DEF PrintsMore

LEMMA FormatExactly ==
  ASSUME NEW m, Formatted(m)
  PROVE  alt_log_private_printf(Fmt(m), m.arg) = IntegerPrint(Specified(m), m.arg)
<1> DEFINE F == NumberFormat(Letters)
           w == DigitChar(m.width, FALSE)
           f1 == <<"%">>
           f2 == f1 \o (IF m.zero THEN <<"0">> ELSE << >>)
           f3 == f2 \o (IF m.width = 0 THEN << >> ELSE <<w>>)
           P(f) == PrintfOf(f, m.arg)
           b == IF m.width = 0 THEN -1 ELSE m.width
<1>1. "%" \in F /\ "0" \in F /\ m.letter \in F /\ w \in F
  <2>1. m.letter \in Letters /\ m.width \in 0 .. 9
    BY DEF Formatted
  <2>2. "0" \in TenDigits
    BY DEF TenDigits
  <2> QED
    BY <2>1, <2>2, DecimalIs, Zenon DEF NumberFormat
<1>2. Prints(F, Logged, m.arg)
  <2>1. m.arg \in Nat /\ m.arg < WORD /\ Letters \in SUBSET Letters
    BY LogAssumption DEF Formatted
  <2> QED
    BY <2>1, NumbersPrint, Zenon
<1>3. Fmt(m) = f3 \o <<m.letter>>
  BY Zenon DEF Fmt
<1> HIDE DEF F
<1>4. f1 \in Seq(F) /\ P(f1) = BeforePoint("first", FALSE, -1)
  <2>1. << >> \in Seq(F) /\ << >> \o <<"%">> = <<"%">>
    BY <1>1, OneElement, ConcatEmptySeq, Zenon
  <2>2. << >> \o <<"%">> \in Seq(F) /\ P(<< >> \o <<"%">>) = FmtChar(P(<< >>), "%", m.arg)
    BY <1>1, <1>2, <2>1, PrintfPlus, Zenon
  <2> QED
    BY <2>1, <2>2, PrintfNothing, PercentBegins, Zenon
<1> HIDE DEF f1
<1>5. f2 \in Seq(F) /\ P(f2) = IF m.zero THEN BeforePoint("other", TRUE, -1) ELSE BeforePoint("first", FALSE, -1)
  <2>1. CASE m.zero
    BY <1>1, <1>2, <1>4, <2>1, PrintfPlus, ZeroSets, Zenon
  <2>2. CASE ~ m.zero
    BY <1>4, <2>2, ConcatEmptySeq, Zenon
  <2> QED
    BY <2>1, <2>2
<1>a. \E st \in {"first", "other"} : P(f2) = BeforePoint(st, m.zero, -1) /\ (st = "first" => ~ m.zero)
  <2>1. m.zero \in BOOLEAN
    BY DEF Formatted
  <2>2. CASE m.zero
    BY <1>5, <2>2, Zenon
  <2>3. CASE ~ m.zero
    <3>1. m.zero = FALSE
      BY <2>1, <2>3
    <3> QED
      BY <1>5, <2>3, <3>1, Zenon
  <2> QED
    BY <2>2, <2>3
<1> HIDE DEF f2
<1>6. f3 \in Seq(F) /\ \E st \in {"first", "other"} :
        P(f3) = BeforePoint(st, m.zero, b) /\ (st = "first" => ~ m.zero /\ m.width = 0)
  <2>1. PICK st \in {"first", "other"} : P(f2) = BeforePoint(st, m.zero, -1) /\ (st = "first" => ~ m.zero)
    BY <1>a, Zenon
  <2>2. CASE m.width = 0
    <3>1. f3 = f2 /\ b = -1
      BY <1>5, <2>2, ConcatEmptySeq, Zenon
    <3> QED
      BY <1>5, <2>1, <2>2, <3>1, Zenon
  <2>3. CASE m.width # 0
    <3>1. m.width \in 1 .. 9 /\ m.zero \in BOOLEAN
      BY <2>3 DEF Formatted
    <3>2. f3 = f2 \o <<w>> /\ b = m.width
      BY <2>3, Zenon
    <3>3. f2 \o <<w>> \in Seq(F) /\ P(f2 \o <<w>>) = FmtChar(P(f2), w, m.arg)
      BY <1>1, <1>2, <1>5, PrintfPlus, Zenon
    <3>4. FmtChar(P(f2), w, m.arg) = BeforePoint("other", m.zero, m.width)
      <4>1. FmtChar(BeforePoint(st, m.zero, -1), w, m.arg) = BeforePoint("other", m.zero, m.width)
        BY <3>1, WidthSets, Zenon
      <4> QED
        BY <2>1, <4>1, Zenon
    <3>5. "other" \in {"first", "other"} /\ "other" # "first"
      OBVIOUS
    <3> QED
      BY <3>2, <3>3, <3>4, <3>5, Zenon
  <2> QED
    BY <2>2, <2>3
<1> HIDE DEF f3
<1>7. P(f3 \o <<m.letter>>) = FmtChar(P(f3), m.letter, m.arg)
  BY <1>1, <1>2, <1>6, PrintfPlus, Zenon
<1>8. P(Fmt(m)).out = IntegerPrint(Specified(m), m.arg)
  BY <1>3, <1>6, <1>7, LetterEnds, Zenon
<1> QED
  BY <1>8, Zenon DEF alt_log_private_printf, PrintfOf

(* The number a text of digits stands for, one digit after the other.       *)
DigitIs(c, upper) == CHOOSE k \in 0 .. 15 : DigitChar(k, upper) = c

ValueStep(m) ==
  [q \in Nat \X DigitSet(m.letter = "X") |-> Base(m.letter) * q[1] + DigitIs(q[2], m.letter = "X")]

LEMMA DigitIsNumber ==
  ASSUME NEW u \in BOOLEAN
  PROVE  /\ \A c \in DigitSet(u) : DigitIs(c, u) \in 0 .. 15
         /\ \A k \in 0 .. 15 : DigitIs(DigitChar(k, u), u) = k
<1>1. ASSUME NEW c \in DigitSet(u) PROVE DigitIs(c, u) \in 0 .. 15 /\ DigitChar(DigitIs(c, u), u) = c
  BY Zenon DEF DigitIs, DigitSet
<1>2. ASSUME NEW k \in 0 .. 15 PROVE DigitIs(DigitChar(k, u), u) = k
  <2>1. DigitChar(k, u) \in DigitSet(u)
    BY Zenon DEF DigitSet
  <2> QED
    BY <1>1, <2>1, DigitCharTells, Zenon
<1> QED
  BY <1>1, <1>2

LEMMA ValueStates ==
  ASSUME NEW m, NEW ds \in Seq(DigitSet(m.letter = "X"))
  PROVE  FoldsTo(ds, ValueStep(m), 0, Nat, ValueOf(ds, m))
<1> DEFINE u == m.letter = "X"
           B == Base(m.letter)
           d(c) == DigitIs(c, u)
           op(n, c) == B * n + d(c)
           G == ValueStep(m)
           E == DigitSet(u)
<1>0. B \in Nat /\ \A c \in E : d(c) \in Nat
  <2>1. B \in Nat
    BY DEF Base
  <2>2. u \in BOOLEAN
    OBVIOUS
  <2> HIDE DEF u
  <2>3. \A c \in E : d(c) \in 0 .. 15
    BY <2>2, DigitIsNumber, Zenon
  <2>4. \A k \in 0 .. 15 : k \in Nat
    OBVIOUS
  <2> QED
    BY <2>1, <2>3, <2>4, Zenon
<1>2. G = [q \in Nat \X E |-> op(q[1], q[2])]
  BY Zenon DEF ValueStep
<1> HIDE DEF E, B, d, G
<1>1. ASSUME NEW n \in Nat, NEW x \in E PROVE op(n, x) \in Nat /\ G[<<n, x>>] = op(n, x)
  <2>1. d(x) \in Nat
    BY <1>0
  <2>2. op(n, x) \in Nat
    BY <1>0, <2>1
  <2> HIDE DEF op
  <2>3. G[<<n, x>>] = op(n, x)
    BY <1>2
  <2> QED
    BY <2>2, <2>3
<1> HIDE DEF op
<1>a. G \in [Nat \X E -> Nat]
  BY <1>1, <1>2
<1>b. ds \in Seq(E) /\ 0 \in Nat
  BY DEF E
<1>3. PICK g \in [SUBSET (DOMAIN ds) -> Nat] : FoldOver(g, ds, G, 0)
  BY <1>a, <1>b, FoldExists, Zenon
<1>4. \A T \in SUBSET (DOMAIN ds) : T # {} => ds[Max(T)] \in E
  <2> TAKE T \in SUBSET (DOMAIN ds)
  <2> HAVE T # {}
  <2>1. Len(ds) \in Nat /\ DOMAIN ds = 1 .. Len(ds)
    BY <1>b, LenProperties
  <2>2. Max(T) \in DOMAIN ds
    BY <2>1, Greatest
  <2> QED
    BY <1>b, <2>1, <2>2, ElementOfSeq, Zenon
<1> DEFINE D(h) == h = [T \in SUBSET (DOMAIN ds) |->
                          IF T = {} THEN 0 ELSE op(h[T \ {Max(T)}], ds[Max(T)])]
<1>5. D(g)
  <2>1. \A T \in SUBSET (DOMAIN ds) : T \ {Max(T)} \in SUBSET (DOMAIN ds)
    OBVIOUS
  <2>2. ASSUME NEW T \in SUBSET (DOMAIN ds), T # {}
        PROVE  g[T] = op(g[T \ {Max(T)}], ds[Max(T)])
    <3>1. g[T] = G[<<g[T \ {Max(T)}], ds[Max(T)]>>]
      BY <1>3, <2>2, Zenon DEF FoldOver
    <3>2. g[T \ {Max(T)}] \in Nat /\ ds[Max(T)] \in E
      BY <1>4, <2>1, <2>2
    <3> QED
      BY <1>1, <3>1, <3>2, Zenon
  <2>3. g[{}] = 0
    BY <1>3, Zenon DEF FoldOver
  <2> QED
    BY <2>2, <2>3
<1> DEFINE h == CHOOSE f : D(f)
<1>6. ValueOf(ds, m) = h[DOMAIN ds]
  BY DEF ValueOf, FoldLeft, MapThenFoldSet, op, d, B, u, DigitIs
<1>7. D(h)
  <2> HIDE DEF D
  <2> QED
    BY <1>5, Zenon
<1> HIDE DEF h
<1>8. h[{}] = 0
  BY <1>7
<1>9. \A T \in SUBSET (DOMAIN ds) :
        T # {} /\ h[T \ {Max(T)}] \in Nat => h[T] = G[<<h[T \ {Max(T)}], ds[Max(T)]>>]
  <2>1. \A T \in SUBSET (DOMAIN ds) : T # {} => h[T] = op(h[T \ {Max(T)}], ds[Max(T)])
    BY <1>7
  <2> QED
    BY <2>1, <1>1, <1>4
<1>10. FoldIn(h, ds, G, 0, Nat)
  BY <1>8, <1>9, Zenon DEF FoldIn
<1>11. FoldsTo(ds, G, 0, Nat, h[DOMAIN ds])
  BY <1>a, <1>b, <1>10, FoldStates, Zenon
<1> QED
  BY <1>6, <1>11, Zenon DEF G

ValueGrows(m, ds, k) ==
  /\ ValueOf(ds, m) \in Nat
  /\ ValueOf(Append(ds, DigitChar(k, m.letter = "X")), m) = Base(m.letter) * ValueOf(ds, m) + k

LEMMA ValueMore ==
  ASSUME NEW m, NEW ds \in Seq(DigitSet(m.letter = "X")), NEW k \in 0 .. 15
  PROVE  ValueGrows(m, ds, k)
<1> DEFINE u == m.letter = "X"
           c == DigitChar(k, u)
           G == ValueStep(m)
           E == DigitSet(u)
           x == ValueOf(ds, m)
           y == ValueOf(Append(ds, c), m)
<1>0. u \in BOOLEAN
  OBVIOUS
<1>1. c \in E
  BY Zenon DEF DigitSet
<1>2. Append(ds, c) \in Seq(E)
  BY <1>1, AppendProperties, Zenon
<1>3. FoldsTo(ds, G, 0, Nat, x) /\ FoldsTo(Append(ds, c), G, 0, Nat, y)
  BY <1>2, ValueStates, Zenon
<1>4. G = [q \in Nat \X E |-> Base(m.letter) * q[1] + DigitIs(q[2], u)]
  BY Zenon DEF ValueStep
<1>5. ds \in Seq(E)
  OBVIOUS
<1> HIDE DEF u
<1>6. DigitIs(c, u) = k
  BY <1>0, DigitIsNumber, Zenon
<1> HIDE DEF c, G, E, x, y
<1>7. x \in Nat
  BY <1>3, <1>5, LenProperties DEF FoldsTo
<1>8. y = G[<<x, c>>]
  BY <1>1, <1>3, <1>5, OneMore
<1>9. G[<<x, c>>] = Base(m.letter) * x + DigitIs(c, u)
  BY <1>1, <1>4, <1>7
<1> QED
  BY <1>6, <1>7, <1>8, <1>9, Zenon DEF ValueGrows, x, y, c, u

LEMMA ValueOfNothing == ASSUME NEW m PROVE ValueOf(<< >>, m) = 0
<1>1. << >> \in Seq(DigitSet(m.letter = "X")) /\ Len(<< >>) = 0
  BY EmptySeq
<1>2. FoldsTo(<< >>, ValueStep(m), 0, Nat, ValueOf(<< >>, m))
  BY <1>1, ValueStates, Zenon
<1> QED
  BY <1>1, <1>2, Zenon DEF FoldsTo, StatesOf

(* Zeros in front change nothing, and the digits of a number stand for it.  *)
LEMMA ValueOfZeros ==
  ASSUME NEW m, NEW n \in Nat
  PROVE  \A z \in Seq({"0"}) : Len(z) = n => ValueOf(z, m) = 0
<1> DEFINE P(k) == \A z \in Seq({"0"}) : Len(z) = k => ValueOf(z, m) = 0
           Bad == {k \in Nat : ~ P(k)}
<1>1. SUFFICES ASSUME Bad # {} PROVE FALSE
  OBVIOUS
<1>2. PICK k \in Bad : \A j \in Bad : k <= j
  BY <1>1, LeastNatural
<1>3. PICK z \in Seq({"0"}) : Len(z) = k /\ ValueOf(z, m) # 0
  BY <1>2
<1>4. z # << >>
  BY <1>3, ValueOfNothing, Zenon
<1>5. Front(z) \in Seq({"0"}) /\ Len(Front(z)) = k - 1 /\ \A i \in 1 .. k - 1 : Front(z)[i] = z[i]
  BY <1>3, <1>4, FrontOf, Zenon
<1>6. k \in Nat /\ k # 0
  <2>1. k # 0
    BY <1>3, <1>4, EmptySeq, LenProperties
  <2> QED
    BY <1>2, <2>1
<1> DEFINE f == Front(z)
           u == m.letter = "X"
<1>7. z = Append(f, "0")
  <2> HIDE DEF f
  <2>0. f \in Seq({"0"}) /\ Len(f) = k - 1 /\ "0" \in {"0"}
    BY <1>5 DEF f
  <2>1. Append(f, "0") \in Seq({"0"}) /\ Len(Append(f, "0")) = k
    BY <1>6, <2>0, AppendProperties
  <2>2. \A i \in 1 .. k : z[i] \in {"0"} /\ Append(f, "0")[i] \in {"0"}
    BY <1>3, <2>1, ElementOfSeq, Zenon
  <2>3. \A i \in 1 .. k : z[i] = Append(f, "0")[i]
    BY <2>2
  <2> QED
    BY <1>3, <2>1, <2>3, SeqEqual
<1>8. "0" = DigitChar(0, u) /\ 0 \in 0 .. 15
  BY DEF DigitChar
<1>9. f \in Seq(DigitSet(u))
  <2>1. {"0"} \subseteq DigitSet(u)
    BY <1>8, Zenon DEF DigitSet
  <2> QED
    BY <1>5, <2>1, SeqMonotonic, Zenon
<1>10. ValueGrows(m, f, 0)
  BY <1>8, <1>9, ValueMore, Zenon
<1>11. ValueOf(z, m) = Base(m.letter) * ValueOf(f, m) + 0
  BY <1>7, <1>8, <1>10, Zenon DEF ValueGrows
<1>12. ValueOf(f, m) = 0
  <2>1. k - 1 \in Nat /\ k - 1 < k /\ ~ k <= k - 1
    BY <1>6
  <2>2. P(k - 1)
    <3>1. k - 1 \notin Bad
      BY <1>2, <2>1, Zenon
    <3> QED
      BY <2>1, <3>1
  <2> QED
    BY <1>5, <2>2
<1>13. Base(m.letter) \in Nat
  BY DEF Base
<1> QED
  BY <1>3, <1>11, <1>12, <1>13

StandsFor(m, z, v) ==
  ValueOf(z \o Numbered(v, Base(m.letter), m.letter = "X"), m) = v

LEMMA ValueOfFigures ==
  ASSUME NEW m, NEW z \in Seq({"0"}), NEW v \in Nat
  PROVE  StandsFor(m, z, v)
<1> DEFINE u == m.letter = "X"
           B == Base(m.letter)
           E == DigitSet(u)
           Bad == {n \in Nat : ~ StandsFor(m, z, n)}
           N(n) == Numbered(n, B, u)
<1>1. SUFFICES ASSUME Bad # {} PROVE FALSE
  OBVIOUS
<1>2. PICK n \in Bad : \A k \in Bad : n <= k
  BY <1>1, LeastNatural
<1>3. B \in {8, 10, 16} /\ B \in Nat /\ B > 1 /\ B \in Nat \ {0} /\ u \in BOOLEAN
  BY DEF Base
<1>4. z \in Seq(E) /\ ValueOf(z, m) = 0
  <2>1. "0" = DigitChar(0, u) /\ 0 \in 0 .. 15
    BY DEF DigitChar
  <2>2. {"0"} \subseteq E
    BY <2>1, Zenon DEF DigitSet
  <2>3. Len(z) \in Nat
    BY LenProperties, Zenon
  <2> QED
    BY <2>2, <2>3, SeqMonotonic, ValueOfZeros, Zenon
<1>5. N(n) = IF n < B THEN <<DigitChar(n, u)>>
             ELSE Append(N(n \div B), DigitChar(n % B, u))
  <2> HIDE DEF B, u, Bad
  <2>1. n \in Nat
    BY <1>2 DEF Bad
  <2> QED
    BY <2>1, <1>3, NumberedUnfolds
<1> HIDE DEF E
<1>6. CASE n < B
  <2>1. n \in 0 .. 15 /\ n \in Nat
    BY <1>2, <1>3, <1>6
  <2>2. DigitChar(n, u) \in E
    BY <2>1, Zenon DEF E, DigitSet
  <2>3. z \o <<DigitChar(n, u)>> = Append(z, DigitChar(n, u))
    BY <1>4, <2>2, AppendIsConcat, Zenon
  <2>4. ValueGrows(m, z, n)
    BY <1>4, <2>1, ValueMore, Zenon DEF E
  <2>5. ValueOf(z \o N(n), m) = B * 0 + n
    BY <1>4, <1>5, <1>6, <2>3, <2>4, Zenon DEF ValueGrows
  <2> HIDE DEF N
  <2>6. ValueOf(z \o N(n), m) = n
    BY <1>3, <2>1, <2>5
  <2>7. StandsFor(m, z, n)
    BY <2>6, Zenon DEF StandsFor, N
  <2> QED
    BY <1>2, <2>7, Zenon
<1>7. CASE ~ (n < B)
  <2> DEFINE k == n \div B
             r == n % B
  <2>1. k \in Nat /\ r \in 0 .. B - 1 /\ n = B * k + r
    BY <1>2, <1>3, Division, Zenon
  <2> HIDE DEF k, r
  <2>2. k < n /\ r \in 0 .. 15
    <3> HIDE DEF B
    <3>1. k # 0
      BY <1>2, <1>3, <1>7, <2>1
    <3>2. B * k >= 2 * k
      BY <1>3, <2>1
    <3> QED
      BY <1>2, <1>3, <2>1, <3>1, <3>2
  <2>3. StandsFor(m, z, k)
    <3>1. k \notin Bad
      <4>1. ~ n <= k
        BY <1>2, <2>1, <2>2
      <4> QED
        BY <1>2, <4>1, Zenon
    <3> QED
      BY <2>1, <3>1, Zenon
  <2> DEFINE x == N(k)
             c == DigitChar(r, u)
  <2>4. x \in Seq(E)
    BY <1>3, <2>1, NumberedIs, Zenon DEF E
  <2>5. c \in E
    BY <2>2, Zenon DEF E, DigitSet
  <2>6. N(n) = Append(x, c)
    BY <1>5, <1>7, Zenon DEF k, r
  <2>7. ValueOf(z \o x, m) = k
    BY <2>3, Zenon DEF StandsFor
  <2> HIDE DEF x, N
  <2>8. z \o x \in Seq(E) /\ z \o Append(x, c) = Append(z \o x, c)
    <3> HIDE DEF c
    <3>1. <<c>> \in Seq(E) /\ z \o x \in Seq(E)
      BY <1>4, <2>4, <2>5, OneElement, ConcatProperties, Zenon
    <3>2. Append(x, c) = x \o <<c>> /\ Append(z \o x, c) = (z \o x) \o <<c>>
      BY <2>4, <2>5, <3>1, AppendIsConcat, Zenon
    <3>3. (z \o x) \o <<c>> = z \o (x \o <<c>>)
      <4>1. Regroups(E, z, x, <<c>>)
        BY <1>4, <2>4, <3>1, Regroup, Zenon
      <4> QED
        BY <4>1, Zenon DEF Regroups
    <3> QED
      BY <3>1, <3>2, <3>3, Zenon
  <2>9. ValueGrows(m, z \o x, r)
    BY <2>2, <2>8, ValueMore, Zenon DEF E
  <2>10. ValueOf(z \o N(n), m) = B * k + r
    BY <2>6, <2>7, <2>8, <2>9, Zenon DEF ValueGrows, c
  <2>11. StandsFor(m, z, n)
    BY <2>1, <2>10, Zenon DEF StandsFor, N
  <2> QED
    BY <1>2, <2>11, Zenon
<1> QED
  BY <1>6, <1>7

(* A text of blanks, a sign and digits is read back as these.               *)
Blank       == " "
Minus       == "-"
SignOf(neg) == IF neg THEN <<Minus>> ELSE << >>

TextReads(text, n, neg, ds) ==
  /\ SelectLastInSeq(text, LAMBDA c : c = Blank) = n
  /\ SubSeq(text, n + 1, Len(text)) = SignOf(neg) \o ds
  /\ SignOf(neg) \o ds # << >>
  /\ (SignOf(neg) \o ds)[1] = Minus <=> neg
  /\ neg => Tail(SignOf(neg) \o ds) = ds
  /\ ~ neg => SignOf(neg) \o ds = ds
  /\ Len(text) = n + (IF neg THEN 1 ELSE 0) + Len(ds)

NoBlank(s) == \A i \in 1 .. Len(s) : s[i] # Blank

LEMMA AfterBlanks ==
  ASSUME NEW E, NEW b \in Seq({Blank}), {Blank} \subseteq E, NEW r \in Seq(E), NoBlank(r)
  PROVE  /\ SelectLastInSeq(b \o r, LAMBDA c : c = Blank) = Len(b)
         /\ SubSeq(b \o r, Len(b) + 1, Len(b \o r)) = r
         /\ Len(b \o r) = Len(b) + Len(r)
<1> DEFINE n == Len(b)
           t == b \o r
           k == Len(r)
           I == {i \in 1 .. Len(t) : t[i] = Blank}
<1>1. n \in Nat /\ k \in Nat /\ b \in Seq(E) /\ \A i \in 1 .. n : b[i] = Blank
  <2>1. b \in Seq(E)
    BY SeqMonotonic, Zenon
  <2>2. \A i \in 1 .. n : b[i] \in {Blank}
    BY ElementOfSeq, Zenon
  <2>3. \A x \in {Blank} : x = Blank
    OBVIOUS
  <2> QED
    BY <2>1, <2>2, <2>3, LenProperties, Zenon
<1>2. /\ t \in Seq(E) /\ Len(t) = n + k
      /\ \A i \in 1 .. n + k : t[i] = IF i <= n THEN b[i] ELSE r[i - n]
  BY <1>1, ConcatProperties, Zenon
<1>3. SelectLastInSeq(t, LAMBDA c : c = Blank) = IF I # {} THEN Max(I) ELSE 0
  BY DEF SelectLastInSeq
<1>c. n \in Nat /\ k \in Nat
  BY <1>1, Zenon
<1>d. I = {i \in 1 .. Len(t) : t[i] = Blank}
  BY Zenon
<1> HIDE DEF t, n, k, I
<1>4. I = 1 .. n
  <2>1. ASSUME NEW i \in 1 .. n + k PROVE t[i] = Blank <=> i \in 1 .. n
    <3>1. CASE i <= n
      <4>1. i \in 1 .. n
        BY <1>c, <3>1
      <4> QED
        BY <1>1, <1>2, <3>1, <4>1, Zenon
    <3>2. CASE ~ (i <= n)
      <4>1. i - n \in 1 .. k /\ i \notin 1 .. n
        BY <1>c, <3>2
      <4>2. t[i] = r[i - n]
        BY <1>2, <3>2, Zenon
      <4>3. r[i - n] # Blank
        BY <4>1, Zenon DEF k, NoBlank
      <4> QED
        BY <4>1, <4>2, <4>3, Zenon
    <3> QED
      BY <3>1, <3>2
  <2>2. 1 .. n \subseteq 1 .. n + k
    BY <1>c
  <2> QED
    BY <1>2, <1>d, <2>1, <2>2, Zenon
<1>5. SelectLastInSeq(t, LAMBDA c : c = Blank) = n
  <2>1. CASE n = 0
    <3>1. 1 .. n = {}
      BY <2>1
    <3> QED
      BY <1>3, <1>4, <2>1, <3>1, Zenon
  <2>2. CASE n # 0
    <3>0. n \in 1 .. n
      BY <1>c, <2>2
    <3>1. n \in 1 .. n /\ 1 .. n # {}
      BY <3>0, Zenon
    <3>2. Max(1 .. n) = n
      BY <1>c, <3>1, GreatestUpTo, Zenon
    <3> QED
      BY <1>3, <1>4, <3>1, <3>2, Zenon
  <2> QED
    BY <2>1, <2>2
<1>6. SubSeq(t, n + 1, Len(t)) = r
  <2> DEFINE s == SubSeq(t, n + 1, n + k)
  <2>1. \A i \in n + 1 .. n + k : t[i] \in E
    <3>1. \A i \in n + 1 .. n + k : i \in 1 .. Len(t)
      <4>1. Len(t) = n + k
        BY <1>2, Zenon
      <4> QED
        BY <1>c, <4>1
    <3> QED
      BY <1>2, <3>1, ElementOfSeq, Zenon
  <2>2. /\ s \in Seq(E) /\ Len(s) = (IF n + 1 <= n + k THEN (n + k) - (n + 1) + 1 ELSE 0)
        /\ \A i \in 1 .. (n + k) - (n + 1) + 1 : s[i] = t[n + 1 + i - 1]
    <3>1. n + 1 \in Int /\ n + k \in Int
      BY <1>c
    <3> QED
      BY <2>1, <3>1, SubSeqProperties
  <2> HIDE DEF s
  <2>3. Len(s) = k
    <3>1. Len(s) = (IF n + 1 <= n + k THEN (n + k) - (n + 1) + 1 ELSE 0)
      BY <2>2, Zenon
    <3> QED
      BY <1>c, <3>1
  <2>4. ASSUME NEW i \in 1 .. k PROVE s[i] = r[i]
    <3>1. i \in 1 .. (n + k) - (n + 1) + 1 /\ n + 1 + i - 1 = n + i /\ n + i \in 1 .. n + k
          /\ ~ (n + i <= n) /\ (n + i) - n = i
      BY <1>c
    <3>2. s[i] = t[n + i]
      BY <2>2, <3>1, Zenon
    <3>3. t[n + i] = r[(n + i) - n]
      BY <1>2, <3>1, Zenon
    <3> QED
      BY <3>1, <3>2, <3>3, Zenon
  <2>5. s = r
    BY <2>2, <2>3, <2>4, SeqEqual, Zenon DEF k
  <2> QED
    BY <1>2, <2>5, Zenon DEF s
<1> QED
  BY <1>2, <1>5, <1>6, Zenon DEF t, n, k

LEMMA ReadsBack ==
  ASSUME NEW b \in Seq({Blank}), NEW neg \in BOOLEAN, NEW ds \in Seq(DigitChars), ds # << >>
  PROVE  TextReads(b \o (SignOf(neg) \o ds), Len(b), neg, ds)
<1> DEFINE E == DigitChars \cup {Blank, Minus}
           r == SignOf(neg) \o ds
<1>1. ds \in Seq(E) /\ <<Minus>> \in Seq({Minus}) /\ << >> \in Seq({Minus}) /\ {Blank} \subseteq E
  <2>1. DigitChars \subseteq E /\ {Blank} \subseteq E
    BY Zenon
  <2> QED
    BY <2>1, SeqMonotonic, OneElement, Zenon
<1>c. Len(ds) \in Nat /\ Len(ds) # 0
  BY EmptySeq
<1>a. \A c \in DigitChars : c # Blank /\ c # Minus
  <2>1. TRUE \in BOOLEAN /\ FALSE \in BOOLEAN
    OBVIOUS
  <2> QED
    BY <2>1, DigitCharIs, Zenon DEF DigitChars, DigitSet, Blank, Minus
<1>b. Len(ds) \in Nat /\ Len(ds) # 0 /\ \A i \in 1 .. Len(ds) : ds[i] \in DigitChars
  BY <1>c, ElementOfSeq, Zenon
<1> HIDE DEF E
<1>2. SignOf(neg) \in Seq(E) /\ Len(SignOf(neg)) = IF neg THEN 1 ELSE 0
  <2>1. {Minus} \subseteq E /\ Minus \in E
    BY Zenon DEF E
  <2>2. <<Minus>> \in Seq(E) /\ Len(<<Minus>>) = 1 /\ << >> \in Seq(E) /\ Len(<< >>) = 0
    BY <2>1, OneElement, EmptySeq, Zenon
  <2> QED
    BY <2>2 DEF SignOf
<1>d. ASSUME NEW i \in 1 .. Len(ds)
      PROVE  i + 1 \in 1 .. 1 + Len(ds) /\ ~ (i + 1 <= 1) /\ (i + 1) - 1 = i
  BY <1>c
<1>e. 1 \in 1 .. Len(ds) /\ 1 \in 1 .. 1 + Len(ds) /\ 1 <= 1 /\ (1 + Len(ds)) - 1 = Len(ds)
      /\ 1 + Len(ds) \in Nat /\ 1 + Len(ds) # 0
  BY <1>c
<1>f. ASSUME NEW i \in 1 .. 1 + Len(ds), i # 1 PROVE i - 1 \in 1 .. Len(ds) /\ (i - 1) + 1 = i
  BY <1>c, <1>f
<1>3. /\ r \in Seq(E) /\ Len(r) = Len(SignOf(neg)) + Len(ds)
      /\ \A i \in 1 .. Len(SignOf(neg)) + Len(ds) :
           r[i] = IF i <= Len(SignOf(neg)) THEN SignOf(neg)[i] ELSE ds[i - Len(SignOf(neg))]
  BY <1>1, <1>2, ConcatProperties, Zenon
<1>4. ~ neg => r = ds
  BY <1>1, ConcatEmptySeq, Zenon DEF SignOf
<1>5. neg => /\ r[1] = Minus /\ Len(r) = 1 + Len(ds)
             /\ \A i \in 1 .. Len(ds) : r[i + 1] = ds[i]
  <2> HAVE neg
  <2>1. SignOf(neg) = <<Minus>> /\ Len(SignOf(neg)) = 1 /\ SignOf(neg)[1] = Minus
    BY <1>2 DEF SignOf
  <2> HIDE DEF r
  <2>2. \A i \in 1 .. 1 + Len(ds) : r[i] = IF i <= 1 THEN SignOf(neg)[i] ELSE ds[i - 1]
    BY <1>3, <2>1, Zenon
  <2>3. ASSUME NEW i \in 1 .. Len(ds) PROVE r[i + 1] = ds[i]
    <3>1. i + 1 \in 1 .. 1 + Len(ds) /\ ~ (i + 1 <= 1) /\ (i + 1) - 1 = i
      BY <1>d
    <3>2. r[i + 1] = ds[(i + 1) - 1]
      BY <2>2, <3>1, Zenon
    <3> QED
      BY <3>1, <3>2, Zenon
  <2>4. r[1] = Minus
    <3>1. 1 \in 1 .. 1 + Len(ds) /\ 1 <= 1
      BY <1>e
    <3> QED
      BY <2>1, <2>2, <3>1, Zenon
  <2> QED
    BY <1>3, <2>1, <2>3, <2>4, Zenon
<1> HIDE DEF r
<1>6. Len(r) \in Nat /\ Len(r) # 0 /\ r # << >>
  <2>1. Len(r) \in Nat /\ Len(r) # 0
    BY <1>4, <1>5, <1>c, <1>e, Zenon
  <2> QED
    BY <2>1, EmptySeq, Zenon
<1>7. r[1] = Minus <=> neg
  BY <1>4, <1>5, <1>a, <1>b, <1>e, Zenon
<1>8. NoBlank(r)
  <2>1. CASE neg
    <3>1. ASSUME NEW i \in 1 .. Len(r) PROVE r[i] # Blank
      <4>1. CASE i = 1
        <5>1. Minus # Blank
          BY DEF Minus, Blank
        <5> QED
          BY <1>5, <2>1, <4>1, <5>1, Zenon
      <4>2. CASE i # 1
        <5>1. i - 1 \in 1 .. Len(ds) /\ (i - 1) + 1 = i
          <6>1. i \in 1 .. 1 + Len(ds)
            BY <1>5, <2>1, Zenon
          <6> QED
            BY <1>f, <4>2, <6>1
        <5>2. r[i] = ds[i - 1]
          BY <1>5, <2>1, <5>1, Zenon
        <5> QED
          BY <1>a, <1>b, <5>1, <5>2, Zenon
      <4> QED
        BY <4>1, <4>2
    <3> QED
      BY <3>1, Zenon DEF NoBlank
  <2>2. CASE ~ neg
    BY <1>4, <1>a, <1>b, <2>2, Zenon DEF NoBlank
  <2> QED
    BY <2>1, <2>2
<1>9. neg => Tail(r) = ds
  <2> HAVE neg
  <2>1. Tail(r) \in Seq(E) /\ Len(Tail(r)) = Len(r) - 1 /\ \A i \in 1 .. Len(r) - 1 : Tail(r)[i] = r[i + 1]
    BY <1>3, <1>6, HeadTailProperties
  <2>2. Len(r) - 1 = Len(ds)
    BY <1>5, <1>e, Zenon
  <2>3. \A i \in 1 .. Len(ds) : Tail(r)[i] = ds[i]
    BY <1>5, <2>1, <2>2, Zenon
  <2> QED
    BY <1>1, <2>1, <2>2, <2>3, SeqEqual, Zenon
<1>10. /\ SelectLastInSeq(b \o r, LAMBDA c : c = Blank) = Len(b)
       /\ SubSeq(b \o r, Len(b) + 1, Len(b \o r)) = r
       /\ Len(b \o r) = Len(b) + Len(r)
  BY <1>1, <1>3, <1>8, AfterBlanks, Zenon
<1>11. Len(b \o r) = Len(b) + (IF neg THEN 1 ELSE 0) + Len(ds)
  <2>1. Len(b) \in Nat
    BY LenProperties, Zenon
  <2>2. Len(r) = (IF neg THEN 1 ELSE 0) + Len(ds)
    BY <1>2, <1>3, Zenon
  <2> QED
    <3>1. Len(b \o r) = Len(b) + ((IF neg THEN 1 ELSE 0) + Len(ds))
      BY <1>10, <2>2, Zenon
    <3>2. \A x \in Nat, y \in Nat : x + ((IF neg THEN 1 ELSE 0) + y) = x + (IF neg THEN 1 ELSE 0) + y
      OBVIOUS
    <3> QED
      BY <1>c, <2>1, <3>1, <3>2, Zenon
<1> QED
  BY <1>4, <1>6, <1>7, <1>9, <1>10, <1>11, Zenon DEF TextReads, r

Displays(m, text, n, neg, ds) ==
  /\ TextReads(text, n, neg, ds)
  /\ ds # << >>
  /\ neg => Meaning(m) = - ValueOf(ds, m)
  /\ ~ neg => Meaning(m) = ValueOf(ds, m)
  /\ Len(text) >= m.width
  /\ n > 0 => ~ m.zero /\ Len(text) = m.width
  /\ ds[1] = "0" => Len(ds) = 1 \/ (m.zero /\ Len(text) = m.width)

LEMMA RendersIf ==
  ASSUME NEW m, NEW text, NEW n, NEW neg \in BOOLEAN, NEW ds, Displays(m, text, n, neg, ds)
  PROVE  Renders(m, text)
<1> DEFINE I == {i \in 1 .. Len(text) : text[i] = " "}
           blanks == IF I # {} THEN Max(I) ELSE 0
           body == SubSeq(text, blanks + 1, Len(text))
           minus == body # << >> /\ body[1] = "-"
           digits == IF minus THEN Tail(body) ELSE body
<1>1. blanks = n
  <2>1. SelectLastInSeq(text, LAMBDA c : c = Blank) = n
    BY DEF Displays, TextReads
  <2>2. SelectLastInSeq(text, LAMBDA c : c = Blank) = blanks
    BY Zenon DEF SelectLastInSeq, Blank
  <2> QED
    BY <2>1, <2>2, Zenon
<1>2. Renders(m, text) <=>
        /\ digits # << >>
        /\ Meaning(m) = IF minus THEN - ValueOf(digits, m) ELSE ValueOf(digits, m)
        /\ Len(text) >= m.width
        /\ blanks > 0 => ~ m.zero /\ Len(text) = m.width
        /\ digits[1] = "0" => Len(digits) = 1 \/ (m.zero /\ Len(text) = m.width)
  BY Zenon DEF Renders, SelectLastInSeq
<1> HIDE DEF blanks
<1>3. body = SignOf(neg) \o ds
  BY <1>1, Zenon DEF Displays, TextReads
<1> HIDE DEF body
<1>4. minus <=> neg
  BY <1>3, Zenon DEF Displays, TextReads, Minus
<1> HIDE DEF minus
<1>5. digits = ds
  BY <1>3, <1>4, Zenon DEF Displays, TextReads
<1> HIDE DEF digits
<1> QED
  BY <1>1, <1>2, <1>4, <1>5, Zenon DEF Displays

LEMMA SpecifiedIs ==
  ASSUME NEW m, Formatted(m)
  PROVE  /\ Specified(m).zero = m.zero /\ Specified(m).base = Base(m.letter)
         /\ Specified(m).before = (IF m.width = 0 THEN -1 ELSE m.width)
         /\ Specified(m).upper = (m.letter = "X")
         /\ Specified(m).signed <=> m.letter \in {"d", "i"}
         /\ Specified(m) \in FmtStates(Logged)
<1>1. m.zero \in BOOLEAN /\ m.width \in 0 .. 9
  BY DEF Formatted
<1>2. /\ Specified(m).zero = m.zero /\ Specified(m).base = Base(m.letter)
      /\ Specified(m).before = (IF m.width = 0 THEN -1 ELSE m.width)
      /\ Specified(m).upper = (IF m.letter = "X" THEN TRUE ELSE FALSE)
      /\ Specified(m).signed = (IF m.letter \in {"d", "i"} THEN TRUE ELSE FALSE)
  BY DEF Specified, Machine
<1>3. (m.letter = "X") \in BOOLEAN
  OBVIOUS
<1>4. Specified(m).upper = (m.letter = "X")
  BY <1>2, <1>3
<1>5. Specified(m).signed <=> m.letter \in {"d", "i"}
  BY <1>2
<1>6. Specified(m) \in FmtStates(Logged)
  <2>1. Base(m.letter) \in {8, 10, 16}
    BY DEF Base
  <2>2. << >> \in Seq(Logged) /\ (IF m.width = 0 THEN -1 ELSE m.width) \in Int
    BY <1>1, EmptySeq
  <2> QED
    BY <1>1, <2>1, <2>2 DEF Specified, Machine, FmtStates
<1> QED
  BY <1>2, <1>4, <1>5, <1>6, Zenon

(* The number of a format, and the room it takes.                           *)
Width(n, pad, sign, before, len) ==
  /\ pad > 0 => n = pad /\ n + sign + len = before
  /\ pad <= 0 => n = 0 /\ sign + len >= before

LEMMA WidthIs ==
  ASSUME NEW before \in Int, NEW sign \in {0, 1}, NEW len \in Nat, NEW n \in Nat, NEW pad,
         pad = before - len - sign, n = IF pad > 0 THEN pad ELSE 0
  PROVE  Width(n, pad, sign, before, len)
BY DEF Width

LEMMA FormatRenders ==
  ASSUME NEW m, Formatted(m)
  PROVE  Renders(m, alt_log_private_printf(Fmt(m), m.arg))
<1> DEFINE s == Specified(m)
           a == m.arg
           neg == Negative(s, a)
           v == Magnitude(s, a)
           num == Figures(s, a)
           pad == Padding(s, a)
           sign == IF neg THEN 1 ELSE 0
           text == IntegerPrint(s, a)
           len == Len(num)
<1>1. /\ s.zero = m.zero /\ s.base = Base(m.letter) /\ s.before = (IF m.width = 0 THEN -1 ELSE m.width)
      /\ s.upper = (m.letter = "X") /\ (s.signed <=> m.letter \in {"d", "i"})
      /\ s \in FmtStates(Logged)
  BY SpecifiedIs, Zenon
<1>2. a \in Nat /\ a < WORD /\ WORD \in Nat /\ m.zero \in BOOLEAN /\ m.width \in 0 .. 9
  BY LogAssumption DEF Formatted
<1>3. v \in Nat /\ num \in Seq(DigitChars) /\ pad \in Int
  BY <1>1, <1>2, IntegerPrintTyped, Zenon
<1>4. neg \in BOOLEAN /\ (neg <=> m.letter \in {"d", "i"} /\ a >= WORD \div 2)
  <2>1. neg <=> m.letter \in {"d", "i"} /\ a >= WORD \div 2
    BY <1>1, Zenon DEF Negative
  <2>2. neg \in BOOLEAN
    BY DEF Negative
  <2> QED
    BY <2>1, <2>2, Zenon
<1>5. Meaning(m) = IF neg THEN - v ELSE v
  <2>1. v = IF neg THEN WORD - a ELSE a
    BY Zenon DEF Magnitude
  <2>2. Meaning(m) = IF neg THEN a - WORD ELSE a
    BY <1>4, Zenon DEF Meaning
  <2>3. - (WORD - a) = a - WORD
    BY <1>2
  <2> QED
    BY <2>1, <2>2, <2>3, Zenon
<1>6. num = Numbered(v, Base(m.letter), m.letter = "X")
  <2>1. num = Numbered(v, s.base, s.upper)
    BY Zenon DEF Figures
  <2> QED
    BY <1>1, <2>1, Zenon
<1>7. len \in Nat /\ len >= 1 /\ (num[1] = "0" => len = 1) /\ num # << >>
  <2>1. Base(m.letter) \in {8, 10, 16} /\ (m.letter = "X") \in BOOLEAN
    BY DEF Base
  <2>2. len >= 1 /\ (num[1] = "0" => len = 1)
    BY <1>3, <1>6, <2>1, NumberedIs, ZenonT(60)
  <2>3. len \in Nat /\ (num = << >> => len = 0)
    BY <1>3, LenProperties, EmptySeq, Zenon
  <2>4. len # 0
    <3> HIDE DEF len
    <3> QED
      BY <2>2, <2>3
  <2> QED
    BY <2>2, <2>3, <2>4, Zenon
<1>8. pad = s.before - len - sign
  BY Zenon DEF Padding
<1>9. text = IF m.zero THEN Sign(s, a) \o Repeat("0", pad) \o num
             ELSE Repeat(" ", pad) \o Sign(s, a) \o num
  BY <1>1, IntegerPrintIs, Zenon
<1>10. Sign(s, a) = SignOf(neg)
  BY Zenon DEF Sign, SignOf, Minus
<1>11. text = alt_log_private_printf(Fmt(m), m.arg)
  BY FormatExactly, Zenon
<1> HIDE DEF s, a, neg, v, num, pad, text
<1>12. sign \in {0, 1}
  OBVIOUS
<1> HIDE DEF sign
<1>13. /\ m.width \in Nat /\ s.before \in Int /\ (s.before > 0 => s.before = m.width)
       /\ (m.width > 0 => s.before = m.width)
  <2>1. s.before = (IF m.width = 0 THEN -1 ELSE m.width)
    BY <1>1, Zenon
  <2> QED
    BY <1>2, <2>1
<1>14. CASE m.zero
  <2> DEFINE z == Repeat("0", pad)
             ds == z \o num
             n == Len(z)
  <2>1. z \in Seq({"0"}) /\ n = (IF pad > 0 THEN pad ELSE 0) /\ (pad <= 0 => z = << >>)
    BY <1>3, RepeatIs, Zenon
  <2> HIDE DEF z
  <2>2. z \in Seq(DigitChars)
    <3>1. DigitChar(0, FALSE) = "0" /\ 0 \in 0 .. 15 /\ FALSE \in BOOLEAN
      BY DEF DigitChar
    <3>2. {"0"} \subseteq DigitChars
      BY <3>1, DigitCharIs, Zenon
    <3> QED
      BY <2>1, <3>2, SeqMonotonic, Zenon
  <2>3. ds \in Seq(DigitChars) /\ Len(ds) = n + len /\ n \in Nat
    BY <1>3, <2>2, ConcatProperties, LenProperties, Zenon
  <2>4. StandsFor(m, z, v)
    BY <1>3, <2>1, ValueOfFigures, Zenon
  <2>5. ValueOf(ds, m) = v
    BY <1>6, <2>4, Zenon DEF StandsFor
  <2>6. Width(n, pad, sign, s.before, len)
    BY <1>7, <1>8, <1>12, <1>13, <2>1, <2>3, WidthIs, Zenon
  <2>7. text = << >> \o (SignOf(neg) \o ds)
    <3> DEFINE E == DigitChars \cup {Minus}
    <3>1. DigitChars \subseteq E /\ Minus \in E
      BY Zenon
    <3> HIDE DEF E
    <3>2. SignOf(neg) \in Seq(E) /\ z \in Seq(E) /\ num \in Seq(E) /\ ds \in Seq(E)
      <4>1. <<Minus>> \in Seq(E) /\ << >> \in Seq(E)
        BY <3>1, OneElement, Zenon
      <4> QED
        BY <1>3, <2>2, <2>3, <3>1, <4>1, SeqMonotonic, Zenon DEF SignOf
    <3>3. Regroups(E, SignOf(neg), z, num)
      BY <3>2, Regroup, Zenon
    <3>4. SignOf(neg) \o ds \in Seq(E)
      BY <3>2, ConcatProperties, Zenon
    <3>5. << >> \o (SignOf(neg) \o ds) = SignOf(neg) \o ds
      BY <3>4, ConcatEmptySeq, Zenon
    <3>6. text = (SignOf(neg) \o z) \o num
      BY <1>9, <1>10, <1>14, Zenon DEF z
    <3> QED
      BY <3>3, <3>5, <3>6, Zenon DEF Regroups
  <2>8. << >> \in Seq({Blank}) /\ Len(<< >>) = 0
    BY EmptySeq
  <2>9. n + len >= 1 /\ (n + len = 0 \/ n + len # 0)
    <3> HIDE DEF n, len
    <3> QED
      BY <1>7, <2>3
  <2>10. ds # << >>
    <3>1. ds = << >> => Len(ds) = 0
      BY <2>8, Zenon
    <3>2. n + len # 0
      <4> HIDE DEF n, len
      <4> QED
        BY <1>7, <2>3
    <3> QED
      BY <2>3, <3>1, <3>2, Zenon
  <2> HIDE DEF ds, n
  <2>11. TextReads(text, 0, neg, ds)
    BY <1>4, <2>3, <2>7, <2>8, <2>10, ReadsBack, Zenon
  <2>12. Len(text) = 0 + sign + Len(ds)
    BY <2>11, Zenon DEF TextReads, sign
  <2> HIDE DEF len
  <2>13. Len(text) >= m.width /\ (pad > 0 => Len(text) = m.width)
    <3>1. Len(text) = 0 + sign + (n + len)
      BY <2>3, <2>12, Zenon
    <3>2. CASE pad > 0
      BY <1>7, <1>12, <1>13, <2>3, <2>6, <3>1, <3>2 DEF Width
    <3>3. CASE ~ (pad > 0)
      BY <1>3, <1>7, <1>12, <1>13, <2>3, <2>6, <3>1, <3>3 DEF Width
    <3> QED
      BY <3>2, <3>3
  <2>14. ds[1] = "0" => Len(ds) = 1 \/ Len(text) = m.width
    <3>1. CASE pad > 0
      BY <2>13, <3>1
    <3>2. CASE ~ (pad > 0)
      <4>1. pad <= 0
        BY <1>3, <3>2
      <4>2. ds = num
        BY <1>3, <2>1, <4>1, ConcatEmptySeq, Zenon DEF ds
      <4> QED
        BY <1>7, <4>2, Zenon DEF len
    <3> QED
      BY <3>1, <3>2
  <2>15. ~ (0 > 0)
    OBVIOUS
  <2>16. Displays(m, text, 0, neg, ds)
    BY <1>5, <1>14, <2>5, <2>10, <2>11, <2>13, <2>14, <2>15, Zenon DEF Displays
  <2> QED
    BY <1>4, <1>11, <2>16, RendersIf, Zenon
<1>15. CASE ~ m.zero
  <2> DEFINE b == Repeat(" ", pad)
             n == Len(b)
  <2>1. b \in Seq({Blank}) /\ n = (IF pad > 0 THEN pad ELSE 0)
    BY <1>3, RepeatIs, Zenon DEF Blank
  <2>a. text = (b \o SignOf(neg)) \o num
    BY <1>9, <1>10, <1>15, Zenon
  <2> HIDE DEF b
  <2>2. n \in Nat
    BY <2>1, LenProperties, Zenon
  <2>3. text = b \o (SignOf(neg) \o num)
    <3> DEFINE E == DigitChars \cup {Blank, Minus}
    <3>1. DigitChars \subseteq E /\ {Blank} \subseteq E /\ Minus \in E
      BY Zenon
    <3> HIDE DEF E
    <3>2. SignOf(neg) \in Seq(E) /\ b \in Seq(E) /\ num \in Seq(E)
      <4>1. <<Minus>> \in Seq(E) /\ << >> \in Seq(E)
        BY <3>1, OneElement, Zenon
      <4> QED
        BY <1>3, <2>1, <3>1, <4>1, SeqMonotonic, Zenon DEF SignOf
    <3>3. Regroups(E, b, SignOf(neg), num)
      BY <3>2, Regroup, Zenon
    <3> QED
      BY <2>a, <3>3, Zenon DEF Regroups
  <2>4. TextReads(text, n, neg, num)
    BY <1>3, <1>4, <1>7, <2>1, <2>3, ReadsBack, Zenon
  <2>5. Width(n, pad, sign, s.before, len)
    BY <1>7, <1>8, <1>12, <1>13, <2>1, <2>2, WidthIs, Zenon
  <2>6. Len(text) = n + sign + len
    BY <2>4, Zenon DEF TextReads, sign
  <2>7. ValueOf(num, m) = v
    <3>1. << >> \in Seq({"0"})
      BY EmptySeq, Zenon
    <3>2. StandsFor(m, << >>, v)
      BY <1>3, <3>1, ValueOfFigures, Zenon
    <3>3. << >> \o num = num
      BY <1>3, ConcatEmptySeq, Zenon
    <3> QED
      BY <1>6, <3>2, <3>3, Zenon DEF StandsFor
  <2> HIDE DEF n, len
  <2>8. Len(text) >= m.width /\ (n > 0 => Len(text) = m.width)
    <3>1. CASE pad > 0
      BY <1>7, <1>12, <1>13, <2>2, <2>5, <2>6, <3>1 DEF Width
    <3>2. CASE ~ (pad > 0)
      BY <1>3, <1>7, <1>12, <1>13, <2>2, <2>5, <2>6, <3>2 DEF Width
    <3> QED
      BY <3>1, <3>2
  <2>9. Displays(m, text, n, neg, num)
    BY <1>5, <1>7, <1>15, <2>4, <2>7, <2>8, Zenon DEF Displays, len
  <2> QED
    BY <1>4, <1>11, <2>9, RendersIf, Zenon
<1> QED
  BY <1>14, <1>15

LEMMA FormatsAreRendered == FormatsRender
<1> SUFFICES ASSUME NEW m \in Renderings
             PROVE  Renders(m, alt_log_private_printf(Fmt(m), m.arg))
  BY Zenon DEF FormatsRender
<1>1. Formatted(m)
  BY LogAssumption DEF Formatted, Letters
<1> QED
  BY <1>1, FormatRenders, Zenon

(* The minimal printf of the drivers writes the same hexadecimal digits: it *)
(* takes the nibbles from their places, where the log divides.              *)
PlaceOf(v, j) == (v \div PlaceValues[j + 1]) % 16
LastPlace == 268435456
TopIs(v, t)  == PlaceOf(v, t) # 0 /\ \A j \in t + 1 .. 7 : PlaceOf(v, j) = 0
Spelled(v, t) == [i \in 1 .. t + 1 |-> DigitChar(PlaceOf(v, t + 1 - i), FALSE)]

LEMMA NibbleDown == ASSUME NEW v \in Nat, NEW j \in 0 .. 6 PROVE PlaceOf(v, j + 1) = PlaceOf(v \div 16, j)
BY DEF PlaceOf, PlaceValues

LEMMA NibbleNone == ASSUME NEW v \in Nat, v < 16, NEW j \in 1 .. 7 PROVE PlaceOf(v, j) = 0
BY DEF PlaceOf, PlaceValues

LEMMA NibbleFirst ==
  ASSUME NEW v \in Nat
  PROVE  PlaceOf(v, 0) = v % 16 /\ (v < LastPlace => PlaceOf(v, 7) = 0)
BY DEF PlaceOf, PlaceValues, LastPlace

LEMMA NibbleIs ==
  ASSUME NEW v \in Nat, NEW j \in 0 .. 7
  PROVE  PlaceOf(v, j) \in 0 .. 15 /\ Nibbles[PlaceOf(v, j) + 1] = DigitChar(PlaceOf(v, j), FALSE)
<1>1. PlaceOf(v, j) \in 0 .. 15
  BY DEF PlaceOf, PlaceValues
<1>2. \A d \in 0 .. 15 : Nibbles[d + 1] = DigitChar(d, FALSE)
  BY DEF Nibbles, DigitChar
<1> QED
  BY <1>1, <1>2, Zenon

LEMMA HexIs ==
  ASSUME NEW v \in Nat, v # 0, NEW t \in 0 .. 7, TopIs(v, t)
  PROVE  Hex(v) = Spelled(v, t)
<1> DEFINE top == CHOOSE k \in 0 .. 7 : PlaceOf(v, k) # 0 /\ \A j \in k + 1 .. 7 : PlaceOf(v, j) = 0
<1>1. top \in 0 .. 7 /\ TopIs(v, top)
  BY Zenon DEF TopIs
<1>2. Hex(v) = [i \in 1 .. top + 1 |-> Nibbles[PlaceOf(v, top + 1 - i) + 1]]
  BY Zenon DEF Hex, PlaceOf
<1> HIDE DEF top
<1>3. top = t
  <2>1. \A a \in 0 .. 7, b \in 0 .. 7 : a = b \/ b \in a + 1 .. 7 \/ a \in b + 1 .. 7
    OBVIOUS
  <2> QED
    BY <1>1, <2>1, Zenon DEF TopIs
<1>4. ASSUME NEW i \in 1 .. t + 1
      PROVE  Nibbles[PlaceOf(v, t + 1 - i) + 1] = DigitChar(PlaceOf(v, t + 1 - i), FALSE)
  <2>1. t + 1 - i \in 0 .. 7
    OBVIOUS
  <2> QED
    BY <2>1, NibbleIs, Zenon
<1>5. Hex(v) = [i \in 1 .. t + 1 |-> Nibbles[PlaceOf(v, t + 1 - i) + 1]]
  BY <1>2, <1>3, Zenon
<1> HIDE DEF TopIs
<1> QED
  BY <1>4, <1>5, Zenon DEF Spelled

HexAgrees(v) ==
  /\ Hex(v) = Numbered(v, 16, FALSE)
  /\ v # 0 => \E t \in 0 .. 7 : TopIs(v, t) /\ Spelled(v, t) = Numbered(v, 16, FALSE)

LEMMA HexOfDigit == ASSUME NEW v \in Nat, v < 16 PROVE HexAgrees(v)
<1>1. Numbered(v, 16, FALSE) = <<DigitChar(v, FALSE)>>
  <2>1. 16 \in Nat /\ 16 > 1
    OBVIOUS
  <2> QED
    BY <2>1, NumberedUnfolds, Zenon
<1>2. CASE v = 0
  <2>1. Hex(0) = <<"0">>
    BY Zenon DEF Hex
  <2>2. DigitChar(0, FALSE) = "0"
    BY DEF DigitChar
  <2> QED
    BY <1>1, <1>2, <2>1, <2>2, Zenon DEF HexAgrees
<1>3. CASE v # 0
  <2>1. PlaceOf(v, 0) = v
    <3>1. v % 16 = v
      OBVIOUS
    <3> QED
      BY <3>1, NibbleFirst, Zenon
  <2>2. 0 \in 0 .. 7 /\ 0 + 1 = 1
    OBVIOUS
  <2>3. TopIs(v, 0)
    BY <1>3, <2>1, <2>2, NibbleNone, Zenon DEF TopIs
  <2>4. Spelled(v, 0) = <<DigitChar(v, FALSE)>>
    <3>1. \A i \in 1 .. 0 + 1 : 0 + 1 - i = 0
      OBVIOUS
    <3>2. Spelled(v, 0) = [i \in 1 .. 0 + 1 |-> DigitChar(v, FALSE)]
      BY <2>1, <3>1, Zenon DEF Spelled
    <3> DEFINE c == DigitChar(v, FALSE)
    <3> HIDE DEF c
    <3>3. [i \in 1 .. 0 + 1 |-> c] = <<c>>
      OBVIOUS
    <3> QED
      BY <3>2, <3>3, Zenon DEF c
  <2>5. Hex(v) = Spelled(v, 0)
    BY <1>3, <2>2, <2>3, HexIs, Zenon
  <2> QED
    BY <1>1, <2>2, <2>3, <2>4, <2>5, Zenon DEF HexAgrees
<1> QED
  BY <1>2, <1>3

LEMMA HexOfMore ==
  ASSUME NEW v \in Nat, v >= 16, NEW k \in Nat, k = v \div 16, k < LastPlace, k # 0, HexAgrees(k)
  PROVE  HexAgrees(v)
<1>1. PICK t \in 0 .. 7 : TopIs(k, t) /\ Spelled(k, t) = Numbered(k, 16, FALSE)
  BY Zenon DEF HexAgrees
<1> DEFINE r == v % 16
<1>2. t \in 0 .. 6 /\ t + 1 \in 0 .. 7 /\ v # 0
  <2>1. t # 7
    BY <1>1, NibbleFirst, Zenon DEF TopIs
  <2> QED
    BY <2>1
<1>3. \A j \in 0 .. 6 : PlaceOf(v, j + 1) = PlaceOf(k, j)
  BY NibbleDown, Zenon
<1>4. PlaceOf(v, 0) = r
  BY NibbleFirst, Zenon
<1>5. TopIs(v, t + 1)
  <2>1. PlaceOf(v, t + 1) # 0
    BY <1>1, <1>2, <1>3, Zenon DEF TopIs
  <2>2. ASSUME NEW j \in (t + 1) + 1 .. 7 PROVE PlaceOf(v, j) = 0
    <3>1. j - 1 \in 0 .. 6 /\ j - 1 \in t + 1 .. 7 /\ (j - 1) + 1 = j
      BY <1>2
    <3>2. PlaceOf(k, j - 1) = 0
      BY <1>1, <3>1, Zenon DEF TopIs
    <3>3. PlaceOf(v, (j - 1) + 1) = PlaceOf(k, j - 1)
      BY <1>3, <3>1, Zenon
    <3> QED
      BY <3>1, <3>2, <3>3, Zenon
  <2> QED
    BY <2>1, <2>2, Zenon DEF TopIs
<1>6. Numbered(v, 16, FALSE) = Append(Spelled(k, t), DigitChar(r, FALSE))
  <2>1. 16 \in Nat /\ 16 > 1 /\ ~ (v < 16)
    OBVIOUS
  <2>2. Numbered(v, 16, FALSE) = Append(Numbered(k, 16, FALSE), DigitChar(r, FALSE))
    BY <2>1, NumberedUnfolds, Zenon
  <2> QED
    BY <1>1, <2>2, Zenon
<1>7. Spelled(v, t + 1) = Append(Spelled(k, t), DigitChar(r, FALSE))
  <2> DEFINE f(i) == DigitChar(PlaceOf(v, (t + 1) + 1 - i), FALSE)
             g(i) == DigitChar(PlaceOf(k, t + 1 - i), FALSE)
             c == DigitChar(r, FALSE)
             n == t + 1
  <2>1. n \in Nat
    BY <1>2
  <2>2. ASSUME NEW i \in 1 .. n PROVE f(i) = g(i)
    <3>1. t + 1 - i \in 0 .. 6 /\ (t + 1 - i) + 1 = (t + 1) + 1 - i
      BY <1>2
    <3>2. PlaceOf(v, (t + 1 - i) + 1) = PlaceOf(k, t + 1 - i)
      BY <1>3, <3>1, Zenon
    <3> QED
      BY <3>1, <3>2, Zenon
  <2>3. f(n + 1) = c
    <3>1. (t + 1) + 1 - (n + 1) = 0
      OBVIOUS
    <3> QED
      BY <1>4, <3>1, Zenon
  <2>4. Spelled(v, t + 1) = [i \in 1 .. n + 1 |-> f(i)] /\ Spelled(k, t) = [i \in 1 .. n |-> g(i)]
    BY Zenon DEF Spelled
  <2> HIDE DEF f, g, c, n
  <2>5. [i \in 1 .. n + 1 |-> f(i)] = Append([i \in 1 .. n |-> g(i)], c)
    BY <2>1, <2>2, <2>3
  <2> QED
    BY <2>4, <2>5, Zenon DEF c
<1>8. Hex(v) = Spelled(v, t + 1)
  BY <1>2, <1>5, HexIs, Zenon
<1> QED
  BY <1>2, <1>5, <1>6, <1>7, <1>8, Zenon DEF HexAgrees

LEMMA HexIsNumbered ==
  ASSUME NEW v \in Nat, v \div 16 < LastPlace
  PROVE  HexAgrees(v)
<1> DEFINE Bad == {n \in Nat : n \div 16 < LastPlace /\ ~ HexAgrees(n)}
<1>1. SUFFICES ASSUME Bad # {} PROVE FALSE
  OBVIOUS
<1>2. PICK n \in Bad : \A j \in Bad : n <= j
  BY <1>1, LeastNatural
<1>3. n \in Nat /\ n \div 16 < LastPlace /\ ~ HexAgrees(n)
  BY <1>2, Zenon
<1>4. n >= 16
  <2>1. ~ (n < 16)
    BY <1>3, HexOfDigit, Zenon
  <2> QED
    BY <1>3, <2>1
<1> DEFINE k == n \div 16
<1>5. k \in Nat /\ k < n /\ k # 0 /\ k \div 16 < LastPlace
  <2>1. k \in Nat /\ k < n /\ k # 0
    BY <1>3, <1>4
  <2> HIDE DEF k
  <2>2. \A x \in Nat, y \in Nat : x < LastPlace /\ y < x => y < LastPlace
    BY DEF LastPlace
  <2>3. k < LastPlace
    BY <1>3, Zenon DEF k
  <2>4. k \div 16 \in Nat /\ k \div 16 < k
    BY <2>1
  <2> QED
    BY <2>1, <2>2, <2>3, <2>4, Zenon
<1>6. k \notin Bad
  <2>1. ~ (n <= k)
    BY <1>3, <1>5
  <2> QED
    BY <1>2, <2>1, Zenon
<1>7. HexAgrees(k)
  BY <1>5, <1>6, Zenon
<1>8. HexAgrees(n)
  BY <1>3, <1>4, <1>5, <1>7, HexOfMore, Zenon
<1> QED
  BY <1>3, <1>8, Zenon

LEMMA MinimalPrintf ==
  ASSUME NEW v, NEW E, Hex(v) \in Seq(E)
  PROVE  alt_printf(<<"%", "x">>, <<v>>) = Hex(v)
<1> DEFINE s    == <<"%", "x">>
           base == [escape |-> FALSE, out |-> << >>, args |-> <<v>>]
           op(w, c) == PrintfChar(w, c)
           g    == [T \in SUBSET (DOMAIN s) |->
                      IF T = {} THEN base
                      ELSE IF T = {1} THEN op(base, s[1])
                      ELSE IF T = {2} THEN op(base, s[2])
                      ELSE op(op(base, s[1]), s[2])]
<1>1. DOMAIN s = 1 .. 2 /\ s[1] = "%" /\ s[2] = "x"
  OBVIOUS
<1> HIDE DEF s, op, base
<1>2. ASSUME NEW T \in SUBSET (DOMAIN s), T # {}
      PROVE  \/ T = {1} /\ Max(T) = 1 /\ T \ {Max(T)} = {}
             \/ T = {2} /\ Max(T) = 2 /\ T \ {Max(T)} = {}
             \/ T = {1, 2} /\ Max(T) = 2 /\ T \ {Max(T)} = {1}
  <2>1. Max(T) \in T /\ \A i \in T : i <= Max(T)
    <3>1. 2 \in Nat /\ T \in SUBSET (1 .. 2)
      BY <1>1
    <3> QED
      BY <1>2, <3>1, Greatest, Zenon
  <2> DEFINE k == Max(T)
  <2>2. k \in T /\ \A i \in T : i <= k
    BY <2>1
  <2> HIDE DEF k
  <2>3. T \subseteq {1, 2}
    BY <1>1
  <2>4. \/ T = {1} /\ k = 1 /\ T \ {k} = {}
        \/ T = {2} /\ k = 2 /\ T \ {k} = {}
        \/ T = {1, 2} /\ k = 2 /\ T \ {k} = {1}
    BY <2>2, <2>3
  <2> QED
    BY <2>4 DEF k
<1>3. g = [T \in SUBSET (DOMAIN s) |-> IF T = {} THEN base ELSE op(g[T \ {Max(T)}], s[Max(T)])]
  <2>1. {} \in SUBSET (DOMAIN s) /\ {1} \in SUBSET (DOMAIN s) /\ {2} \in SUBSET (DOMAIN s)
        /\ {1, 2} \in SUBSET (DOMAIN s) /\ {1} # {} /\ {2} # {} /\ {1, 2} # {}
        /\ {2} # {1} /\ {1, 2} # {1} /\ {1, 2} # {2}
    <3>1. 1 # 2 /\ 1 \in {1} /\ 2 \notin {1} /\ 1 \notin {2} /\ 2 \in {2} /\ 1 \in {1, 2} /\ 2 \in {1, 2}
      OBVIOUS
    <3>2. {} # {1} /\ {} # {2} /\ {} # {1, 2} /\ {2} # {1} /\ {1, 2} # {1} /\ {1, 2} # {2}
      BY <3>1, Zenon
    <3>3. 1 \in DOMAIN s /\ 2 \in DOMAIN s
      BY <1>1
    <3>4. {} \subseteq DOMAIN s /\ {1} \subseteq DOMAIN s /\ {2} \subseteq DOMAIN s
          /\ {1, 2} \subseteq DOMAIN s
      BY <3>3, Zenon
    <3> QED
      BY <3>2, <3>4, Zenon
  <2>2. /\ g[{}] = base /\ g[{1}] = op(base, s[1]) /\ g[{2}] = op(base, s[2])
        /\ g[{1, 2}] = op(op(base, s[1]), s[2])
    BY <2>1
  <2> HIDE DEF g
  <2>3. ASSUME NEW T \in SUBSET (DOMAIN s)
        PROVE  g[T] = IF T = {} THEN base ELSE op(g[T \ {Max(T)}], s[Max(T)])
    <3>1. CASE T = {}
      BY <2>2, <3>1, Zenon
    <3>2. CASE T # {}
      BY <1>2, <2>2, <3>2, Zenon
    <3> QED
      BY <3>1, <3>2
  <2>4. g = [T \in SUBSET (DOMAIN s) |-> g[T]]
    BY DEF g
  <2> QED
    BY <2>3, <2>4, Zenon
<1> DEFINE D(h) == h = [T \in SUBSET (DOMAIN s) |->
                          IF T = {} THEN base ELSE op(h[T \ {Max(T)}], s[Max(T)])]
           h == CHOOSE f : D(f)
<1>4. alt_printf(s, <<v>>) = h[DOMAIN s].out
  BY DEF alt_printf, FoldLeft, MapThenFoldSet, op, base
<1>5. D(h)
  <2> HIDE DEF D, g
  <2>1. D(g)
    BY <1>3 DEF D
  <2> QED
    BY <2>1, Zenon
<1> HIDE DEF h
<1>6. h[{}] = base
  BY <1>5
<1>7. \A T \in SUBSET (DOMAIN s) : T # {} => h[T] = op(h[T \ {Max(T)}], s[Max(T)])
  BY <1>5
<1>8. h[DOMAIN s] = op(op(base, "%"), "x")
  <2>1. {1} # {} /\ {1} # {2} /\ {1} # {1, 2} /\ {1, 2} # {} /\ {1, 2} # {1} /\ {1, 2} # {2}
    <3>1. {1} # {} /\ {1, 2} # {}
      BY Zenon
    <3>2. 1 # 2 /\ 1 \in {1} /\ 2 \notin {1} /\ 1 \notin {2} /\ 1 \in {1, 2} /\ 2 \in {1, 2}
      OBVIOUS
    <3> QED
      BY <3>1, <3>2, Zenon
  <2>2. DOMAIN s = {1, 2}
    <3>1. DOMAIN s = 1 .. 2
      BY <1>1
    <3>2. 1 .. 2 = {1, 2}
      OBVIOUS
    <3> QED
      BY <3>1, <3>2, Zenon
  <2>3. {1} \in SUBSET (DOMAIN s) /\ {1, 2} \in SUBSET (DOMAIN s)
    BY <2>2, Zenon
  <2>4. Max({1}) = 1 /\ {1} \ {Max({1})} = {}
    BY <1>2, <2>1, <2>3, Zenon
  <2>5. Max({1, 2}) = 2 /\ {1, 2} \ {Max({1, 2})} = {1}
    BY <1>2, <2>1, <2>3, Zenon
  <2>6. h[{1}] = op(base, s[1])
    <3>1. h[{1}] = op(h[{1} \ {Max({1})}], s[Max({1})])
      BY <1>7, <2>1, <2>3, Zenon
    <3> QED
      BY <1>6, <2>4, <3>1, Zenon
  <2>7. h[{1, 2}] = op(h[{1}], s[2])
    <3>1. h[{1, 2}] = op(h[{1, 2} \ {Max({1, 2})}], s[Max({1, 2})])
      BY <1>7, <2>1, <2>3, Zenon
    <3> QED
      BY <2>5, <3>1, Zenon
  <2>8. s[1] = "%" /\ s[2] = "x"
    BY <1>1
  <2> QED
    BY <2>2, <2>6, <2>7, <2>8, Zenon
<1>9. op(op(base, "%"), "x").out = << >> \o Hex(v)
  <2>1. op(base, "%") = [base EXCEPT !.escape = TRUE]
    BY DEF op, base, PrintfChar
  <2> DEFINE t == [base EXCEPT !.escape = TRUE]
             u == [t EXCEPT !.escape = FALSE]
  <2>2. t.escape = TRUE /\ u.out = << >> /\ t.out = << >> /\ t.args = <<v>>
    BY DEF base
  <2>3. op(t, "x") = [u EXCEPT !.out = u.out \o Hex(Head(t.args)), !.args = Tail(u.args)]
    <3> HIDE DEF t
    <3> QED
      BY <2>2 DEF op, PrintfChar
  <2>4. op(t, "x").out = u.out \o Hex(Head(t.args))
    <3>1. u = [u EXCEPT !.escape = FALSE] /\ "out" \in DOMAIN u
      BY DEF base
    <3> HIDE DEF u, t
    <3> QED
      BY <2>3, <3>1
  <2>5. Head(<<v>>) = v
    OBVIOUS
  <2> QED
    BY <2>1, <2>2, <2>4, <2>5, Zenon
<1>10. << >> \o Hex(v) = Hex(v)
  BY ConcatEmptySeq, Zenon
<1> QED
  BY <1>4, <1>8, <1>9, <1>10, Zenon DEF s

LEMMA PrintfsDoAgree == PrintfsAgree
<1> SUFFICES ASSUME NEW n \in Renderings
             PROVE  alt_printf(<<"%", "x">>, <<n.arg>>) = alt_log_private_printf(<<"%", "x">>, n.arg)
  BY Zenon DEF PrintfsAgree
<1> DEFINE v == n.arg
           m == [zero |-> FALSE, width |-> 0, letter |-> "x", arg |-> v]
<1>1. v \in 0 .. WORD - 1 /\ v \in Nat /\ v \div 16 < LastPlace
  <2>1. v \in 0 .. WORD - 1
    BY LogAssumption
  <2> HIDE DEF v
  <2>2. v \div 16 <= (WORD - 1) \div 16
    BY <2>1, LogAssumption
  <2> QED
    BY <2>1, <2>2, LogAssumption DEF LastPlace
<1>2. HexAgrees(v)
  BY <1>1, HexIsNumbered, Zenon
<1>3. Formatted(m) /\ m.arg = v /\ m.zero = FALSE /\ m.width = 0 /\ m.letter = "x"
  <2>1. v \in 0 .. WORD - 1
    BY <1>1
  <2> HIDE DEF v
  <2> QED
    BY <2>1 DEF Formatted, Letters
<1> HIDE DEF m, v
<1>4. Fmt(m) = <<"%", "x">>
  <2> DEFINE E == {"%", "x"}
  <2>1. "%" \in E /\ "x" \in E
    OBVIOUS
  <2> HIDE DEF E
  <2>2. <<"%">> \in Seq(E) /\ <<"%">> \o << >> = <<"%">> /\ <<"%">> \o <<"x">> = <<"%", "x">>
    BY <2>1, OneElement, TwoElements, Zenon
  <2>3. Fmt(m) = ((<<"%">> \o << >>) \o << >>) \o <<"x">>
    BY <1>3, Zenon DEF Fmt
  <2> QED
    BY <2>2, <2>3, Zenon
<1> DEFINE s == Specified(m)
<1>5. s.zero = FALSE /\ s.base = 16 /\ s.before = -1 /\ s.upper = FALSE /\ s.signed = FALSE
      /\ s \in FmtStates(Logged)
  <2>1. s.zero = FALSE /\ s.base = 16 /\ s.before = -1 /\ s.upper = FALSE /\ s.signed = FALSE
    BY <1>3 DEF Specified, Machine, Base
  <2> QED
    BY <1>3, <2>1, SpecifiedIs, Zenon
<1> HIDE DEF s
<1>6. Negative(s, v) = FALSE /\ Magnitude(s, v) = v /\ Sign(s, v) = << >>
      /\ Figures(s, v) = Numbered(v, 16, FALSE)
  BY <1>5, Zenon DEF Negative, Magnitude, Sign, Figures
<1>7. Padding(s, v) \in Int /\ Figures(s, v) \in Seq(DigitChars)
  BY <1>1, <1>5, IntegerPrintTyped, Zenon
<1>8. Padding(s, v) <= 0
  <2>1. Padding(s, v) = -1 - Len(Figures(s, v)) - 0
    BY <1>5, <1>6, Zenon DEF Padding
  <2>2. Len(Figures(s, v)) \in Nat
    BY <1>7, LenProperties, Zenon
  <2> QED
    BY <2>1, <2>2
<1>9. IntegerPrint(s, v) = Numbered(v, 16, FALSE)
  <2>1. Repeat(" ", Padding(s, v)) = << >>
    BY <1>7, <1>8, RepeatIs, Zenon
  <2>2. IntegerPrint(s, v) = (<< >> \o << >>) \o Figures(s, v)
    BY <1>5, <1>6, <2>1, IntegerPrintIs, Zenon
  <2>3. << >> \o << >> = << >>
    OBVIOUS
  <2>4. << >> \o Figures(s, v) = Figures(s, v)
    BY <1>7, ConcatEmptySeq, Zenon
  <2> QED
    BY <1>6, <2>2, <2>3, <2>4, Zenon
<1>10. alt_log_private_printf(<<"%", "x">>, v) = Numbered(v, 16, FALSE)
  BY <1>3, <1>4, <1>9, FormatExactly, Zenon DEF s
<1>11. alt_printf(<<"%", "x">>, <<v>>) = Hex(v)
  <2>1. Hex(v) \in Seq(DigitChars)
    BY <1>2, <1>6, <1>7, Zenon DEF HexAgrees
  <2> QED
    BY <2>1, MinimalPrintf, Zenon
<1> QED
  BY <1>2, <1>10, <1>11, Zenon DEF HexAgrees, v
=============================================================================
