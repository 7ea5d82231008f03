-------------------------- MODULE AlarmClock_proofs --------------------------
(***************************************************************************)
(* The list of alarms and the tick interrupt that walks it, for any number *)
(* of alarms, any width of the tick counter, any delays and periods.       *)
(***************************************************************************)
EXTENDS AlarmClock, FiniteSetTheorems, WellFoundedInduction, TLAPS

-----------------------------------------------------------------------------
(* Every non-empty set of naturals has a least element.                    *)
LEMMA LeastNatural ==
  ASSUME NEW S \in SUBSET Nat, S # {}
  PROVE  \E n \in S : \A m \in S : n <= m
<1> DEFINE R == OpToRel(<, Nat)
<1>1. \A a, b \in Nat : a < b => <<a, b>> \in R
  BY DEF OpToRel
<1>2. IsWellFoundedOn(R, Nat)
  BY NatLessThanWellFounded
<1> HIDE DEF R
<1>3. PICK n \in S : \A m \in S : ~ (<<m, n>> \in R)
  BY <1>2, WFMin
<1>4. \A m \in S : ~ (m < n)
  BY <1>1, <1>3, Zenon
<1> QED
  BY <1>4

(* A number is what its quotient and its remainder say.                    *)
LEMMA Division ==
  ASSUME NEW a \in Nat, NEW b \in Nat \ {0}
  PROVE  /\ a \div b \in Nat /\ a % b \in 0 .. b - 1
         /\ a = b * (a \div b) + (a % b)
OBVIOUS

LEMMA Below ==
  ASSUME NEW b \in Nat \ {0}, NEW p \in Int, NEW q \in Int, b * p < b * q + b
  PROVE  p <= q
<1> SUFFICES ASSUME p >= q + 1 PROVE FALSE
  OBVIOUS
<1>1. p - q - 1 \in Nat /\ b \in Nat
  OBVIOUS
<1>2. b * (p - q - 1) >= 0
  BY <1>1
<1>3. b * (p - q - 1) = b * p - b * q - b
  BY <1>1
<1> QED
  BY <1>2, <1>3

LEMMA Quotient ==
  ASSUME NEW b \in Nat \ {0}, NEW q \in Nat, NEW r \in 0 .. b - 1
  PROVE  (b * q + r) \div b = q /\ (b * q + r) % b = r
<1> DEFINE a == b * q + r
           p == a \div b
           m == a % b
<1>1. b \in Nat /\ b * q \in Nat /\ a \in Nat
  OBVIOUS
<1>2. p \in Nat /\ m \in 0 .. b - 1 /\ a = b * p + m
  BY <1>1, Division
<1>3. b * p \in Int /\ b * q \in Int /\ b * p + m = b * q + r
  BY <1>1, <1>2
<1> HIDE DEF a, p, m
<1>4. p <= q
  BY <1>2, <1>3, Below
<1>5. q <= p
  BY <1>2, <1>3, Below
<1>6. p = q
  BY <1>2, <1>4, <1>5
<1>7. m = r
  BY <1>2, <1>3, <1>6
<1> QED
  BY <1>6, <1>7 DEF a, p, m

-----------------------------------------------------------------------------
(* The list is a ring: f[0] is the head, f[1] to f[n] are the alarms on it *)
(* in their order, f[n+1] is the head again.                               *)
Links == [next : [Nodes -> Nodes \cup {NULL}], previous : [Nodes -> Nodes \cup {NULL}]]

On(l) == {a \in Alarms : l.next[a] \notin {a, NULL}}

Ring(l, f, n) ==
  /\ n \in Nat /\ f \in [0 .. n + 1 -> Nodes]
  /\ f[0] = HEAD /\ f[n + 1] = HEAD
  /\ \A i \in 1 .. n : f[i] # HEAD
  /\ \A i, j \in 1 .. n : f[i] = f[j] => i = j
  /\ \A i \in 0 .. n : l.next[f[i]] = f[i + 1] /\ l.previous[f[i + 1]] = f[i]
  /\ \A a \in Alarms : (\A i \in 1 .. n : f[i] # a) =>
                          l.next[a] \in {a, NULL} /\ (l.next[a] = a => l.previous[a] = a)

(* What is on the list is what its links say.                              *)
LEMMA OnTheRing ==
  ASSUME NEW l \in Links, NEW f, NEW n, Ring(l, f, n)
  PROVE  /\ \A i \in 1 .. n : f[i] \in On(l)
         /\ \A a \in On(l) : \E i \in 1 .. n : f[i] = a
<1>1. ASSUME NEW i \in 1 .. n PROVE f[i] \in On(l)
  <2>1. f[i] \in Alarms /\ l.next[f[i]] = f[i + 1] /\ f[i + 1] \in Nodes /\ i + 1 \in 1 .. n + 1
    BY DEF Ring, Nodes
  <2>2. f[i + 1] # f[i]
    BY <2>1 DEF Ring
  <2> QED
    BY <2>1, <2>2, NodesAssumption DEF On, Nodes
<1> QED
  BY <1>1 DEF Ring, On

LEMMA Inserts ==
  ASSUME NEW l \in Links, NEW f, NEW n, Ring(l, f, n), NEW e \in Alarms \ On(l),
         NEW m, m = alt_llist_insert(l, e),
         NEW g, g = [i \in 0 .. n + 2 |-> IF i = 0 THEN HEAD ELSE IF i = 1 THEN e ELSE f[i - 1]]
  PROVE  m \in Links /\ Ring(m, g, n + 1)
<1> USE NodesAssumption
<1>1. n \in Nat /\ f \in [0 .. n + 1 -> Nodes] /\ f[0] = HEAD /\ f[n + 1] = HEAD
  BY DEF Ring
<1>2. l.next[HEAD] = f[1] /\ f[1] \in Nodes
  BY <1>1 DEF Ring
<1>3. /\ m.next = [l.next EXCEPT ![e] = f[1], ![HEAD] = e]
      /\ m.previous = [l.previous EXCEPT ![e] = HEAD, ![f[1]] = e]
      /\ m = [next |-> m.next, previous |-> m.previous]
  BY <1>2 DEF alt_llist_insert
<1>4. m \in Links
  BY <1>2, <1>3 DEF Links, Nodes
<1>5. \A x \in Nodes : /\ m.next[x] = IF x = HEAD THEN e ELSE IF x = e THEN f[1] ELSE l.next[x]
                       /\ m.previous[x] = IF x = f[1] THEN e ELSE IF x = e THEN HEAD ELSE l.previous[x]
  BY <1>2, <1>3 DEF Links, Nodes
<1>6. \A i \in 1 .. n : f[i] # e /\ f[i] # HEAD
  <2>1. \A i \in 1 .. n : f[i] \in On(l)
    BY OnTheRing
  <2> QED
    BY <2>1 DEF Ring
<1>7. /\ g \in [0 .. (n + 1) + 1 -> Nodes] /\ g[0] = HEAD /\ g[1] = e /\ g[(n + 1) + 1] = HEAD
      /\ \A i \in 2 .. n + 2 : g[i] = f[i - 1]
  BY <1>1 DEF Nodes
<1>8. \A i \in 1 .. n + 1 : g[i] # HEAD
  BY <1>1, <1>6, <1>7
<1>9. \A i, j \in 1 .. n + 1 : g[i] = g[j] => i = j
  <2> SUFFICES ASSUME NEW i \in 1 .. n + 1, NEW j \in 1 .. n + 1, g[i] = g[j] PROVE i = j
    OBVIOUS
  <2>1. CASE i = 1 \/ j = 1
    BY <1>1, <1>6, <1>7, <2>1
  <2>2. CASE i # 1 /\ j # 1
    <3>1. i - 1 \in 1 .. n /\ j - 1 \in 1 .. n /\ f[i - 1] = f[j - 1]
      BY <1>1, <1>7, <2>2
    <3>2. i - 1 = j - 1
      BY <3>1 DEF Ring
    <3> QED
      BY <3>2
  <2> QED
    BY <2>1, <2>2
<1>10. ASSUME NEW i \in 0 .. n + 1 PROVE m.next[g[i]] = g[i + 1] /\ m.previous[g[i + 1]] = g[i]
  <2>1. CASE i = 0
    BY <1>2, <1>5, <1>6, <1>7, <2>1, <1>1 DEF Nodes
  <2>2. CASE i = 1
    BY <1>2, <1>5, <1>7, <2>2, <1>1 DEF Nodes
  <2>3. CASE i > 1
    <3>1. i - 1 \in 1 .. n /\ g[i] = f[i - 1] /\ g[i + 1] = f[(i - 1) + 1]
      BY <1>1, <1>7, <2>3
    <3>2. l.next[f[i - 1]] = f[(i - 1) + 1] /\ l.previous[f[(i - 1) + 1]] = f[i - 1]
      BY <3>1, <1>1 DEF Ring
    <3>3. f[i - 1] # HEAD /\ f[i - 1] # e /\ f[(i - 1) + 1] # e /\ f[i - 1] \in Nodes
          /\ f[(i - 1) + 1] \in Nodes
      BY <1>1, <1>6, <3>1
    <3>4. f[(i - 1) + 1] # f[1]
      BY <1>1, <1>6, <3>1 DEF Ring
    <3> QED
      BY <1>5, <3>1, <3>2, <3>3, <3>4
  <2> QED
    BY <1>1, <2>1, <2>2, <2>3
<1>11. ASSUME NEW a \in Alarms, \A i \in 1 .. n + 1 : g[i] # a
       PROVE  m.next[a] \in {a, NULL} /\ (m.next[a] = a => m.previous[a] = a)
  <2>1. a # e /\ \A i \in 1 .. n : f[i] # a
    <3>1. a # e
      BY <1>1, <1>7, <1>11
    <3>2. ASSUME NEW i \in 1 .. n PROVE f[i] # a
      <4>1. i + 1 \in 1 .. n + 1 /\ g[i + 1] = f[(i + 1) - 1] /\ (i + 1) - 1 = i
        BY <1>1, <1>7
      <4> QED
        BY <4>1, <1>11
    <3> QED
      BY <3>1, <3>2
  <2>2. a # f[1] /\ a # HEAD
    BY <1>1, <2>1
  <2>3. m.next[a] = l.next[a] /\ m.previous[a] = l.previous[a]
    BY <1>5, <2>1, <2>2 DEF Nodes
  <2> QED
    BY <2>1, <2>3 DEF Ring
<1>12. n + 1 \in Nat /\ \A i \in 0 .. n + 1 : m.next[g[i]] = g[i + 1] /\ m.previous[g[i + 1]] = g[i]
  <2>1. n + 1 \in Nat
    BY <1>1
  <2> QED
    BY <1>10, <2>1, Zenon
<1> HIDE DEF Links
<1> QED
  BY <1>4, <1>7, <1>8, <1>9, <1>11, <1>12 DEF Ring

LEMMA Removes ==
  ASSUME NEW l \in Links, NEW f, NEW n, Ring(l, f, n), NEW k \in 1 .. n,
         NEW m, m = alt_llist_remove(l, f[k]),
         NEW g, g = [i \in 0 .. n |-> IF i < k THEN f[i] ELSE f[i + 1]]
  PROVE  m \in Links /\ Ring(m, g, n - 1) /\ m.next[f[k]] = f[k]
<1> USE NodesAssumption
<1> DEFINE e == f[k]
<1>1. /\ n \in Nat \ {0} /\ f \in [0 .. n + 1 -> Nodes] /\ f[0] = HEAD /\ f[n + 1] = HEAD
      /\ k - 1 \in 0 .. n /\ k + 1 \in 0 .. n + 1
  BY DEF Ring
<1>2. l.next[e] = f[k + 1] /\ l.previous[e] = f[k - 1]
  <2>1. (k - 1) + 1 = k /\ k \in 0 .. n
    BY <1>1
  <2> QED
    BY <1>1, <2>1 DEF Ring
<1>3. f[k + 1] \in Nodes /\ f[k - 1] \in Nodes /\ e \in Alarms /\ e \in Nodes /\ e # HEAD
  BY <1>1 DEF Ring, Nodes
<1>4. /\ m.next = [l.next EXCEPT ![f[k - 1]] = f[k + 1], ![e] = e]
      /\ m.previous = [l.previous EXCEPT ![f[k + 1]] = f[k - 1], ![e] = e]
      /\ m = [next |-> m.next, previous |-> m.previous]
  BY <1>2 DEF alt_llist_remove
<1>5. m \in Links
  BY <1>3, <1>4 DEF Links
<1>6. \A x \in Nodes :
        /\ m.next[x] = IF x = e THEN e ELSE IF x = f[k - 1] THEN f[k + 1] ELSE l.next[x]
        /\ m.previous[x] = IF x = e THEN e ELSE IF x = f[k + 1] THEN f[k - 1] ELSE l.previous[x]
  BY <1>3, <1>4 DEF Links
<1>7. ASSUME NEW i \in 0 .. n + 1 PROVE f[i] = e <=> i = k
  <2>1. CASE i \in 1 .. n
    BY <2>1 DEF Ring
  <2>2. CASE i \notin 1 .. n
    BY <1>1, <1>3, <2>2
  <2> QED
    BY <2>1, <2>2
<1>8. /\ g \in [0 .. (n - 1) + 1 -> Nodes] /\ g[0] = HEAD /\ g[(n - 1) + 1] = HEAD
      /\ \A i \in 0 .. k - 1 : g[i] = f[i]
      /\ \A i \in k .. n : g[i] = f[i + 1]
  BY <1>1
<1>9. \A i \in 1 .. n - 1 : g[i] # HEAD
  BY <1>1, <1>8 DEF Ring
<1>10. \A i, j \in 1 .. n - 1 : g[i] = g[j] => i = j
  <2> SUFFICES ASSUME NEW i \in 1 .. n - 1, NEW j \in 1 .. n - 1, g[i] = g[j] PROVE i = j
    OBVIOUS
  <2> DEFINE P(x) == IF x < k THEN x ELSE x + 1
  <2>1. P(i) \in 1 .. n /\ P(j) \in 1 .. n /\ f[P(i)] = f[P(j)]
    BY <1>1
  <2>2. P(i) = P(j)
    BY <2>1 DEF Ring
  <2> QED
    BY <1>1, <2>2
<1>11. ASSUME NEW i \in 0 .. n - 1 PROVE m.next[g[i]] = g[i + 1] /\ m.previous[g[i + 1]] = g[i]
  <2>1. CASE i = k - 1
    <3>1. g[i] = f[k - 1] /\ g[i + 1] = f[k + 1]
      BY <1>1, <1>8, <2>1
    <3>2. f[k - 1] # e /\ f[k + 1] # e
      BY <1>1, <1>7
    <3> QED
      BY <1>3, <1>6, <3>1, <3>2
  <2>2. CASE i # k - 1
    <3> DEFINE j == IF i < k THEN i ELSE i + 1
    <3>1. j \in 0 .. n /\ g[i] = f[j] /\ g[i + 1] = f[j + 1] /\ j # k /\ j + 1 # k
      BY <1>1, <1>8, <2>2
    <3>2. l.next[f[j]] = f[j + 1] /\ l.previous[f[j + 1]] = f[j]
      BY <3>1 DEF Ring
    <3>3. f[j] # e /\ f[j + 1] # e /\ f[j] \in Nodes /\ f[j + 1] \in Nodes
      BY <1>1, <1>7, <3>1
    <3>4. f[j] # f[k - 1]
      BY <1>1, <1>9, <3>1, <2>2 DEF Ring
    <3>5. f[j + 1] # f[k + 1]
      BY <1>1, <3>1, <2>2 DEF Ring
    <3> QED
      BY <1>6, <3>1, <3>2, <3>3, <3>4, <3>5
  <2> QED
    BY <2>1, <2>2
<1>12. ASSUME NEW a \in Alarms, \A i \in 1 .. n - 1 : g[i] # a
       PROVE  m.next[a] \in {a, NULL} /\ (m.next[a] = a => m.previous[a] = a)
  <2>1. CASE a = e
    BY <1>3, <1>6, <2>1
  <2>2. CASE a # e
    <3>1. ASSUME NEW i \in 1 .. n PROVE f[i] # a
      <4>1. CASE i < k
        <5>1. i \in 1 .. n - 1 /\ i \in 0 .. k - 1
          BY <1>1, <4>1
        <5>2. g[i] = f[i]
          BY <1>8, <5>1
        <5> QED
          BY <1>12, <5>1, <5>2
      <4>2. CASE i = k
        BY <2>2, <4>2
      <4>3. CASE i > k
        <5>1. i - 1 \in 1 .. n - 1 /\ i - 1 \in k .. n /\ (i - 1) + 1 = i
          BY <1>1, <4>3
        <5>2. g[i - 1] = f[i]
          BY <1>8, <5>1
        <5> QED
          BY <1>12, <5>1, <5>2
      <4> QED
        BY <1>1, <4>1, <4>2, <4>3
    <3>2. a # f[k - 1] /\ a # f[k + 1] /\ a \in Nodes
      BY <1>1, <3>1 DEF Nodes
    <3>3. m.next[a] = l.next[a] /\ m.previous[a] = l.previous[a]
      BY <1>6, <2>2, <3>2
    <3> QED
      BY <3>1, <3>3 DEF Ring
  <2> QED
    BY <2>1, <2>2
<1>13. m.next[e] = e
  BY <1>3, <1>6
<1>14. n - 1 \in Nat /\ \A i \in 0 .. n - 1 : m.next[g[i]] = g[i + 1] /\ m.previous[g[i + 1]] = g[i]
  <2>1. n - 1 \in Nat
    BY <1>1
  <2> QED
    BY <1>11, <2>1, Zenon
<1> QED
  BY <1>5, <1>8, <1>9, <1>10, <1>12, <1>13, <1>14 DEF Ring

(* Removing an alarm again is harmless.                                    *)
LEMMA RemovesAgain ==
  ASSUME NEW l \in Links, NEW e \in Alarms, l.next[e] = e, l.previous[e] = e
  PROVE  alt_llist_remove(l, e) = l
BY DEF alt_llist_remove, Links, Nodes

-----------------------------------------------------------------------------
(* The alarms on the list: one that the walk has still to come to goes off *)
(* after due ticks, or now, but its roll-over flag may be of the tick      *)
(* before; one that it has visited is as between two ticks.                *)
ClockRec == [links : Links, time : [Alarms -> 0 .. WORD - 1],
             rollover : [Alarms -> BOOLEAN], due : [Alarms -> 0 .. WORD - 1]]

Coming(c, a) == /\ c.time[a] = (nticks + c.due[a]) % WORD
                /\ nticks # 0 => c.rollover[a] = (nticks + c.due[a] >= WORD)

Visited(c, a) == /\ c.due[a] > 0
                 /\ c.time[a] = (nticks + c.due[a]) % WORD
                 /\ c.rollover[a] = (nticks + c.due[a] >= WORD)

\* The walk is at f[k]; before that, x is the alarm whose callback runs, or
\* the head.
Walk(c, f, n, k, x) ==
  /\ Ring(c.links, f, n) /\ k \in 1 .. n + 1
  /\ \A i \in 1 .. n : IF i < k THEN f[i] = x \/ Visited(c, f[i])
                                ELSE f[i] # x /\ Coming(c, f[i])

Cursor == IF ticking THEN alarm ELSE HEAD

AlarmIndInv == TypeOK /\ \E f, n, k : Walk(Clock, f, n, k, HEAD) /\ f[k] = Cursor

LEMMA Same ==
  ASSUME NEW c, NEW d, NEW a, d.time[a] = c.time[a], d.rollover[a] = c.rollover[a], d.due[a] = c.due[a]
  PROVE  (Visited(c, a) => Visited(d, a)) /\ (Coming(c, a) => Coming(d, a))
BY DEF Visited, Coming

(* The walk goes on where it would have, whatever comes to the front.      *)
LEMMA WalkInserts ==
  ASSUME NEW c \in ClockRec, NEW f, NEW n, NEW k, NEW x, Walk(c, f, n, k, x),
         NEW e \in Alarms \ On(c.links), NEW d \in ClockRec,
         d.links = alt_llist_insert(c.links, e), Visited(d, e),
         \A b \in Alarms \ {e} : /\ d.time[b] = c.time[b] /\ d.rollover[b] = c.rollover[b]
                                 /\ d.due[b] = c.due[b]
  PROVE  \E g : Walk(d, g, n + 1, k + 1, x) /\ g[k + 1] = f[k]
<1> DEFINE g == [i \in 0 .. n + 2 |-> IF i = 0 THEN HEAD ELSE IF i = 1 THEN e ELSE f[i - 1]]
<1>1. c.links \in Links /\ Ring(c.links, f, n) /\ k \in 1 .. n + 1 /\ n \in Nat
  BY DEF ClockRec, Walk, Ring
<1>2. Ring(d.links, g, n + 1)
  BY <1>1, Inserts
<1>3. \A i \in 2 .. n + 2 : g[i] = f[i - 1]
  BY <1>1
<1>4. g[1] = e
  BY <1>1
<1> HIDE DEF g
<1>5. ASSUME NEW i \in 2 .. n + 1
      PROVE  IF i < k + 1 THEN g[i] = x \/ Visited(d, g[i]) ELSE g[i] # x /\ Coming(d, g[i])
  <2>1. i - 1 \in 1 .. n /\ g[i] = f[i - 1] /\ (i < k + 1 <=> i - 1 < k)
    BY <1>1, <1>3
  <2>2. f[i - 1] \in On(c.links)
    BY <1>1, <2>1, OnTheRing
  <2>3. f[i - 1] \in Alarms \ {e}
    BY <2>2 DEF On
  <2>4. (Visited(c, g[i]) => Visited(d, g[i])) /\ (Coming(c, g[i]) => Coming(d, g[i]))
    BY <2>1, <2>3, Same
  <2>5. IF i - 1 < k THEN f[i - 1] = x \/ Visited(c, f[i - 1]) ELSE f[i - 1] # x /\ Coming(c, f[i - 1])
    BY <2>1 DEF Walk
  <2> QED
    BY <2>1, <2>4, <2>5
<1>6. ASSUME NEW i \in 1 .. n + 1
      PROVE  IF i < k + 1 THEN g[i] = x \/ Visited(d, g[i]) ELSE g[i] # x /\ Coming(d, g[i])
  <2>1. CASE i = 1
    BY <1>1, <1>4, <2>1
  <2>2. CASE i # 1
    BY <1>1, <1>5, <2>2
  <2> QED
    BY <2>1, <2>2
<1>7. k + 1 \in 1 .. (n + 1) + 1 /\ g[k + 1] = f[k]
  <2>1. k + 1 \in 2 .. n + 2 /\ (k + 1) - 1 = k
    BY <1>1
  <2> QED
    BY <1>1, <1>3, <2>1
<1>8. Walk(d, g, n + 1, k + 1, x)
  BY <1>2, <1>6, <1>7 DEF Walk
<1> QED
  BY <1>7, <1>8

(* ... and whatever but the next is taken away.                            *)
LEMMA WalkRemoves ==
  ASSUME NEW c \in ClockRec, NEW f, NEW n, NEW k, NEW x, Walk(c, f, n, k, x),
         NEW m \in 1 .. n, m # k, NEW d \in ClockRec,
         d.links = alt_llist_remove(c.links, f[m]),
         \A b \in Alarms \ {f[m]} : /\ d.time[b] = c.time[b] /\ d.rollover[b] = c.rollover[b]
                                    /\ d.due[b] = c.due[b]
  PROVE  \E g, j : /\ Walk(d, g, n - 1, j, x) /\ g[j] = f[k]
                   /\ \A i \in 1 .. n - 1 : g[i] # f[m]
<1> DEFINE g == [i \in 0 .. n |-> IF i < m THEN f[i] ELSE f[i + 1]]
           j == IF m < k THEN k - 1 ELSE k
<1>1. c.links \in Links /\ Ring(c.links, f, n) /\ k \in 1 .. n + 1 /\ n \in Nat
  BY DEF ClockRec, Walk, Ring
<1>2. Ring(d.links, g, n - 1)
  BY <1>1, Removes
<1>3. \A i \in 0 .. n : g[i] = IF i < m THEN f[i] ELSE f[i + 1]
  BY <1>1
<1> HIDE DEF g
<1>4. ASSUME NEW i \in 1 .. n - 1
      PROVE  /\ IF i < j THEN g[i] = x \/ Visited(d, g[i]) ELSE g[i] # x /\ Coming(d, g[i])
             /\ g[i] # f[m]
  <2> DEFINE h == IF i < m THEN i ELSE i + 1
  <2>1. h \in 1 .. n /\ g[i] = f[h] /\ (i < j <=> h < k) /\ h # m
    BY <1>1, <1>3
  <2>2. f[h] \in On(c.links)
    BY <1>1, <2>1, OnTheRing
  <2>3. f[h] \in Alarms \ {f[m]}
    <3>1. f[h] # f[m]
      BY <1>1, <2>1 DEF Ring
    <3> QED
      BY <2>2, <3>1 DEF On
  <2>4. (Visited(c, g[i]) => Visited(d, g[i])) /\ (Coming(c, g[i]) => Coming(d, g[i]))
    BY <2>1, <2>3, Same
  <2>5. IF h < k THEN f[h] = x \/ Visited(c, f[h]) ELSE f[h] # x /\ Coming(c, f[h])
    BY <2>1 DEF Walk
  <2> HIDE DEF h, j
  <2> QED
    BY <2>1, <2>3, <2>4, <2>5
<1>5. j \in 1 .. (n - 1) + 1 /\ g[j] = f[k]
  BY <1>1, <1>3
<1> HIDE DEF j
<1>6. Walk(d, g, n - 1, j, x)
  BY <1>2, <1>4, <1>5 DEF Walk
<1> QED
  BY <1>4, <1>5, <1>6

(* The tick counter.                                                       *)
LEMMA Wraps ==
  ASSUME NEW a \in Nat, a < 2 * WORD
  PROVE  a % WORD = IF a < WORD THEN a ELSE a - WORD
BY WordAssumption

LEMMA ExpiresWhenDue ==
  ASSUME NEW a \in Alarms, TypeOK, Coming(Clock, a)
  PROVE  /\ Expired(a) <=> due[a] = 0
         /\ Held(a) <=> nticks + due[a] >= WORD
<1>1. /\ nticks \in 0 .. WORD - 1 /\ due[a] \in 0 .. WORD - 1 /\ rollover[a] \in BOOLEAN
      /\ time[a] = (nticks + due[a]) % WORD
      /\ nticks # 0 => rollover[a] = (nticks + due[a] >= WORD)
  BY DEF TypeOK, Coming, Clock
<1>2. time[a] = IF nticks + due[a] < WORD THEN nticks + due[a] ELSE nticks + due[a] - WORD
  BY <1>1, Wraps, WordAssumption
<1> QED
  BY <1>1, <1>2, WordAssumption DEF Expired, Held

LEMMA LinksOK ==
  ASSUME NEW l \in Links, NEW e \in Alarms
  PROVE  alt_llist_insert(l, e) \in Links /\ alt_llist_remove(l, e) \in Links
BY NodesAssumption DEF alt_llist_insert, alt_llist_remove, Links, Nodes

LEMMA StartsVisited ==
  ASSUME TypeOK, NEW c \in ClockRec, NEW a \in Alarms, NEW n \in Delays,
         NEW d, d = alt_alarm_start(c, a, n)
  PROVE  /\ d \in ClockRec /\ Visited(d, a) /\ d.links = alt_llist_insert(c.links, a)
         /\ \A b \in Alarms \ {a} : /\ d.time[b] = c.time[b] /\ d.rollover[b] = c.rollover[b]
                                    /\ d.due[b] = c.due[b]
<1> DEFINE t == (n + nticks + 1) % WORD
<1>1. n \in 0 .. WORD - 2 /\ nticks \in 0 .. WORD - 1 /\ n + 1 \in 1 .. WORD - 1
  BY PeriodAssumption, WordAssumption DEF TypeOK
<1>2. t = IF n + nticks + 1 < WORD THEN n + nticks + 1 ELSE n + nticks + 1 - WORD
  BY <1>1, Wraps, WordAssumption
<1>3. t \in 0 .. WORD - 1 /\ (t < nticks <=> nticks + (n + 1) >= WORD) /\ t = (nticks + (n + 1)) % WORD
  BY <1>1, <1>2, WordAssumption
<1>4. (t < nticks) \in BOOLEAN
  OBVIOUS
<1> HIDE DEF t
<1>5. d = [links    |-> alt_llist_insert(c.links, a),
           time     |-> [c.time EXCEPT ![a] = t],
           rollover |-> [c.rollover EXCEPT ![a] = t < nticks],
           due      |-> [c.due EXCEPT ![a] = n + 1]]
  BY DEF alt_alarm_start, t
<1>6. d \in ClockRec
  BY <1>1, <1>3, <1>4, <1>5, LinksOK, WordAssumption DEF ClockRec
<1>7. d.due[a] = n + 1 /\ d.time[a] = t /\ d.rollover[a] = (t < nticks)
  BY <1>5 DEF ClockRec
<1>8. Visited(d, a)
  BY <1>1, <1>3, <1>7 DEF Visited
<1>9. d.links = alt_llist_insert(c.links, a)
  BY <1>5
<1>10. \A b \in Alarms \ {a} : /\ d.time[b] = c.time[b] /\ d.rollover[b] = c.rollover[b]
                               /\ d.due[b] = c.due[b]
  BY <1>5 DEF ClockRec
<1> QED
  BY <1>6, <1>8, <1>9, <1>10

LEMMA Stops ==
  ASSUME NEW c \in ClockRec, NEW a \in Alarms, NEW d, d = alt_alarm_stop(c, a)
  PROVE  /\ d \in ClockRec /\ d.links = alt_llist_remove(c.links, a)
         /\ d.time = c.time /\ d.rollover = c.rollover
         /\ \A b \in Alarms \ {a} : d.due[b] = c.due[b]
<1>1. d.links = alt_llist_remove(c.links, a) /\ d.time = c.time /\ d.rollover = c.rollover
      /\ d.due = [c.due EXCEPT ![a] = 0]
      /\ d = [links |-> d.links, time |-> d.time, rollover |-> d.rollover, due |-> d.due]
  BY DEF alt_alarm_stop, ClockRec
<1>2. 0 \in 0 .. WORD - 1 /\ d.links \in Links
  BY <1>1, LinksOK, WordAssumption DEF ClockRec
<1>3. /\ d.time \in [Alarms -> 0 .. WORD - 1] /\ d.rollover \in [Alarms -> BOOLEAN]
      /\ d.due \in [Alarms -> 0 .. WORD - 1]
  BY <1>1, <1>2 DEF ClockRec
<1>4. d \in ClockRec
  BY <1>1, <1>2, <1>3 DEF ClockRec
<1> QED
  BY <1>1, <1>4 DEF ClockRec

(* The callback of a is about to return: what alt_tick() then does, and    *)
(* the walk goes on.                                                       *)
Called(c, a, x) ==
  /\ c \in ClockRec /\ c.time[a] = nticks /\ c.rollover[a] = FALSE /\ c.links.next[a] # NULL
  /\ \E f, n, k : Walk(c, f, n, k, a) /\ f[k] = x

\* None is excepted once a is off the list, or as it should be.
LEMMA WalkOfAll ==
  ASSUME NEW c, NEW f, NEW n, NEW k, NEW a, Walk(c, f, n, k, a),
         \A i \in 1 .. n : f[i] = a => Visited(c, a)
  PROVE  Walk(c, f, n, k, HEAD)
BY DEF Walk, Ring

LEMMA Repeats ==
  ASSUME TypeOK, NEW c, NEW a \in Alarms, NEW x, Called(c, a, x), NEW p \in Periods,
         NEW d, d = Again(c, a, p)
  PROVE  d \in ClockRec /\ \E f, n, k : Walk(d, f, n, k, HEAD) /\ f[k] = x
<1>1. p \in 1 .. WORD - 1 /\ nticks \in 0 .. WORD - 1 /\ c \in ClockRec /\ c.time[a] = nticks
      /\ c.rollover[a] = FALSE
  BY PeriodAssumption DEF TypeOK, Called
<1> DEFINE t == (nticks + p) % WORD
<1>2. t = IF nticks + p < WORD THEN nticks + p ELSE nticks + p - WORD
  BY <1>1, Wraps, WordAssumption
<1>3. t \in 0 .. WORD - 1 /\ (t < nticks <=> nticks + p >= WORD)
  BY <1>1, <1>2, WordAssumption
<1>4. /\ d.links = c.links /\ d.time = [c.time EXCEPT ![a] = t]
      /\ d.rollover = [c.rollover EXCEPT ![a] = (t < nticks)] /\ d.due = [c.due EXCEPT ![a] = p]
      /\ d = [links |-> d.links, time |-> d.time, rollover |-> d.rollover, due |-> d.due]
  <2>1. p # 0 /\ (c.rollover[a] \/ t < nticks) = (t < nticks)
    BY <1>1
  <2>2. (c.time[a] + p) % WORD = t
    BY <1>1
  <2>3. d = [c EXCEPT !.time[a] = t, !.rollover[a] = c.rollover[a] \/ t < nticks, !.due[a] = p]
    BY <2>1, <2>2 DEF Again
  <2> HIDE DEF t
  <2> QED
    BY <1>1, <2>1, <2>3 DEF ClockRec
<1>5. (t < nticks) \in BOOLEAN
  OBVIOUS
<1> HIDE DEF t
<1>6. d \in ClockRec
  <2>1. /\ d.links \in Links /\ d.time \in [Alarms -> 0 .. WORD - 1]
        /\ d.rollover \in [Alarms -> BOOLEAN]
    BY <1>1, <1>3, <1>4, <1>5 DEF ClockRec
  <2>2. p \in 0 .. WORD - 1
    BY <1>1
  <2>3. d.due \in [Alarms -> 0 .. WORD - 1]
    BY <1>1, <1>4, <2>2 DEF ClockRec
  <2> QED
    BY <1>4, <2>1, <2>3 DEF ClockRec
<1>7. Visited(d, a)
  <2>1. d.due[a] = p /\ d.time[a] = t /\ d.rollover[a] = (t < nticks)
    BY <1>1, <1>4 DEF ClockRec
  <2> QED
    BY <1>1, <1>3, <2>1 DEF Visited, t
<1>8. \A b \in Alarms \ {a} : /\ d.time[b] = c.time[b] /\ d.rollover[b] = c.rollover[b]
                              /\ d.due[b] = c.due[b]
  BY <1>1, <1>4 DEF ClockRec
<1>9. PICK f, n, k : Walk(c, f, n, k, a) /\ f[k] = x
  BY DEF Called
<1>10. Walk(d, f, n, k, a)
  <2>1. \A i \in 1 .. n : f[i] \in Alarms
    BY <1>9 DEF Walk, Ring, Nodes
  <2>2. \A i \in 1 .. n : f[i] # a => (Visited(c, f[i]) => Visited(d, f[i]))
                                      /\ (Coming(c, f[i]) => Coming(d, f[i]))
    BY <1>8, <2>1, Same
  <2> QED
    BY <1>4, <1>9, <2>2 DEF Walk
<1>11. Walk(d, f, n, k, HEAD)
  BY <1>7, <1>10, WalkOfAll
<1> QED
  BY <1>6, <1>9, <1>11

LEMMA Ends ==
  ASSUME TypeOK, NEW c, NEW a \in Alarms, NEW x, Called(c, a, x),
         NEW d, d = Again(c, a, 0)
  PROVE  d \in ClockRec /\ \E f, n, k : Walk(d, f, n, k, HEAD) /\ f[k] = x
<1>1. c \in ClockRec /\ c.links \in Links /\ c.links.next[a] # NULL
  BY DEF Called, ClockRec
<1>2. /\ d \in ClockRec /\ d.links = alt_llist_remove(c.links, a)
      /\ d.time = c.time /\ d.rollover = c.rollover
      /\ \A b \in Alarms \ {a} : d.due[b] = c.due[b]
  <2>1. d = alt_alarm_stop(c, a)
    BY DEF Again
  <2> QED
    BY <1>1, <2>1, Stops
<1>3. PICK f, n, k : Walk(c, f, n, k, a) /\ f[k] = x
  BY DEF Called
<1>4. CASE \E m \in 1 .. n : f[m] = a
  <2>1. PICK m \in 1 .. n : f[m] = a
    BY <1>4
  <2>2. m # k
    BY <1>3, <2>1 DEF Walk
  <2>3. \E g, j : /\ Walk(d, g, n - 1, j, a) /\ g[j] = f[k] /\ \A i \in 1 .. n - 1 : g[i] # f[m]
    BY <1>1, <1>2, <1>3, <2>1, <2>2, WalkRemoves
  <2>4. PICK g, j : /\ Walk(d, g, n - 1, j, a) /\ g[j] = f[k] /\ \A i \in 1 .. n - 1 : g[i] # f[m]
    BY <2>3
  <2>5. Walk(d, g, n - 1, j, HEAD)
    BY <2>1, <2>4, WalkOfAll
  <2> QED
    BY <1>2, <1>3, <2>4, <2>5
<1>5. CASE ~ \E m \in 1 .. n : f[m] = a
  <2>1. c.links.next[a] = a /\ c.links.previous[a] = a
    BY <1>1, <1>3, <1>5 DEF Walk, Ring
  <2>2. d.links = c.links
    BY <1>1, <1>2, <2>1, RemovesAgain
  <2>3. \A i \in 1 .. n : f[i] \in Alarms
    BY <1>3 DEF Walk, Ring, Nodes
  <2>4. \A i \in 1 .. n : (Visited(c, f[i]) => Visited(d, f[i])) /\ (Coming(c, f[i]) => Coming(d, f[i]))
    BY <1>2, <1>5, <2>3, Same
  <2>5. Walk(d, f, n, k, a)
    BY <1>3, <2>2, <2>4 DEF Walk
  <2>6. Walk(d, f, n, k, HEAD)
    BY <1>5, <2>5, WalkOfAll
  <2> QED
    BY <1>2, <1>3, <2>6
<1> QED
  BY <1>4, <1>5

-----------------------------------------------------------------------------
(* The steps.                                                              *)
LEMMA ClockOK == TypeOK => /\ Clock \in ClockRec /\ Clock.links = links /\ Clock.due = due
                           /\ Registered = On(Clock.links)
BY DEF TypeOK, Clock, ClockRec, Links, Registered, On

LEMMA Moves ==
  ASSUME NEW d, Clock' = d, nticks' = nticks, NEW f, NEW n, NEW k, NEW x, Walk(d, f, n, k, x)
  PROVE  Walk(Clock, f, n, k, x)'
BY DEF Walk, Visited, Coming

LEMMA Commits ==
  ASSUME NEW d \in ClockRec, Commit(d)
  PROVE  /\ Clock' = d
         /\ links' \in Links /\ time' \in [Alarms -> 0 .. WORD - 1]
         /\ rollover' \in [Alarms -> BOOLEAN] /\ due' \in [Alarms -> 0 .. WORD - 1]
BY DEF Commit, Clock, ClockRec

LEMMA CallbackCalled ==
  ASSUME ~ StopsNext, TypeOK, NEW f, NEW n, NEW k, Walk(Clock, f, n, k, HEAD), f[k] = alarm,
         alarm # HEAD, Expired(alarm),
         NEW c \in Callback([Clock EXCEPT !.rollover[alarm] = FALSE], alarm)
  PROVE  Called(c, alarm, links.next[alarm])
<1> DEFINE a == alarm
           b == [Clock EXCEPT !.rollover[alarm] = FALSE]
<1>1. /\ n \in Nat /\ k \in 1 .. n + 1 /\ Ring(links, f, n) /\ Ring(b.links, f, n) /\ links \in Links
      /\ b.links = links /\ Clock \in ClockRec /\ Clock.links = links /\ a \in Alarms
  <2>1. Clock \in ClockRec /\ Clock.links = links
    BY ClockOK
  <2>2. b.links = Clock.links
    BY <2>1 DEF ClockRec
  <2>3. a \in Alarms
    BY DEF TypeOK, Nodes
  <2> QED
    BY <2>1, <2>2, <2>3 DEF Walk, Ring, ClockRec
<1>2. k \in 1 .. n
  BY <1>1 DEF Ring
<1>3. k + 1 \in 1 .. n + 1 /\ links.next[a] = f[k + 1] /\ links.next[a] # NULL /\ a \in On(links)
  <2>1. k \in 0 .. n
    BY <1>2
  <2>2. links.next[f[k]] = f[k + 1]
    BY <1>1, <2>1 DEF Ring
  <2>3. f[k] \in On(links)
    BY <1>1, <1>2, OnTheRing
  <2> QED
    BY <1>1, <1>2, <2>2, <2>3 DEF On
<1>4. Coming(Clock, a)
  <2>1. IF k < k THEN f[k] = HEAD \/ Visited(Clock, f[k]) ELSE f[k] # HEAD /\ Coming(Clock, f[k])
    BY <1>2 DEF Walk
  <2> QED
    BY <1>2, <2>1
<1>5. due[a] = 0 /\ time[a] = nticks
  <2>1. due[a] = 0
    BY <1>1, <1>4, ExpiresWhenDue
  <2>2. time[a] = (nticks + due[a]) % WORD /\ nticks \in 0 .. WORD - 1
    BY <1>4 DEF Coming, Clock, TypeOK
  <2> QED
    BY <2>1, <2>2, Wraps, WordAssumption
<1>6. /\ b \in ClockRec /\ b.time[a] = nticks /\ b.rollover[a] = FALSE
      /\ \A e \in Alarms \ {a} : /\ b.time[e] = Clock.time[e] /\ b.rollover[e] = Clock.rollover[e]
                                 /\ b.due[e] = Clock.due[e]
  <2>1. Clock.time[a] = nticks
    BY <1>5 DEF Clock
  <2> QED
    BY <1>1, <2>1 DEF ClockRec
<1> HIDE DEF b
<1>7. Walk(b, f, n, k + 1, a)
  <2>1. ASSUME NEW i \in 1 .. n
        PROVE  IF i < k + 1 THEN f[i] = a \/ Visited(b, f[i]) ELSE f[i] # a /\ Coming(b, f[i])
    <3>1. f[i] \in Alarms /\ f[i] # HEAD
      BY <1>1 DEF Ring, Nodes
    <3>2. f[i] = a <=> i = k
      BY <1>1, <1>2 DEF Ring
    <3>3. IF i < k THEN f[i] = HEAD \/ Visited(Clock, f[i]) ELSE f[i] # HEAD /\ Coming(Clock, f[i])
      BY DEF Walk
    <3>4. f[i] # a => (Visited(Clock, f[i]) => Visited(b, f[i])) /\ (Coming(Clock, f[i]) => Coming(b, f[i]))
      BY <1>6, <3>1, Same
    <3> QED
      BY <1>2, <3>1, <3>2, <3>3, <3>4
  <2> QED
    BY <1>1, <1>3, <2>1 DEF Walk
<1>8. CASE c = b
  BY <1>1, <1>3, <1>6, <1>7, <1>8 DEF Called
<1>9. CASE \E e \in Registered : (e = links.next[a] => StopsNext) /\ c = alt_alarm_stop(b, e)
  <2>1. PICK e \in Registered : e # links.next[a] /\ c = alt_alarm_stop(b, e)
    BY <1>9
  <2>2. e \in On(links) /\ e \in Alarms
    BY <2>1, ClockOK DEF On
  <2>3. PICK m \in 1 .. n : f[m] = e
    BY <1>1, <2>2, OnTheRing
  <2>4. m # k + 1
    BY <1>3, <2>1, <2>3
  <2>5. /\ c \in ClockRec /\ c.links = alt_llist_remove(links, f[m])
        /\ c.time = b.time /\ c.rollover = b.rollover
        /\ \A x \in Alarms \ {e} : c.due[x] = b.due[x]
    BY <1>1, <1>6, <2>1, <2>2, <2>3, Stops
  <2>6. \E g, j : /\ Walk(c, g, n - 1, j, a) /\ g[j] = f[k + 1]
                  /\ \A i \in 1 .. n - 1 : g[i] # f[m]
    BY <1>1, <1>6, <1>7, <2>3, <2>4, <2>5, WalkRemoves
  <2>7. c.links.next[a] # NULL
    <3>1. links.next[e] = f[m + 1] /\ f[m + 1] \in Nodes
      <4>1. m \in 0 .. n /\ m + 1 \in 0 .. n + 1
        BY <1>1
      <4> QED
        BY <1>1, <2>3, <4>1 DEF Ring
    <3>2. c.links.next = [links.next EXCEPT ![links.previous[e]] = links.next[e], ![e] = e]
      BY <2>3, <2>5 DEF alt_llist_remove
    <3>3. e # NULL /\ links.next[e] # NULL /\ a \in Nodes
      BY <1>1, <2>2, <3>1, NodesAssumption DEF Nodes
    <3> QED
      BY <1>1, <1>3, <3>2, <3>3 DEF Links
  <2> QED
    BY <1>3, <1>6, <2>5, <2>6, <2>7 DEF Called
<1>10. CASE \E e \in Alarms \ Registered, d \in Delays : c = alt_alarm_start(b, e, d)
  <2>1. PICK e \in Alarms \ Registered, d \in Delays : c = alt_alarm_start(b, e, d)
    BY <1>10
  <2>2. e \in Alarms \ On(b.links) /\ e # a
    BY <1>1, <1>3, <2>1, ClockOK
  <2>3. /\ c \in ClockRec /\ Visited(c, e) /\ c.links = alt_llist_insert(b.links, e)
        /\ \A x \in Alarms \ {e} : /\ c.time[x] = b.time[x] /\ c.rollover[x] = b.rollover[x]
                                   /\ c.due[x] = b.due[x]
    BY <1>6, <2>1, StartsVisited
  <2>4. \E g : Walk(c, g, n + 1, (k + 1) + 1, a) /\ g[(k + 1) + 1] = f[k + 1]
    BY <1>6, <1>7, <2>2, <2>3, WalkInserts
  <2>5. c.links.next[a] # NULL
    <3>1. c.links.next = [links.next EXCEPT ![e] = links.next[HEAD], ![HEAD] = e]
      BY <1>1, <2>3 DEF alt_llist_insert
    <3>2. a # HEAD /\ a \in Nodes
      BY <1>1, NodesAssumption DEF Nodes
    <3> QED
      BY <1>1, <1>3, <2>2, <3>1, <3>2 DEF Links
  <2> QED
    BY <1>1, <1>3, <1>6, <2>2, <2>3, <2>4, <2>5 DEF Called
<1>11. c \in Callback(b, a)
  BY DEF b
<1> QED
  <2> DEFINE S == {e \in Registered : e = links.next[a] => StopsNext}
  <2>1. \/ c = b \/ c \in {alt_alarm_stop(b, e) : e \in S}
        \/ c \in {alt_alarm_start(b, e, d) : e \in Alarms \ Registered, d \in Delays}
    BY <1>11 DEF Callback
  <2>2. c \in {alt_alarm_stop(b, e) : e \in S} =>
          \E e \in Registered : (e = links.next[a] => StopsNext) /\ c = alt_alarm_stop(b, e)
    OBVIOUS
  <2>3. c \in {alt_alarm_start(b, e, d) : e \in Alarms \ Registered, d \in Delays} =>
          \E e \in Alarms \ Registered, d \in Delays : c = alt_alarm_start(b, e, d)
    OBVIOUS
  <2> QED
    BY <1>8, <1>9, <1>10, <2>1, <2>2, <2>3

LEMMA FireHolds == ~ StopsNext /\ AlarmIndInv /\ TickFire => AlarmIndInv'
<1> SUFFICES ASSUME ~ StopsNext, AlarmIndInv, TickFire PROVE AlarmIndInv'
  OBVIOUS
<1>1. PICK f, n, k : Walk(Clock, f, n, k, HEAD) /\ f[k] = alarm
  BY DEF AlarmIndInv, Cursor, TickFire
<1>2. TypeOK /\ alarm # HEAD /\ Expired(alarm) /\ alarm \in Alarms
  BY DEF AlarmIndInv, TickFire, TypeOK, Nodes
<1>3. PICK c \in Callback([Clock EXCEPT !.rollover[alarm] = FALSE], alarm),
           p \in {0} \cup Periods : Commit(Again(c, alarm, p))
  BY DEF TickFire
<1>4. Called(c, alarm, links.next[alarm])
  BY <1>1, <1>2, <1>3, CallbackCalled
<1> DEFINE d == Again(c, alarm, p)
<1>5. d \in ClockRec /\ \E g, m, j : Walk(d, g, m, j, HEAD) /\ g[j] = links.next[alarm]
  BY <1>2, <1>4, Repeats, Ends
<1> HIDE DEF d
<1>6. /\ Clock' = d
      /\ links' \in Links /\ time' \in [Alarms -> 0 .. WORD - 1]
      /\ rollover' \in [Alarms -> BOOLEAN] /\ due' \in [Alarms -> 0 .. WORD - 1]
  BY <1>3, <1>5, Commits DEF d
<1>7. PICK g, m, j : Walk(d, g, m, j, HEAD) /\ g[j] = links.next[alarm]
  BY <1>5
<1>8. Walk(Clock, g, m, j, HEAD)' /\ g[j] = Cursor'
  BY <1>6, <1>7, Moves DEF TickFire, Cursor
<1>9. alarm' \in Nodes
  <2>1. j \in 0 .. m + 1 /\ Ring(d.links, g, m)
    BY <1>7 DEF Walk
  <2> QED
    BY <1>7, <2>1 DEF Ring, TickFire
<1>10. TypeOK'
  BY <1>2, <1>6, <1>9 DEF TypeOK, TickFire, Links
<1> QED
  BY <1>8, <1>10 DEF AlarmIndInv

LEMMA InitHolds == Init => AlarmIndInv
<1> SUFFICES ASSUME Init PROVE AlarmIndInv
  OBVIOUS
<1>1. 0 \in 0 .. WORD - 1 /\ HEAD \in Nodes /\ 0 \in Int
  BY WordAssumption DEF Nodes
<1>2. links.next = [x \in Nodes |-> IF x = HEAD THEN HEAD ELSE NULL]
      /\ links.previous = [x \in Nodes |-> IF x = HEAD THEN HEAD ELSE NULL]
      /\ links = [next |-> links.next, previous |-> links.previous]
  BY DEF Init
<1>3. TypeOK
  <2>1. links \in [next : [Nodes -> Nodes \cup {NULL}], previous : [Nodes -> Nodes \cup {NULL}]]
    BY <1>1, <1>2
  <2> QED
    BY <1>1, <2>1 DEF Init, TypeOK
<1> DEFINE f == [i \in 0 .. 1 |-> HEAD]
<1>4. Ring(links, f, 0)
  <2>1. f \in [0 .. 0 + 1 -> Nodes] /\ f[0] = HEAD /\ f[0 + 1] = HEAD
    BY <1>1
  <2>2. \A a \in Alarms : links.next[a] = NULL /\ a # NULL
    BY <1>2, NodesAssumption DEF Nodes
  <2>3. links.next[HEAD] = HEAD /\ links.previous[HEAD] = HEAD
    BY <1>1, <1>2
  <2>4. \A i \in 0 .. 0 : links.next[f[i]] = f[i + 1] /\ links.previous[f[i + 1]] = f[i]
    BY <2>3
  <2> HIDE DEF f
  <2> QED
    BY <2>1, <2>2, <2>4 DEF Ring
<1>5. Walk(Clock, f, 0, 1, HEAD) /\ f[1] = Cursor
  BY <1>4 DEF Walk, Clock, Cursor, Init
<1> QED
  BY <1>3, <1>5 DEF AlarmIndInv

(* A tick makes every alarm one tick nearer.                               *)
LEMMA BeginHolds == AlarmIndInv /\ TickBegin => AlarmIndInv'
<1> SUFFICES ASSUME AlarmIndInv, TickBegin PROVE AlarmIndInv'
  OBVIOUS
<1>1. PICK f, n, k : Walk(Clock, f, n, k, HEAD) /\ f[k] = HEAD
  BY DEF AlarmIndInv, Cursor, TickBegin
<1>2. /\ TypeOK /\ Clock \in ClockRec /\ Registered = On(links) /\ links \in Links
      /\ Ring(links, f, n) /\ n \in Nat /\ k \in 1 .. n + 1
  <2>1. TypeOK
    BY DEF AlarmIndInv
  <2> QED
    BY <1>1, <2>1, ClockOK DEF Walk, Ring, ClockRec
<1>3. k = n + 1
  BY <1>1, <1>2 DEF Ring
<1>4. \A i \in 1 .. n : Visited(Clock, f[i]) /\ f[i] \in Registered
  <2>1. \A i \in 1 .. n : f[i] \in On(links)
    BY <1>2, OnTheRing
  <2>2. \A i \in 1 .. n : f[i] # HEAD /\ i < k
    BY <1>2, <1>3 DEF Ring
  <2> QED
    BY <1>1, <1>2, <2>1, <2>2 DEF Walk
<1>5. \A a \in Registered : due[a] > 0 /\ a \in Alarms
  <2>1. \A a \in Registered : \E i \in 1 .. n : f[i] = a
    BY <1>2, OnTheRing
  <2> QED
    BY <1>4, <2>1 DEF Visited, Clock, Registered
<1>6. /\ nticks' \in 0 .. WORD - 1 /\ nticks \in 0 .. WORD - 1
      /\ nticks' = IF nticks + 1 < WORD THEN nticks + 1 ELSE nticks + 1 - WORD
  <2>1. nticks \in 0 .. WORD - 1 /\ nticks' = (nticks + 1) % WORD
    BY <1>2 DEF TypeOK, TickBegin
  <2>2. PICK s \in Nat : s = nticks + 1 /\ s < 2 * WORD
    BY <2>1, WordAssumption
  <2>3. s % WORD = IF s < WORD THEN s ELSE s - WORD
    BY <2>2, Wraps
  <2> QED
    BY <2>1, <2>2, <2>3, WordAssumption
<1>7. due' \in [Alarms -> 0 .. WORD - 1]
  <2>1. ASSUME NEW a \in Alarms
        PROVE  (IF a \in Registered THEN due[a] - 1 ELSE due[a]) \in 0 .. WORD - 1
    <3>1. due[a] \in 0 .. WORD - 1
      BY <1>2 DEF TypeOK
    <3>2. a \in Registered => due[a] > 0
      BY <1>5
    <3> QED
      BY <3>1, <3>2, WordAssumption
  <2> QED
    BY <2>1 DEF TickBegin
<1>8. ASSUME NEW i \in 1 .. n PROVE f[i] # HEAD /\ Coming(Clock, f[i])'
  <2> DEFINE a == f[i]
  <2>1. a \in Alarms /\ a \in Registered /\ a # HEAD
    BY <1>2, <1>4, <1>5, NodesAssumption
  <2>2. due[a] \in 1 .. WORD - 1 /\ due'[a] = due[a] - 1 /\ time'[a] = time[a]
        /\ rollover'[a] = rollover[a]
    BY <1>2, <1>5, <2>1 DEF TickBegin, TypeOK, list
  <2>3. time[a] = (nticks + due[a]) % WORD /\ rollover[a] = (nticks + due[a] >= WORD)
    BY <1>4 DEF Visited, Clock
  <2>4. (nticks' + due'[a]) % WORD = (nticks + due[a]) % WORD
    <3>1. (nticks + due[a]) % WORD
            = IF nticks + due[a] < WORD THEN nticks + due[a] ELSE nticks + due[a] - WORD
      BY <1>6, <2>2, Wraps, WordAssumption
    <3>2. PICK s \in Nat : s = nticks' + due'[a] /\ s < 2 * WORD
      BY <1>6, <2>2, WordAssumption
    <3>3. s % WORD = IF s < WORD THEN s ELSE s - WORD
      BY <3>2, Wraps
    <3> QED
      BY <1>6, <2>2, <3>1, <3>2, <3>3, WordAssumption
  <2>5. nticks' # 0 => (nticks' + due'[a] >= WORD <=> nticks + due[a] >= WORD)
    BY <1>6, <2>2, WordAssumption
  <2> HIDE DEF a
  <2>6. Coming(Clock, a)'
    BY <2>2, <2>3, <2>4, <2>5 DEF Coming, Clock
  <2> QED
    BY <2>1, <2>6 DEF a
<1>9. Walk(Clock, f, n, 1, HEAD)'
  <2>1. links' = links
    BY DEF TickBegin, list
  <2> QED
    BY <1>2, <1>8, <2>1 DEF Walk, Clock
<1>10. f[1] = alarm' /\ alarm' \in Nodes
  <2>1. 0 \in 0 .. n /\ 1 \in 0 .. n + 1
    BY <1>2
  <2>2. links.next[f[0]] = f[0 + 1] /\ f[1] \in Nodes /\ f[0] = HEAD
    BY <1>2, <2>1 DEF Ring
  <2> QED
    BY <2>2 DEF TickBegin
<1>11. TypeOK'
  BY <1>2, <1>6, <1>7, <1>10 DEF TypeOK, TickBegin, list
<1>12. f[1] = Cursor'
  BY <1>10 DEF Cursor, TickBegin
<1> QED
  BY <1>9, <1>11, <1>12 DEF AlarmIndInv

LEMMA WaitHolds == AlarmIndInv /\ TickWait => AlarmIndInv'
<1> SUFFICES ASSUME AlarmIndInv, TickWait PROVE AlarmIndInv'
  OBVIOUS
<1>1. PICK f, n, k : Walk(Clock, f, n, k, HEAD) /\ f[k] = alarm
  BY DEF AlarmIndInv, Cursor, TickWait
<1>0. PICK a : a = alarm
  OBVIOUS
<1>2. /\ TypeOK /\ Ring(links, f, n) /\ n \in Nat /\ k \in 1 .. n + 1 /\ a \in Alarms /\ a # HEAD
      /\ ~ Expired(a)
  BY <1>0, <1>1 DEF AlarmIndInv, Walk, Ring, Clock, TickWait, TypeOK, Nodes
<1>3. k \in 1 .. n /\ k + 1 \in 1 .. n + 1
  BY <1>0, <1>1, <1>2 DEF Ring
<1>4. Coming(Clock, a)
  <2>1. IF k < k THEN f[k] = HEAD \/ Visited(Clock, f[k]) ELSE f[k] # HEAD /\ Coming(Clock, f[k])
    BY <1>1, <1>3 DEF Walk
  <2> QED
    BY <1>0, <1>1, <1>3, <2>1
<1>5. due[a] # 0 /\ (Held(a) <=> nticks + due[a] >= WORD)
  BY <1>2, <1>4, ExpiresWhenDue
<1>6. /\ rollover' = [rollover EXCEPT ![a] = Held(a)]
      /\ nticks' = nticks /\ links' = links /\ time' = time /\ due' = due
      /\ Held(a) \in BOOLEAN
  BY <1>0 DEF TickWait, Held
<1>7. Visited(Clock, a)'
  <2>1. rollover'[a] = (nticks + due[a] >= WORD)
    BY <1>2, <1>5, <1>6 DEF TypeOK
  <2>2. due[a] > 0 /\ time[a] = (nticks + due[a]) % WORD
    BY <1>2, <1>4, <1>5 DEF TypeOK, Coming, Clock
  <2> QED
    BY <1>6, <2>1, <2>2 DEF Visited, Clock
<1>8. ASSUME NEW i \in 1 .. n
      PROVE  IF i < k + 1 THEN f[i] = HEAD \/ Visited(Clock, f[i])' ELSE f[i] # HEAD /\ Coming(Clock, f[i])'
  <2>1. CASE i = k
    BY <1>0, <1>1, <1>3, <1>7, <2>1
  <2>2. CASE i # k
    <3>1. f[i] # a /\ f[i] \in Alarms
      BY <1>0, <1>1, <1>2, <1>3, <2>2 DEF Ring, Nodes
    <3>2. rollover'[f[i]] = rollover[f[i]]
      BY <1>2, <1>6, <3>1 DEF TypeOK
    <3>3. IF i < k THEN f[i] = HEAD \/ Visited(Clock, f[i]) ELSE f[i] # HEAD /\ Coming(Clock, f[i])
      BY <1>1 DEF Walk
    <3>4. (Visited(Clock, f[i]) => Visited(Clock, f[i])') /\ (Coming(Clock, f[i]) => Coming(Clock, f[i])')
      BY <1>6, <3>2 DEF Visited, Coming, Clock
    <3> QED
      BY <1>3, <2>2, <3>3, <3>4
  <2> QED
    BY <2>1, <2>2
<1>9. Walk(Clock, f, n, k + 1, HEAD)'
  BY <1>2, <1>3, <1>6, <1>8 DEF Walk, Clock
<1>10. f[k + 1] = alarm' /\ alarm' \in Nodes
  <2>1. k \in 0 .. n /\ k + 1 \in 0 .. n + 1
    BY <1>3
  <2>2. links.next[f[k]] = f[k + 1] /\ f[k + 1] \in Nodes
    BY <1>2, <2>1 DEF Ring
  <2> QED
    BY <1>1, <2>2 DEF TickWait
<1>11. rollover' \in [Alarms -> BOOLEAN]
  BY <1>2, <1>6 DEF TypeOK
<1>12. TypeOK'
  BY <1>2, <1>10, <1>11 DEF TypeOK, TickWait
<1>13. f[k + 1] = Cursor'
  BY <1>10 DEF Cursor, TickWait
<1> QED
  BY <1>9, <1>12, <1>13 DEF AlarmIndInv

(* The steps that leave the alarms alone.                                  *)
LEMMA OthersHold ==
  AlarmIndInv /\ (TickEnd \/ alt_sysclk_init \/ ALT_TIMES \/ (\E t \in Times : ALT_SETTIMEOFDAY(t))
                    \/ UNCHANGED vars) => AlarmIndInv'
<1> SUFFICES ASSUME AlarmIndInv,
                    TickEnd \/ alt_sysclk_init \/ ALT_TIMES \/ (\E t \in Times : ALT_SETTIMEOFDAY(t))
                      \/ UNCHANGED vars
             PROVE  AlarmIndInv'
  OBVIOUS
<1>1. Clock' = Clock /\ nticks' = nticks /\ Cursor' = Cursor
  BY DEF TickEnd, alt_sysclk_init, ALT_TIMES, ALT_SETTIMEOFDAY, vars, list, Clock, Cursor
<1>2. PICK f, n, k : Walk(Clock, f, n, k, HEAD) /\ f[k] = Cursor
  BY DEF AlarmIndInv
<1>3. Walk(Clock, f, n, k, HEAD)'
  BY <1>1, <1>2, Moves
<1>4. TypeOK'
  <2>1. TypeOK
    BY DEF AlarmIndInv
  <2>2. CASE TickEnd \/ alt_sysclk_init \/ ALT_TIMES \/ UNCHANGED vars
    BY <2>1, <2>2 DEF TypeOK, TickEnd, alt_sysclk_init, ALT_TIMES, vars, list
  <2>3. ASSUME NEW t \in Times, ALT_SETTIMEOFDAY(t) PROVE TypeOK'
    <3>1. resettime'.sec \in Int /\ resettime'.usec \in Int
      <4>1. t.sec \in Int /\ t.usec \in Int
        <5>1. t.sec \in Seconds /\ t.usec \in MicroSeconds
          BY DEF Times
        <5>2. t.sec \in Nat /\ t.usec \in Nat
          BY <5>1, TimesAssumption, Zenon
        <5> QED
          BY <5>2
      <4>2. CASE tick_rate = 0
        BY <2>1, <2>3, <4>2 DEF TypeOK, ALT_SETTIMEOFDAY
      <4>3. CASE tick_rate # 0
        <5>1. tick_rate = RATE /\ RATE \in Nat \ {0} /\ ALT_US \in Nat \ {0} /\ WORD \in Nat \ {0}
          BY <2>1, <4>3, RateAssumption, WordAssumption DEF TypeOK
        <5>2. nticks \in Nat /\ UsPerTick \in Nat
          <6>1. ALT_US \div RATE \in Nat
            BY <5>1, Division
          <6> QED
            BY <2>1, <5>1, <6>1 DEF TypeOK, UsPerTick
        <5>3. nticks \div tick_rate \in Nat /\ nticks * UsPerTick \in Nat
          BY <5>1, <5>2, Division
        <5>4. (nticks * UsPerTick) % WORD \in Nat
          BY <5>1, <5>3, Division
        <5>5. ((nticks * UsPerTick) % WORD) % ALT_US \in Nat
          BY <5>1, <5>4, Division
        <5>6. resettime' = [sec  |-> t.sec - (nticks \div tick_rate),
                            usec |-> t.usec - (((nticks * UsPerTick) % WORD) % ALT_US),
                            tz   |-> t.tz]
          BY <2>3, <4>3 DEF ALT_SETTIMEOFDAY
        <5> QED
          BY <4>1, <5>3, <5>5, <5>6
      <4> QED
        BY <4>2, <4>3
    <3> QED
      BY <2>1, <2>3, <3>1 DEF TypeOK, ALT_SETTIMEOFDAY, list
  <2> QED
    BY <2>2, <2>3
<1> QED
  BY <1>1, <1>2, <1>3, <1>4 DEF AlarmIndInv

LEMMA StartHolds == AlarmIndInv /\ (\E a \in Alarms : Start(a)) => AlarmIndInv'
<1> SUFFICES ASSUME AlarmIndInv, NEW a \in Alarms, Start(a) PROVE AlarmIndInv'
  OBVIOUS
<1>1. PICK f, n, k : Walk(Clock, f, n, k, HEAD) /\ f[k] = HEAD
  BY DEF AlarmIndInv, Cursor, Start
<1>2. PICK d \in Delays : Commit(alt_alarm_start(Clock, a, d))
  BY DEF Start
<1>3. TypeOK /\ Clock \in ClockRec /\ a \in Alarms \ On(Clock.links)
  <2>1. TypeOK
    BY DEF AlarmIndInv
  <2> QED
    BY <2>1, ClockOK DEF Start
<1> DEFINE c == alt_alarm_start(Clock, a, d)
<1>4. /\ c \in ClockRec /\ Visited(c, a) /\ c.links = alt_llist_insert(Clock.links, a)
      /\ \A b \in Alarms \ {a} : /\ c.time[b] = Clock.time[b] /\ c.rollover[b] = Clock.rollover[b]
                                 /\ c.due[b] = Clock.due[b]
  BY <1>3, StartsVisited
<1> HIDE DEF c
<1>5. PICK g : Walk(c, g, n + 1, k + 1, HEAD) /\ g[k + 1] = f[k]
  BY <1>1, <1>3, <1>4, WalkInserts
<1>6. /\ Clock' = c
      /\ links' \in Links /\ time' \in [Alarms -> 0 .. WORD - 1]
      /\ rollover' \in [Alarms -> BOOLEAN] /\ due' \in [Alarms -> 0 .. WORD - 1]
  BY <1>2, <1>4, Commits DEF c
<1>7. Walk(Clock, g, n + 1, k + 1, HEAD)'
  BY <1>5, <1>6, Moves DEF Start
<1>8. TypeOK'
  BY <1>3, <1>6 DEF TypeOK, Start, Links
<1>9. Cursor' = HEAD
  BY DEF Cursor, Start
<1> QED
  BY <1>1, <1>5, <1>7, <1>8, <1>9 DEF AlarmIndInv

LEMMA StopHolds == AlarmIndInv /\ (\E a \in Alarms : Stop(a)) => AlarmIndInv'
<1> SUFFICES ASSUME AlarmIndInv, NEW a \in Alarms, Stop(a) PROVE AlarmIndInv'
  OBVIOUS
<1>1. PICK f, n, k : Walk(Clock, f, n, k, HEAD) /\ f[k] = HEAD
  BY DEF AlarmIndInv, Cursor, Stop
<1>2. TypeOK /\ Clock \in ClockRec /\ Clock.links = links /\ links \in Links
      /\ Ring(links, f, n) /\ n \in Nat /\ k \in 1 .. n + 1
  <2>1. TypeOK
    BY DEF AlarmIndInv
  <2> QED
    BY <1>1, <2>1, ClockOK DEF Walk, Ring, ClockRec
<1> DEFINE d == alt_alarm_stop(Clock, a)
<1>3. /\ d \in ClockRec /\ d.links = alt_llist_remove(links, a)
      /\ d.time = Clock.time /\ d.rollover = Clock.rollover
      /\ \A b \in Alarms \ {a} : d.due[b] = Clock.due[b]
  BY <1>2, Stops
<1>4. Commit(d)
  BY DEF Stop
<1> HIDE DEF d
<1>5. \E g, m, j : Walk(d, g, m, j, HEAD) /\ g[j] = HEAD
  <2>1. CASE \E m \in 1 .. n : f[m] = a
    <3>1. PICK m \in 1 .. n : f[m] = a
      BY <2>1
    <3>2. m # k
      BY <1>1, <1>2, <3>1 DEF Ring
    <3>3. \E g, j : /\ Walk(d, g, n - 1, j, HEAD) /\ g[j] = f[k]
                    /\ \A i \in 1 .. n - 1 : g[i] # f[m]
      BY <1>1, <1>2, <1>3, <3>1, <3>2, WalkRemoves
    <3> QED
      BY <1>1, <3>3
  <2>2. CASE ~ \E m \in 1 .. n : f[m] = a
    <3>1. links.next[a] = a /\ links.previous[a] = a
      BY <1>2, <2>2 DEF Ring, Stop
    <3>2. d.links = links
      BY <1>2, <1>3, <3>1, RemovesAgain
    <3>3. \A i \in 1 .. n : f[i] \in Alarms /\ f[i] # a
      BY <1>2, <2>2 DEF Ring, Nodes
    <3>4. \A i \in 1 .. n : (Visited(Clock, f[i]) => Visited(d, f[i]))
                            /\ (Coming(Clock, f[i]) => Coming(d, f[i]))
      BY <1>3, <3>3, Same
    <3>5. Walk(d, f, n, k, HEAD)
      BY <1>1, <1>2, <3>2, <3>4 DEF Walk
    <3> QED
      BY <1>1, <3>5
  <2> QED
    BY <2>1, <2>2
<1>6. PICK g, m, j : Walk(d, g, m, j, HEAD) /\ g[j] = HEAD
  BY <1>5
<1>7. /\ Clock' = d
      /\ links' \in Links /\ time' \in [Alarms -> 0 .. WORD - 1]
      /\ rollover' \in [Alarms -> BOOLEAN] /\ due' \in [Alarms -> 0 .. WORD - 1]
  BY <1>3, <1>4, Commits
<1>8. Walk(Clock, g, m, j, HEAD)'
  BY <1>6, <1>7, Moves DEF Stop
<1>9. TypeOK'
  BY <1>2, <1>7 DEF TypeOK, Stop, Links
<1>10. Cursor' = HEAD
  BY DEF Cursor, Stop
<1> QED
  BY <1>6, <1>8, <1>9, <1>10 DEF AlarmIndInv

-----------------------------------------------------------------------------
(* The list that After goes through is the ring.                           *)
LEMMA NextInRing ==
  ASSUME NEW m \in Nat \ {0}, NEW b \in Nat \ {0}
  PROVE  m % b = IF (m - 1) % b = b - 1 THEN 0 ELSE ((m - 1) % b) + 1
<1> DEFINE q == (m - 1) \div b
           s == (m - 1) % b
<1>1. q \in Nat /\ s \in 0 .. b - 1 /\ m - 1 = b * q + s
  <2>1. m - 1 \in Nat
    OBVIOUS
  <2> QED
    BY <2>1, Division
<1> HIDE DEF q, s
<1>2. CASE s = b - 1
  <2>1. m = b * (q + 1) + 0 /\ q + 1 \in Nat /\ 0 \in 0 .. b - 1
    BY <1>1, <1>2
  <2>2. (b * (q + 1) + 0) % b = 0
    BY <2>1, Quotient
  <2> QED
    BY <1>2, <2>1, <2>2 DEF s
<1>3. CASE s # b - 1
  <2>1. m = b * q + (s + 1) /\ s + 1 \in 0 .. b - 1
    BY <1>1, <1>3
  <2>2. (b * q + (s + 1)) % b = s + 1
    BY <1>1, <2>1, Quotient
  <2> QED
    BY <1>3, <2>1, <2>2 DEF s
<1> QED
  BY <1>2, <1>3

LEMMA AfterIs ==
  ASSUME NEW f, NEW n, Ring(links, f, n), n <= Cardinality(Alarms)
  PROVE  \A i \in 0 .. n + 1 : After[i] = f[i]
<1> DEFINE K == Cardinality(Alarms) + 1
           h == [m \in 0 .. K |-> f[m % (n + 1)]]
           Goes(g) == g = [m \in 0 .. K |-> IF m = 0 THEN HEAD ELSE links.next[g[m - 1]]]
<1>1. n \in Nat /\ Cardinality(Alarms) \in Nat /\ K \in Nat /\ n + 1 <= K
  BY NodesAssumption, FS_CardinalityType DEF Ring
<1>2. Goes(h)
  <2>1. ASSUME NEW m \in 0 .. K, m # 0 PROVE h[m] = links.next[h[m - 1]]
    <3> DEFINE q == (m - 1) % (n + 1)
    <3>1. m - 1 \in 0 .. K /\ m - 1 \in Nat /\ n + 1 \in Nat \ {0} /\ m \in Nat \ {0}
      BY <1>1, <2>1
    <3>2. q \in 0 .. n
      <4>1. (m - 1) % (n + 1) \in 0 .. (n + 1) - 1
        BY <3>1, Division
      <4> QED
        BY <1>1, <4>1
    <3>3. m % (n + 1) = IF q = n THEN 0 ELSE q + 1
      <4>1. m % (n + 1) = IF (m - 1) % (n + 1) = (n + 1) - 1 THEN 0 ELSE ((m - 1) % (n + 1)) + 1
        BY <3>1, NextInRing
      <4> QED
        BY <1>1, <4>1
    <3>4. h[m - 1] = f[q] /\ h[m] = f[m % (n + 1)]
      BY <2>1, <3>1
    <3> HIDE DEF q, h
    <3>5. links.next[f[q]] = f[q + 1]
      BY <3>2 DEF Ring
    <3>6. f[0] = HEAD /\ f[n + 1] = HEAD
      BY DEF Ring
    <3> QED
      BY <3>2, <3>3, <3>4, <3>5, <3>6
  <2>2. h[0] = HEAD
    <3>1. 0 \in 0 .. K /\ 0 % (n + 1) = 0
      BY <1>1
    <3> QED
      BY <3>1 DEF Ring
  <2>3. \A m \in 0 .. K : h[m] = IF m = 0 THEN HEAD ELSE links.next[h[m - 1]]
    BY <2>1, <2>2
  <2>4. h = [m \in 0 .. K |-> h[m]]
    OBVIOUS
  <2> HIDE DEF h
  <2> QED
    BY <2>3, <2>4
<1>3. Goes(After)
  <2>1. After = CHOOSE g : Goes(g)
    BY DEF After
  <2> HIDE DEF Goes, h
  <2> QED
    BY <1>2, <2>1
<1>4. \A m \in 0 .. K : After[m] = IF m = 0 THEN HEAD ELSE links.next[After[m - 1]]
  BY <1>3
<1> HIDE DEF Goes, h
<1> DEFINE S == {i \in 0 .. n + 1 : After[i] # f[i]}
<1>5. S = {}
  <2> SUFFICES ASSUME S # {} PROVE FALSE
    OBVIOUS
  <2>1. S \in SUBSET Nat
    BY <1>1
  <2> HIDE DEF S
  <2>2. PICK i \in S : \A j \in S : i <= j
    BY <2>1, LeastNatural
  <2>3. i \in 0 .. n + 1 /\ After[i] # f[i] /\ i \in 0 .. K
    BY <1>1, <2>2 DEF S
  <2>4. i # 0
    BY <1>4, <2>3 DEF Ring
  <2>5. i - 1 \in 0 .. n /\ (i - 1) + 1 = i
    BY <1>1, <2>3, <2>4
  <2>6. After[i - 1] = f[i - 1]
    BY <1>1, <2>2, <2>5 DEF S
  <2>7. links.next[f[i - 1]] = f[i]
    BY <2>5 DEF Ring
  <2> QED
    BY <1>4, <2>3, <2>4, <2>6, <2>7
<1> QED
  BY <1>5

LEMMA RingIsList ==
  ASSUME TypeOK, NEW f, NEW n, Ring(links, f, n)
  PROVE  ListInv
<1>1. n \in Nat /\ Registered = On(links) /\ links \in Links /\ Registered \subseteq Alarms
  BY ClockOK DEF Ring, TypeOK, Links, Registered, On
<1>2. (\A i \in 1 .. n : f[i] \in Registered) /\ \A a \in Registered : \E i \in 1 .. n : f[i] = a
  BY <1>1, OnTheRing
<1>3. Cardinality(Registered) = n /\ n <= Cardinality(Alarms)
  <2> DEFINE b == [i \in 1 .. n |-> f[i]]
  <2>1. b \in Bijection(1 .. n, Registered)
    BY <1>1, <1>2 DEF Bijection, Injection, Surjection, IsInjective, Ring
  <2>2. Cardinality(Registered) = n
    BY <1>1, <2>1, FS_CountingElements DEF ExistsBijection
  <2> QED
    BY <1>1, <2>2, NodesAssumption, FS_Subset
<1>4. \A i \in 0 .. n + 1 : After[i] = f[i]
  BY <1>3, AfterIs
<1>5. {After[i] : i \in 0 .. n} = Registered \cup {HEAD}
  <2>1. ASSUME NEW i \in 0 .. n PROVE After[i] \in Registered \cup {HEAD}
    <3>1. After[i] = f[i] /\ (i = 0 \/ i \in 1 .. n)
      BY <1>1, <1>4
    <3> QED
      BY <1>2, <3>1 DEF Ring
  <2>2. ASSUME NEW x \in Registered \cup {HEAD} PROVE \E i \in 0 .. n : After[i] = x
    <3>1. CASE x = HEAD
      <4>1. 0 \in 0 .. n /\ 0 \in 0 .. n + 1 /\ f[0] = HEAD
        BY <1>1 DEF Ring
      <4> QED
        BY <1>4, <3>1, <4>1
    <3>2. CASE x \in Registered
      <4>1. PICK i \in 1 .. n : f[i] = x
        BY <1>2, <3>2
      <4>2. i \in 0 .. n /\ i \in 0 .. n + 1
        BY <1>1
      <4> QED
        BY <1>4, <4>1, <4>2
    <3> QED
      BY <3>1, <3>2
  <2> QED
    BY <2>1, <2>2
<1>6. After[n + 1] = HEAD
  <2>1. n + 1 \in 0 .. n + 1 /\ f[n + 1] = HEAD
    BY <1>1 DEF Ring
  <2> QED
    BY <1>4, <2>1
<1>7. \A x \in Registered \cup {HEAD} : links.previous[links.next[x]] = x
  <2> SUFFICES ASSUME NEW x \in Registered \cup {HEAD} PROVE links.previous[links.next[x]] = x
    OBVIOUS
  <2>1. PICK i \in 0 .. n : f[i] = x
    <3>1. 0 \in 0 .. n /\ f[0] = HEAD /\ \A i \in 1 .. n : i \in 0 .. n
      BY <1>1 DEF Ring
    <3> QED
      BY <1>2, <3>1
  <2> QED
    BY <2>1 DEF Ring
<1> QED
  BY <1>3, <1>5, <1>6, <1>7 DEF ListInv

LEMMA Implied == AlarmIndInv => AlarmInv
<1> SUFFICES ASSUME AlarmIndInv PROVE AlarmInv
  OBVIOUS
<1>1. PICK f, n, k : Walk(Clock, f, n, k, HEAD) /\ f[k] = Cursor
  BY DEF AlarmIndInv
<1>2. TypeOK /\ Ring(links, f, n) /\ n \in Nat /\ k \in 1 .. n + 1 /\ links \in Links /\ Registered = On(links)
  <2>1. TypeOK
    BY DEF AlarmIndInv
  <2> QED
    BY <1>1, <2>1, ClockOK DEF Walk, Ring, ClockRec
<1>3. ListInv
  BY <1>2, RingIsList
<1>4. ASSUME ~ ticking, NEW a \in Registered
      PROVE  /\ due[a] > 0
             /\ time[a] = (nticks + due[a]) % WORD
             /\ rollover[a] = (nticks + due[a] >= WORD)
  <2>1. k = n + 1
    BY <1>1, <1>2, <1>4 DEF Cursor, Ring
  <2>2. PICK i \in 1 .. n : f[i] = a
    BY <1>2, OnTheRing
  <2>3. i < k /\ f[i] # HEAD
    BY <1>2, <2>1, <2>2 DEF Ring
  <2>4. Visited(Clock, a)
    BY <1>1, <2>2, <2>3 DEF Walk
  <2> QED
    BY <2>4 DEF Visited, Clock
<1> QED
  BY <1>2, <1>3, <1>4 DEF AlarmInv

LEMMA StepHolds == ~ StopsNext /\ AlarmIndInv /\ [Next]_vars => AlarmIndInv'
BY BeginHolds, WaitHolds, FireHolds, OthersHold, StartHolds, StopHolds DEF Next, Tick, Program

(* alt_tick.c, alt_alarm_start.c and alt_llist.h, for any alarms, delays,  *)
(* periods and width of the counter, whatever the callbacks do to the list *)
(* but stop the alarm that comes after their own: between two ticks every  *)
(* alarm on the list is still to come, none was missed or early, and the   *)
(* list is one ring.                                                       *)
THEOREM AlarmsOnTime == ~ StopsNext => (Spec => []AlarmInv)
<1> SUFFICES ASSUME ~ StopsNext PROVE Spec => []AlarmInv
  OBVIOUS
<1>1. AlarmIndInv /\ [Next]_vars => AlarmIndInv'
  BY StepHolds
<1> QED
  BY <1>1, InitHolds, Implied, PTL DEF Spec

-----------------------------------------------------------------------------
(* The time of day.  At a rate that divides a second, the whole seconds    *)
(* and the rest of the ticks add up to all of them.                        *)
LEMMA TicksAddUp ==
  ASSUME ALT_US % RATE = 0, NEW U, U = ALT_US \div RATE,
         NEW n \in Nat, NEW q, q = n \div RATE, NEW r, r = (n * U) % ALT_US
  PROVE  U \in Nat /\ q \in Nat /\ r \in Nat /\ q * ALT_US + r = n * U
<1>1. RATE \in Nat \ {0} /\ ALT_US \in Nat \ {0}
  BY RateAssumption
<1>2. U \in Nat /\ ALT_US = RATE * U
  <2>1. U \in Nat /\ ALT_US = RATE * U + (ALT_US % RATE)
    BY <1>1, Division
  <2>2. RATE * U \in Nat
    BY <1>1, <2>1
  <2> QED
    BY <2>1, <2>2
<1>3. PICK s : s = n % RATE
  OBVIOUS
<1>4. q \in Nat /\ s \in 0 .. RATE - 1 /\ n = RATE * q + s
  BY <1>1, <1>3, Division
<1>5. U # 0
  BY <1>1, <1>2
<1>6. s * U \in 0 .. ALT_US - 1
  <2>1. s * U \in Nat /\ (RATE - 1 - s) * U \in Nat /\ (RATE - 1 - s) * U = RATE * U - U - s * U
    BY <1>1, <1>2, <1>4
  <2> QED
    BY <1>1, <1>2, <1>5, <2>1
<1>7. n * U = ALT_US * q + s * U
  <2>1. (RATE * q + s) * U = (RATE * q) * U + s * U
    BY <1>1, <1>2, <1>4
  <2>2. (RATE * q) * U = (RATE * U) * q
    BY <1>1, <1>2, <1>4
  <2> QED
    BY <1>2, <1>4, <2>1, <2>2
<1>8. (ALT_US * q + s * U) % ALT_US = s * U
  BY <1>1, <1>4, <1>6, Quotient
<1>9. r = s * U
  BY <1>7, <1>8
<1> QED
  BY <1>1, <1>2, <1>4, <1>6, <1>7, <1>9

\* What gettimeofday() reads is the time that was set and the ticks since.
LEMMA ReadsTicks ==
  ASSUME ALT_US % RATE = 0, NEW U, U = ALT_US \div RATE,
         NEW n \in Nat, NEW q, q = n \div RATE, NEW r, r = (n * U) % ALT_US,
         NEW sec \in Int, NEW usec \in Int, sec * ALT_US + usec + n * U >= 0
  PROVE  (IF usec + r < 0 /\ (sec + q) * ALT_US + (usec + r) < 0 THEN 0
          ELSE (sec + q) * ALT_US + (usec + r)) = sec * ALT_US + usec + n * U
<1>1. U \in Nat /\ q \in Nat /\ r \in Nat /\ q * ALT_US + r = n * U /\ ALT_US \in Nat
  BY TicksAddUp, RateAssumption
<1>2. (sec + q) * ALT_US = sec * ALT_US + q * ALT_US
  BY <1>1
<1>3. sec * ALT_US \in Int /\ q * ALT_US \in Nat
  BY <1>1
<1>4. (sec + q) * ALT_US + (usec + r) = sec * ALT_US + usec + n * U
  BY <1>1, <1>2, <1>3
<1> QED
  BY <1>1, <1>3, <1>4

LEMMA TimeStep ==
  ASSUME ALT_US % RATE = 0, TypeOK, TypeOK', [Next]_vars, tick_rate # 0
  PROVE  /\ \A t \in Times :
              ALT_SETTIMEOFDAY(t) /\ Fits => ALT_GETTIMEOFDAY' = t.sec * ALT_US + t.usec
         /\ nticks' = nticks + 1 /\ NotLost => ALT_GETTIMEOFDAY' = ALT_GETTIMEOFDAY + UsPerTick
<1>1. /\ tick_rate = RATE /\ RATE \in Nat \ {0} /\ ALT_US \in Nat \ {0} /\ WORD \in Nat \ {0}
      /\ nticks \in Nat /\ resettime.sec \in Int /\ resettime.usec \in Int
  BY RateAssumption, WordAssumption DEF TypeOK
<1>2. PICK U : U = ALT_US \div RATE
  OBVIOUS
<1>3. UsPerTick = U /\ U \in Nat
  BY <1>1, <1>2, Division DEF UsPerTick
<1>4. ASSUME NEW t \in Times, ALT_SETTIMEOFDAY(t), Fits
      PROVE  ALT_GETTIMEOFDAY' = t.sec * ALT_US + t.usec
  <2>1. t.sec \in Nat /\ t.usec \in Nat
    <3>1. t.sec \in Seconds /\ t.usec \in MicroSeconds
      BY DEF Times
    <3> QED
      BY <3>1, TimesAssumption, Zenon
  <2>2. PICK q, r : q = nticks \div RATE /\ r = (nticks * U) % ALT_US
    OBVIOUS
  <2>3. q \in Nat /\ r \in Nat /\ nticks * U \in Nat
    <3>1. nticks * U \in Nat
      BY <1>1, <1>3
    <3>2. q \in Nat
      BY <1>1, <2>2, Division
    <3>3. r \in Nat
      BY <1>1, <2>2, <3>1, Division
    <3> QED
      BY <3>1, <3>2, <3>3
  <2>4. (nticks * U) % WORD = nticks * U
    <3>1. PICK p \in Nat : p = nticks * U /\ p < WORD
      BY <1>3, <1>4, <2>3 DEF Fits
    <3>2. p % WORD = p
      BY <1>1, <3>1, Wraps
    <3> QED
      BY <3>1, <3>2
  <2>5. resettime' = [sec |-> t.sec - q, usec |-> t.usec - r, tz |-> t.tz]
        /\ nticks' = nticks /\ tick_rate' = RATE
    BY <1>1, <1>3, <1>4, <2>2, <2>4 DEF ALT_SETTIMEOFDAY
  <2>6. resettime'.sec = t.sec - q /\ resettime'.usec = t.usec - r
    BY <2>5
  <2>7. ALT_GETTIMEOFDAY' = IF (t.usec - r) + r < 0 /\ ((t.sec - q) + q) * ALT_US + ((t.usec - r) + r) < 0 THEN 0
                            ELSE ((t.sec - q) + q) * ALT_US + ((t.usec - r) + r)
    BY <1>2, <2>2, <2>5, <2>6 DEF ALT_GETTIMEOFDAY, UsPerTick
  <2>8. (t.usec - r) + r = t.usec /\ (t.sec - q) + q = t.sec
    BY <2>1, <2>3
  <2> QED
    BY <2>1, <2>7, <2>8
<1>5. ASSUME nticks' = nticks + 1, NotLost
      PROVE  ALT_GETTIMEOFDAY' = ALT_GETTIMEOFDAY + UsPerTick
  <2>1. resettime' = resettime /\ tick_rate' = RATE
    <3>1. nticks' # nticks
      BY <1>1, <1>5
    <3> QED
      BY <1>1, <3>1 DEF Next, Tick, Program, TickBegin, TickWait, TickFire, TickEnd, alt_sysclk_init,
         ALT_TIMES, Start, Stop, ALT_SETTIMEOFDAY, vars
  <2>2. PICK sec \in Int, usec \in Int : sec = resettime.sec /\ usec = resettime.usec
    BY <1>1
  <2>3. PICK m \in Nat : m = nticks
    BY <1>1
  <2>4. sec * ALT_US + usec + m * U >= 0
    BY <1>3, <2>2, <2>3, <1>5 DEF NotLost
  <2>5. (m + 1) * U = m * U + U /\ m * U \in Nat /\ sec * ALT_US \in Int
    BY <1>1, <1>3
  <2>6. sec * ALT_US + usec + (m + 1) * U >= 0
    BY <1>3, <2>4, <2>5
  <2>7. ALT_GETTIMEOFDAY = sec * ALT_US + usec + m * U
    <3>1. PICK q, r : q = m \div RATE /\ r = (m * U) % ALT_US
      OBVIOUS
    <3>2. (IF usec + r < 0 /\ (sec + q) * ALT_US + (usec + r) < 0 THEN 0
           ELSE (sec + q) * ALT_US + (usec + r)) = sec * ALT_US + usec + m * U
      BY <1>2, <2>4, <3>1, ReadsTicks
    <3> QED
      BY <1>1, <1>3, <2>2, <2>3, <3>1, <3>2 DEF ALT_GETTIMEOFDAY
  <2>8. ALT_GETTIMEOFDAY' = sec * ALT_US + usec + (m + 1) * U
    <3>0. m + 1 \in Nat
      OBVIOUS
    <3>1. PICK q, r : q = (m + 1) \div RATE /\ r = ((m + 1) * U) % ALT_US
      OBVIOUS
    <3>2. (IF usec + r < 0 /\ (sec + q) * ALT_US + (usec + r) < 0 THEN 0
           ELSE (sec + q) * ALT_US + (usec + r)) = sec * ALT_US + usec + (m + 1) * U
      BY <1>2, <2>6, <3>0, <3>1, ReadsTicks
    <3>3. nticks' = m + 1 /\ resettime'.sec = sec /\ resettime'.usec = usec /\ UsPerTick' = U
      BY <1>2, <1>5, <2>1, <2>2, <2>3 DEF UsPerTick
    <3> QED
      BY <2>1, <3>1, <3>2, <3>3 DEF ALT_GETTIMEOFDAY
  <2> QED
    BY <1>3, <2>5, <2>7, <2>8
<1> QED
  BY <1>4, <1>5

(* alt_settod.c and alt_gettod.c, for any clock whose rate divides a       *)
(* second: an immediate call returns the time that was set, and from then  *)
(* on the time advances with the ticks.                                    *)
THEOREM TimeAdvances == ~ StopsNext /\ ALT_US % RATE = 0 => (Spec => TimeOfDay)
<1> SUFFICES ASSUME ~ StopsNext, ALT_US % RATE = 0 PROVE Spec => TimeOfDay
  OBVIOUS
<1>1. AlarmIndInv /\ [Next]_vars => AlarmIndInv'
  BY StepHolds
<1>2. AlarmIndInv /\ AlarmIndInv' /\ [Next]_vars =>
        [tick_rate # 0 =>
           /\ \A t \in Times :
                ALT_SETTIMEOFDAY(t) /\ Fits => ALT_GETTIMEOFDAY' = t.sec * ALT_US + t.usec
           /\ nticks' = nticks + 1 /\ NotLost => ALT_GETTIMEOFDAY' = ALT_GETTIMEOFDAY + UsPerTick]_vars
  BY TimeStep DEF AlarmIndInv
<1> QED
  BY <1>1, <1>2, InitHolds, PTL DEF Spec, TimeOfDay
=============================================================================
