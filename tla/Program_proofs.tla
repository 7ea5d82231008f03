--------------------------- MODULE Program_proofs ---------------------------
(***************************************************************************)
(* A program over the HAL, for every build, every number of objects, every *)
(* size of the descriptor table, every geometry of the caches, every       *)
(* layout of the sections, every profiled program, every speed of the busy *)
(* loop, any keys the operator types and any formats the log prints.       *)
(*                                                                         *)
(* Each part is proved about as it is alone: its inductive invariant holds *)
(* at first and is preserved by its steps.  The last section shows that a  *)
(* step of the program is a step of every part or leaves it alone, so that *)
(* what is proved of the parts holds of the program.  The radio and the    *)
(* log are in Console_proofs.                                              *)
(***************************************************************************)
EXTENDS Program, Console_proofs, SequenceTheorems, FiniteSetTheorems, WellFoundedInduction, TLAPS

-----------------------------------------------------------------------------
(* The boot.  A list gone through from its end stays one when the next is  *)
(* taken.                                                                  *)
LEMMA TakesNext ==
  ASSUME NEW s \in Seq(Int), FromTheEnd(s), Len(s) < OBJECTS
  PROVE  /\ Append(s, OBJECTS - Len(s)) \in Seq(Int)
         /\ FromTheEnd(Append(s, OBJECTS - Len(s)))
         /\ Len(Append(s, OBJECTS - Len(s))) = Len(s) + 1
<1> DEFINE t == Append(s, OBJECTS - Len(s))
<1>1. t \in Seq(Int) /\ Len(t) = Len(s) + 1 /\ DOMAIN t = 1 .. Len(s) + 1
  BY ObjectsAssumption
<1>2. \A i \in 1 .. Len(s) : t[i] = OBJECTS - (i - 1)
  BY DEF FromTheEnd
<1>3. t[Len(s) + 1] = OBJECTS - Len(s)
  BY ObjectsAssumption
<1> QED
  BY <1>1, <1>2, <1>3, ObjectsAssumption DEF FromTheEnd

LEMMA BootInitHolds == BootInit => BootIndInv
  BY ObjectsAssumption DEF BootInit, BootIndInv, BootTypeOK, FromTheEnd, Builds

(* Every step of the boot, of main() and of the ending preserves it.       *)
LEMMA BootStepHolds ==
  ASSUME BootIndInv, [BootNext]_bootVars
  PROVE  BootIndInv'
<1> USE DEF BootIndInv, BootTypeOK
<1>1. CASE UNCHANGED bootVars
  BY <1>1 DEF bootVars, FromTheEnd
<1>2. CASE alt_load_returns \/ alt_irq_init
  BY <1>2 DEF alt_load_returns, alt_irq_init, FromTheEnd
<1>3. CASE alt_sys_init \/ alt_io_redirect
  BY <1>3 DEF alt_sys_init, alt_io_redirect, FromTheEnd
<1>4. CASE _do_ctors
  <2>1. CASE Len(constructed) = OBJECTS
    BY <1>4, <2>1 DEF _do_ctors, AfterCtors, FromTheEnd
  <2>2. CASE Len(constructed) # OBJECTS
    <3>1. Len(constructed) < OBJECTS
      BY <2>2, ObjectsAssumption DEF FromTheEnd
    <3>2. constructed' \in Seq(Int) /\ FromTheEnd(constructed')
      BY <1>4, <3>1, TakesNext DEF _do_ctors
    <3>3. FromTheEnd(constructed)' /\ FromTheEnd(destructed)'
      BY <1>4, <3>2 DEF _do_ctors, FromTheEnd
    <3> QED
      BY <1>4, <2>2, <3>2, <3>3 DEF _do_ctors
  <2> QED
    BY <2>1, <2>2
<1>5. CASE RegisterDtors \/ MainReturns
  BY <1>5 DEF RegisterDtors, MainReturns, FromTheEnd
<1>6. CASE Exit
  <2>1. CASE atexit /\ Len(destructed) < OBJECTS
    <3>1. destructed' \in Seq(Int) /\ FromTheEnd(destructed')
      BY <1>6, <2>1, TakesNext DEF Exit
    <3>2. FromTheEnd(constructed)' /\ FromTheEnd(destructed)'
      BY <1>6, <3>1 DEF Exit, FromTheEnd
    <3> QED
      BY <1>6, <2>1, <3>1, <3>2 DEF Exit
  <2>2. CASE ~ (atexit /\ Len(destructed) < OBJECTS)
    BY <1>6, <2>2 DEF Exit, FromTheEnd
  <2> QED
    BY <2>1, <2>2
<1>7. CASE Stops
  BY <1>7 DEF Stops, CallsExit, Kill, FromTheEnd
<1> QED
  BY <1>1, <1>2, <1>3, <1>4, <1>5, <1>6, <1>7 DEF BootNext, BootStep

(* A list gone through from its end names no object twice.                 *)
LEMMA IsDistinct ==
  ASSUME NEW s \in Seq(Int), FromTheEnd(s)
  PROVE  Distinct(s)
  BY ObjectsAssumption DEF FromTheEnd, Distinct

LEMMA BootImplied == BootIndInv => BootInv
<1> SUFFICES ASSUME BootIndInv PROVE BootInv
  OBVIOUS
<1>1. Distinct(constructed) /\ Distinct(destructed)
  BY IsDistinct DEF BootIndInv, BootTypeOK
<1>2. \A i \in DOMAIN destructed : \E j \in DOMAIN constructed : destructed[i] = constructed[j]
  <2>1. CASE destructed = << >>
    BY <2>1
  <2>2. CASE destructed # << >>
    <3>1. Len(constructed) = OBJECTS /\ DOMAIN constructed = 1 .. OBJECTS
      BY <2>2 DEF BootIndInv, BootTypeOK
    <3>2. \A i \in DOMAIN destructed : i \in DOMAIN constructed
      BY <3>1, ObjectsAssumption DEF BootIndInv, BootTypeOK, FromTheEnd
    <3> QED
      BY <3>2 DEF BootIndInv, FromTheEnd
  <2> QED
    BY <2>1, <2>2
<1> QED
  BY <1>1, <1>2 DEF BootInv, BootIndInv

-----------------------------------------------------------------------------
(* The descriptor table.  TableRec are the records that stand for it.      *)
Entry    == [dev : Nodes \cup {NoDev}, fd_flags : SUBSET Flag]
Errno    == {"none", "ENODEV", "EMFILE", "EACCES", "EIO", "EBADFD", "ENOTSUP", "ENOTTY", "EINVAL"}
TableRec == [list : [Fd -> Entry], max : Int, opened : SUBSET Fd, rc : Int, errno : Errno]

Good(s) == s \in TableRec /\ TableOK(s)

\* No descriptor comes to refer to a node that another has locked, and no
\* descriptor comes to be locked.
NoneJoins(s, t) ==
  \A f, g \in Fd : "EXCL" \in s.list[f].fd_flags /\ t.list[g].dev = s.list[f].dev =>
                     s.list[g].dev = s.list[f].dev
NoLock(s) == \A f \in Fd : "EXCL" \notin s.list[f].fd_flags

(* The entry a call to alt_get_fd takes: free, and none of the reserved.   *)
LEMMA LowestFree ==
  ASSUME NEW s, Good(s), FreeFds(s) # {}
  PROVE  /\ Lowest(FreeFds(s)) \in Fd \ Std
         /\ s.list[Lowest(FreeFds(s))] = [dev |-> NoDev, fd_flags |-> {}]
<1> DEFINE F == FreeFds(s)
<1>1. F \in SUBSET Nat /\ F \subseteq Fd \ Std
  BY SizeAssumption DEF FreeFds, Fd, Std, Good, TableOK, EntryOK
<1>2. \E f \in F : \A g \in F : f <= g
  BY <1>1, LeastNatural
<1>3. Lowest(F) \in F
  BY <1>2 DEF Lowest
<1>4. s.list[Lowest(F)] \in Entry /\ s.list[Lowest(F)].dev = NoDev
  BY <1>1, <1>3 DEF FreeFds, Good, TableRec
<1>5. s.list[Lowest(F)].fd_flags = {}
  BY <1>1, <1>3, <1>4 DEF Good, TableOK, EntryOK
<1> QED
  BY <1>1, <1>3, <1>4, <1>5 DEF Entry

(* What a lookup finds is registered in the list it was looked for in.     *)
LEMMA Found ==
  ASSUME ListsOK, NEW k \in Kinds, NEW N
  PROVE  FirstMatch(k, N) = NoDev
           \/ (FirstMatch(k, N) \in Nodes /\ List[FirstMatch(k, N)] = k)
<1> DEFINE H == {i \in DOMAIN lists[k] : lists[k][i] \in N}
<1>1. lists[k] \in Seq(Nodes) /\ H \in SUBSET Nat /\ H \subseteq DOMAIN lists[k]
  BY DEF ListsOK
<1>4. \A i \in DOMAIN lists[k] : lists[k][i] \in Nodes /\ List[lists[k][i]] = k
  BY <1>1 DEF ListsOK
<1> HIDE DEF H
<1>0. FirstMatch(k, N) = IF H = {} THEN NoDev
                         ELSE lists[k][CHOOSE i \in H : \A j \in H : i <= j]
  BY Zenon DEF FirstMatch, H
<1>2. CASE H = {}
  BY <1>0, <1>2
<1>3. CASE H # {}
  <2>1. \E i \in H : \A j \in H : i <= j
    BY <1>1, <1>3, LeastNatural
  <2>2. (CHOOSE i \in H : \A j \in H : i <= j) \in H
    BY <2>1
  <2>3. FirstMatch(k, N) = lists[k][CHOOSE i \in H : \A j \in H : i <= j]
    BY <1>0, <1>3
  <2> QED
    BY <1>1, <1>4, <2>2, <2>3
<1> QED
  BY <1>2, <1>3

LEMMA FoundDev ==
  ASSUME ListsOK, NEW p
  PROVE  alt_find_dev(p, "dev") = NoDev
           \/ (alt_find_dev(p, "dev") \in Nodes /\ List[alt_find_dev(p, "dev")] = "dev")
BY Found DEF alt_find_dev, Kinds

LEMMA FoundFile ==
  ASSUME ListsOK, NEW p
  PROVE  alt_find_file(p) = NoDev
           \/ (alt_find_file(p) \in Nodes /\ List[alt_find_file(p)] = "fs")
BY Found DEF alt_find_file, Kinds

-----------------------------------------------------------------------------
(* What open() puts in an entry that was free, and the table it then has.  *)
MayTake(s, f, e, m) ==
  /\ f \in Fd \ Std /\ s.list[f] = [dev |-> NoDev, fd_flags |-> {}]
  /\ e \in Entry /\ e.dev # NoDev /\ "EXCL" \notin e.fd_flags
  /\ "DEV" \in e.fd_flags => List[e.dev] # "fs"
  /\ m \in Fd \ Std /\ m >= s.max /\ m >= f

Unlocked(s, d) == \A g \in Fd : "EXCL" \in s.list[g].fd_flags => s.list[g].dev # d

Taken(s, f, e, m) == [s EXCEPT !.list[f] = e, !.max = m]

(* A failed open() gives its entry back and leaves no more than a higher   *)
(* alt_max_fd behind.                                                      *)
LEMMA GivesBack ==
  ASSUME NEW s, NEW f, NEW e, NEW m, Good(s), MayTake(s, f, e, m), NEW err \in Errno
  PROVE  LET t == Fail(alt_release_fd(Taken(s, f, e, m), f), err)
         IN  Good(t) /\ t.list = s.list /\ t.rc = -1
<1> DEFINE u == Taken(s, f, e, m)
           t == Fail(alt_release_fd(u, f), err)
           free == [dev |-> NoDev, fd_flags |-> {}]
           v == [u EXCEPT !.list[f] = free]
<1>1. s \in TableRec /\ m \in Int /\ f > 2 /\ f \in Fd /\ s.list \in [Fd -> Entry] /\ e \in Entry
  BY SizeAssumption DEF Good, TableRec, Fd, Std, MayTake
<1>2. /\ u \in TableRec /\ u.list = [s.list EXCEPT ![f] = e] /\ u.opened = s.opened
      /\ u.max = m
  BY <1>1 DEF TableRec, Taken
<1>3. free \in Entry /\ s.list[f] = free
  BY DEF Entry, MayTake
<1> HIDE DEF u
<1>4. /\ v \in TableRec /\ v.list = [u.list EXCEPT ![f] = free]
      /\ v.opened = s.opened /\ v.max = m
  BY <1>1, <1>2, <1>3 DEF TableRec
<1>5. v.list = s.list
  BY <1>1, <1>2, <1>3, <1>4
<1>6. t = [v EXCEPT !.errno = err, !.rc = -1]
  BY <1>1 DEF Fail, alt_release_fd
<1> HIDE DEF v, t
<1>7. -1 \in Int
  OBVIOUS
<1>8. t \in TableRec /\ t.list = s.list /\ t.opened = s.opened /\ t.max = m /\ t.rc = -1
  BY <1>4, <1>5, <1>6, <1>7 DEF TableRec
<1>9. \A g \in Fd : EntryOK(t, g)
  <2> SUFFICES ASSUME NEW g \in Fd PROVE EntryOK(t, g)
    OBVIOUS
  <2>1. EntryOK(s, g) /\ g \in Int /\ s.max \in Int /\ m >= s.max
    BY SizeAssumption DEF Good, TableOK, Fd, Std, MayTake
  <2> QED
    BY <1>1, <1>8, <2>1 DEF EntryOK
<1>10. TableOK(t)
  BY <1>8, <1>9 DEF Good, TableOK, MayTake
<1> QED
  BY <1>8, <1>10 DEF Good, t, u

(* A successful one takes an entry whose node nobody has locked.           *)
LEMMA Takes1 ==
  ASSUME NEW s, NEW f, NEW e, NEW m, Good(s), MayTake(s, f, e, m), Unlocked(s, e.dev)
  PROVE  LET t == [Taken(s, f, e, m) EXCEPT !.opened = @ \cup {f}, !.rc = f]
         IN  /\ Good(t) /\ NoneJoins(s, t) /\ t.rc = f /\ t.list = [s.list EXCEPT ![f] = e]
             /\ NoLock(s) => NoLock(t)
<1> DEFINE t == [Taken(s, f, e, m) EXCEPT !.opened = @ \cup {f}, !.rc = f]
<1>1. s \in TableRec /\ m \in Int /\ f \in Int /\ f \in Fd /\ s.list \in [Fd -> Entry] /\ e \in Entry
  BY SizeAssumption DEF Good, TableRec, Fd, Std, MayTake
<1>2. /\ t \in TableRec /\ t.list = [s.list EXCEPT ![f] = e] /\ t.opened = s.opened \cup {f}
      /\ t.max = m /\ t.rc = f
  BY <1>1 DEF TableRec, Taken
<1> HIDE DEF t
<1>3. \A g \in Fd : EntryOK(t, g)
  <2> SUFFICES ASSUME NEW g \in Fd PROVE EntryOK(t, g)
    OBVIOUS
  <2>1. EntryOK(s, g) /\ g \in Int /\ s.max \in Int /\ m >= s.max
    BY SizeAssumption DEF Good, TableOK, Fd, Std, MayTake
  <2>2. CASE g = f
    BY <1>1, <1>2, <2>1, <2>2 DEF EntryOK, MayTake
  <2>3. CASE g # f
    <3>1. t.list[g] = s.list[g] /\ (g \in t.opened <=> g \in s.opened)
      BY <1>1, <1>2, <2>3
    <3>2. ASSUME "EXCL" \in s.list[g].fd_flags, NEW h \in Fd \ {g}, t.list[h].dev = s.list[g].dev
          PROVE  g < m /\ "EXCL" \notin t.list[h].fd_flags
      BY <1>1, <1>2, <2>1, <3>2 DEF EntryOK, Unlocked
    <3>3. g \notin Std /\ s.list[g].dev # NoDev => g <= m
      BY <1>1, <2>1 DEF EntryOK
    <3>4. "DEV" \in s.list[g].fd_flags => g <= m /\ List[s.list[g].dev] # "fs"
      BY <1>1, <2>1 DEF EntryOK
    <3> QED
      BY <1>2, <2>1, <3>1, <3>2, <3>3, <3>4 DEF EntryOK
  <2> QED
    BY <2>2, <2>3
<1>4. TableOK(t)
  BY <1>2, <1>3 DEF Good, TableOK, MayTake, TableRec, Entry
<1>5. NoneJoins(s, t)
  BY <1>1, <1>2 DEF NoneJoins, Unlocked
<1>6. NoLock(s) => NoLock(t)
  BY <1>1, <1>2 DEF NoLock, MayTake
<1> QED
  BY <1>2, <1>4, <1>5, <1>6 DEF Good, t

LEMMA Failed ==
  ASSUME NEW s, Good(s), NEW err \in Errno
  PROVE  /\ Good(Fail(s, err)) /\ Fail(s, err).list = s.list /\ Fail(s, err).rc = -1
         /\ Fail(s, err).opened = s.opened
<1>0. -1 \in Int
  OBVIOUS
<1>1. LET t == Fail(s, err)
      IN  t \in TableRec /\ t.list = s.list /\ t.opened = s.opened /\ t.max = s.max /\ t.rc = -1
  BY <1>0 DEF Good, TableRec, Fail
<1> QED
  BY <1>1 DEF Good, TableOK, EntryOK

ALT_OPEN_ok(s, t) ==
  /\ Good(t) /\ NoneJoins(s, t)
  /\ NoLock(s) => NoLock(t)
  /\ t.rc = -1 \/ (t.rc \in Fd \ Std /\ t.list[t.rc].dev # NoDev /\ t.rc \in t.opened)
  /\ \A f \in Std : t.list[f] = s.list[f]

LEMMA Opened ==
  ASSUME ListsOK, NEW s, Good(s), NEW p, NEW flags \in SUBSET Flag, NEW ok \in BOOLEAN,
         NEW t, t = ALT_OPEN(s, p, flags, ok)
  PROVE  ALT_OPEN_ok(s, t)
<1> DEFINE device == alt_find_dev(p, "dev")
           d      == IF device # NoDev THEN device ELSE alt_find_file(p)
           f      == Lowest(FreeFds(s))
           e      == [dev |-> d, fd_flags |-> (flags \ ALT_FD_FLAGS_MASK)
                        \cup IF device # NoDev THEN {"DEV"} ELSE {}]
           m      == IF f > s.max THEN f ELSE s.max
           got    == [s EXCEPT !.list[f] = e, !.max = m]
<1>1. /\ device = NoDev \/ (device \in Nodes /\ List[device] = "dev")
      /\ device = NoDev => d = NoDev \/ (d \in Nodes /\ List[d] = "fs")
  BY FoundDev, FoundFile
<1> DEFINE Result(g) ==
             IF d = NoDev THEN Fail(s, "ENODEV")
             ELSE IF FreeFds(s) = {} THEN Fail(s, "EMFILE")
             ELSE IF device # NoDev /\ alt_file_locked(g, f)
               THEN Fail(alt_release_fd(g, f), "EACCES")
             ELSE IF "open" \in Provides[d] /\ ~ ok
               THEN Fail(alt_release_fd(g, f), "EIO")
             ELSE [g EXCEPT !.opened = @ \cup {f}, !.rc = f]
           alloc  == [alt_get_fd(s, d) EXCEPT
                        !.list[f].fd_flags = (flags \ ALT_FD_FLAGS_MASK)
                          \cup IF device # NoDev THEN {"DEV"} ELSE {}]
<1>2. t = Result(alloc)
  BY Zenon DEF ALT_OPEN
<1>3. FreeFds(s) # {} => f \in Fd \ Std /\ s.list[f] = [dev |-> NoDev, fd_flags |-> {}]
  BY LowestFree
<1>4. FreeFds(s) # {} => alloc = got
  <2> HIDE DEF d, device, f
  <2> QED
    <3> SUFFICES ASSUME FreeFds(s) # {} PROVE alloc = got
      OBVIOUS
    <3> DEFINE l1 == [s.list EXCEPT ![f].dev = d]
               l2 == [l1 EXCEPT ![f].fd_flags = e.fd_flags]
    <3>1. s \in TableRec /\ f \in Fd
      BY <1>3 DEF Good
    <3>2. alt_get_fd(s, d) = [s EXCEPT !.list = l1, !.max = m]
      BY Zenon DEF alt_get_fd, f
    <3>3. alloc = [s EXCEPT !.list = l2, !.max = m]
      BY <3>1, <3>2 DEF TableRec
    <3>4. s.list \in [Fd -> Entry] /\ s.list[f] = [dev |-> NoDev, fd_flags |-> {}]
      BY <3>1, <1>3 DEF TableRec
    <3>5. l1 = [s.list EXCEPT ![f] = [dev |-> d, fd_flags |-> {}]]
      BY <3>4
    <3>6. l2 = [l1 EXCEPT ![f] = e]
      BY <3>1, <3>4, <3>5
    <3>7. l2 = [s.list EXCEPT ![f] = e]
      BY <3>1, <3>4, <3>5, <3>6
    <3> QED
      BY <3>3, <3>7
<1> HIDE DEF d, device, f, got, alloc
<1>5. CASE d = NoDev \/ FreeFds(s) = {}
  <2>1. t = Fail(s, "ENODEV") \/ t = Fail(s, "EMFILE")
    BY <1>2, <1>5
  <2>2. Good(t) /\ t.list = s.list /\ t.rc = -1
    BY <2>1, Failed DEF Errno
  <2> QED
    BY <2>2 DEF ALT_OPEN_ok, NoneJoins, NoLock
<1>6. CASE d # NoDev /\ FreeFds(s) # {}
  <2>1. /\ f \in Fd \ Std /\ s.list[f] = [dev |-> NoDev, fd_flags |-> {}]
        /\ d \in Nodes /\ e \in Entry /\ e.dev # NoDev /\ "EXCL" \notin e.fd_flags
        /\ "DEV" \in e.fd_flags <=> device # NoDev
        /\ m \in Fd \ Std /\ m >= s.max /\ m >= f
        /\ MayTake(s, f, e, m)
    <3>1. d \in Nodes
      BY <1>1, <1>6 DEF d
    <3>2. e \in Entry
      BY <3>1 DEF Entry, Flag
    <3> QED
      BY <3>1, <3>2, <1>1, <1>3, <1>6, SizeAssumption DEF ALT_FD_FLAGS_MASK, MayTake, d, Good, TableOK, Fd, Std
  <2>2. got = Taken(s, f, e, m)
    BY DEF got, Taken
  <2>3. t = Result(got)
    BY <1>2, <1>4, <1>6
  <2> HIDE DEF e, m
  <2>4. CASE t = Fail(alt_release_fd(got, f), "EACCES") \/ t = Fail(alt_release_fd(got, f), "EIO")
    <3>1. Good(t) /\ t.list = s.list /\ t.rc = -1
      BY <2>1, <2>2, <2>4, GivesBack DEF Errno
    <3> QED
      BY <3>1 DEF ALT_OPEN_ok, NoneJoins, NoLock
  <2>5. CASE /\ t = [got EXCEPT !.opened = @ \cup {f}, !.rc = f]
             /\ ~ (device # NoDev /\ alt_file_locked(got, f))
    <3>2. Unlocked(s, e.dev)
      <4> SUFFICES ASSUME NEW g \in Fd, "EXCL" \in s.list[g].fd_flags, s.list[g].dev = e.dev
                   PROVE  FALSE
        BY DEF Unlocked
      <4>1. EntryOK(s, g) /\ e.dev = d
        BY DEF Good, TableOK, e
      <4>2. List[d] # "fs" /\ g # f /\ device # NoDev /\ d = device
        BY <1>1, <1>6, <2>1, <4>1 DEF EntryOK, d
      <4>3. s \in TableRec /\ s.list \in [Fd -> Entry] /\ f \in Fd
        BY <2>1 DEF Good, TableRec
      <4>4. got.list = [s.list EXCEPT ![f] = e] /\ got.max = m
        BY <2>2, <4>3 DEF Taken, TableRec
      <4>5. g \in 0 .. m
        <5>1. g <= s.max /\ s.max <= m
          BY <2>1, <4>1 DEF EntryOK
        <5>2. g \in Nat /\ s.max \in Int /\ m \in Nat
          BY <2>1, <4>3, SizeAssumption DEF TableRec, Fd, Std
        <5> QED
          BY <5>1, <5>2
      <4>6. alt_file_locked(got, f)
        BY <4>1, <4>2, <4>3, <4>4, <4>5 DEF alt_file_locked
      <4> QED
        BY <2>5, <4>2, <4>6
    <3>3. t = [Taken(s, f, e, m) EXCEPT !.opened = @ \cup {f}, !.rc = f]
      BY <2>2, <2>5
    <3>4. /\ Good(t) /\ NoneJoins(s, t) /\ t.rc = f /\ t.list = [s.list EXCEPT ![f] = e]
          /\ NoLock(s) => NoLock(t)
      <4> DEFINE u == [Taken(s, f, e, m) EXCEPT !.opened = @ \cup {f}, !.rc = f]
      <4>1. /\ Good(u) /\ NoneJoins(s, u) /\ u.rc = f /\ u.list = [s.list EXCEPT ![f] = e]
            /\ NoLock(s) => NoLock(u)
        BY <2>1, <3>2, Takes1, Zenon
      <4> HIDE DEF u
      <4> QED
        BY <3>3, <4>1, Zenon DEF u
    <3>5. s.list \in [Fd -> Entry] /\ f \in t.opened
      BY <3>3 DEF Good, TableRec, Taken
    <3> QED
      BY <2>1, <3>4, <3>5, SizeAssumption DEF ALT_OPEN_ok, Fd, Std
  <2> QED
    BY <1>6, <2>3, <2>4, <2>5
<1> QED
  BY <1>5, <1>6

-----------------------------------------------------------------------------
(* The other calls.                                                        *)
CallOK(s, t) == Good(t) /\ NoneJoins(s, t)

LEMMA Keeps ==
  ASSUME NEW s, Good(s), NEW t \in TableRec,
         t.list = s.list, t.max = s.max, t.opened = s.opened
  PROVE  CallOK(s, t)
BY DEF CallOK, Good, TableOK, EntryOK, NoneJoins

LEMMA Fails ==
  ASSUME NEW s, Good(s), NEW err \in Errno
  PROVE  CallOK(s, Fail(s, err))
BY Failed DEF CallOK, NoneJoins

LEMMA Answers ==
  ASSUME NEW s, Good(s)
  PROVE  CallOK(s, [s EXCEPT !.rc = 0])
<1>1. s \in TableRec
  BY DEF Good
<1> QED
  BY <1>1, Keeps DEF TableRec

LEMMA Vectors ==
  ASSUME NEW s, Good(s), NEW f, NEW op, NEW ok, NEW err \in Errno
  PROVE  CallOK(s, Driver(s, f, op, ok, err))
BY Fails, Answers DEF Driver, Errno

LEMMA TransfersOK ==
  ASSUME NEW s, Good(s), NEW f, NEW ok
  PROVE  /\ CallOK(s, ALT_READ(s, f, ok)) /\ CallOK(s, ALT_WRITE(s, f, ok))
         /\ CallOK(s, ALT_LSEEK(s, f, ok))
BY Fails, Vectors DEF ALT_READ, ALT_WRITE, ALT_LSEEK, Errno

LEMMA StatsOK ==
  ASSUME NEW s, Good(s), NEW f
  PROVE  CallOK(s, ALT_FSTAT(s, f)) /\ CallOK(s, ALT_ISATTY(s, f))
BY Fails, Answers DEF ALT_FSTAT, ALT_ISATTY, Errno

LEMMA Closed ==
  ASSUME NEW s, Good(s), NEW f \in {-1} \cup Fd, NEW ok,
         NEW t, t = ALT_CLOSE(s, f, ok)
  PROVE  CallOK(s, t) /\ \A g \in Fd : t.list[g].dev \in {s.list[g].dev, NoDev}
<1> DEFINE free == [dev |-> NoDev, fd_flags |-> {}]
           o    == [s EXCEPT !.opened = @ \ {f}, !.rc = 0]
           c    == alt_release_fd(o, f)
<1>1. s \in TableRec /\ s.list \in [Fd -> Entry] /\ free \in Entry
  BY DEF Good, TableRec, Entry
<1>2. CASE f = -1
  <2>1. t = Fail(s, "EBADFD")
    BY <1>2 DEF ALT_CLOSE
  <2> QED
    BY <2>1, Failed DEF CallOK, NoneJoins, Errno
<1>3. CASE f \in Fd
  <2>1. f \in Nat /\ ~ (f < 0)
    BY <1>3, SizeAssumption DEF Fd
  <2>2. t = Fail(c, "EIO") \/ t = c
    BY <2>1 DEF ALT_CLOSE
  <2>3. o \in TableRec /\ o.list = s.list /\ o.max = s.max /\ o.opened = s.opened \ {f}
    <3>1. s.opened \ {f} \in SUBSET Fd /\ 0 \in Int
      BY <1>1 DEF TableRec
    <3> QED
      BY <1>1, <3>1 DEF TableRec
  <2> HIDE DEF o
  <2>4. /\ c \in TableRec /\ c.max = s.max /\ c.opened = s.opened \ {f}
        /\ c.list = IF f > 2 THEN [s.list EXCEPT ![f] = free] ELSE s.list
    BY <1>1, <1>3, <2>3 DEF TableRec, alt_release_fd
  <2> HIDE DEF c
  <2>5. \A g \in Fd : EntryOK(c, g)
    <3> SUFFICES ASSUME NEW g \in Fd PROVE EntryOK(c, g)
      OBVIOUS
    <3>1. EntryOK(s, g) /\ g \in Int /\ (f > 2 <=> f \notin Std)
      BY <2>1, SizeAssumption DEF Good, TableOK, Fd, Std
    <3>2. CASE g = f /\ f > 2
      BY <1>1, <1>3, <2>4, <3>1, <3>2 DEF EntryOK
    <3>3. CASE ~ (g = f /\ f > 2)
      <4>1. c.list[g] = s.list[g] /\ (g \notin Std => (g \in c.opened <=> g \in s.opened))
        BY <1>1, <1>3, <2>1, <2>4, <3>1, <3>3
      <4>2. \A h \in Fd : c.list[h] = s.list[h] \/ c.list[h] = free
        BY <1>1, <1>3, <2>4
      <4> QED
        BY <2>4, <3>1, <4>1, <4>2 DEF EntryOK
    <3> QED
      BY <3>2, <3>3
  <2>6. Good(c)
    BY <2>4, <2>5 DEF Good, TableOK, TableRec, Entry
  <2>7. \A g \in Fd : c.list[g].dev \in {s.list[g].dev, NoDev}
    BY <1>1, <1>3, <2>4
  <2>8. Good(t) /\ t.list = c.list
    BY <2>2, <2>6, Failed DEF Errno
  <2>9. NoneJoins(s, t)
    BY <2>7, <2>8 DEF NoneJoins, Good, TableOK, EntryOK
  <2> QED
    BY <2>7, <2>8, <2>9 DEF CallOK
<1> QED
  BY <1>2, <1>3

(* stat() opens and closes.                                                *)
LEMMA StatOK ==
  ASSUME ListsOK, NEW s, Good(s), NEW p, NEW ok \in [{1, 2} -> BOOLEAN]
  PROVE  CallOK(s, ALT_STAT(s, p, ok))
<1> DEFINE o == ALT_OPEN(s, p, {}, ok[1])
           a == ALT_FSTAT(o, o.rc)
           t == ALT_CLOSE(a, o.rc, ok[2])
<1>1. ALT_OPEN_ok(s, o)
  BY Opened DEF Flag
<1> HIDE DEF o
<1>2. Good(o) /\ NoneJoins(s, o) /\ o.rc \in {-1} \cup Fd
  BY <1>1 DEF ALT_OPEN_ok
<1>3. Good(a) /\ a.list = o.list
  <2>1. o \in TableRec
    BY <1>2 DEF Good
  <2>2. a = Fail(o, "EBADFD") \/ a = [o EXCEPT !.rc = 0]
    BY DEF ALT_FSTAT
  <2>3. a.list = o.list
    BY <1>2, <2>1, <2>2, Failed DEF TableRec, Errno
  <2> QED
    BY <1>2, <2>3, StatsOK DEF CallOK
<1> HIDE DEF a
<1>4. CallOK(a, t) /\ \A g \in Fd : t.list[g].dev \in {a.list[g].dev, NoDev}
  BY <1>2, <1>3, Closed
<1>5. t = ALT_STAT(s, p, ok)
  BY DEF ALT_STAT, o, a
<1> HIDE DEF t
<1>6. NoneJoins(s, t)
  BY <1>2, <1>3, <1>4 DEF NoneJoins, Good, TableOK, EntryOK
<1> QED
  BY <1>4, <1>5, <1>6 DEF CallOK

(* A change of flags that leaves a descriptor a device's or not, and locks *)
(* nothing.                                                                *)
MayReflag(s, f, fl) ==
  /\ f \in Fd /\ s.list[f].dev # NoDev /\ fl \in SUBSET Flag
  /\ "DEV" \in fl <=> "DEV" \in s.list[f].fd_flags
  /\ "EXCL" \in fl => "EXCL" \in s.list[f].fd_flags

Reflag(s, f, fl) == [s EXCEPT !.list[f].fd_flags = fl, !.rc = 0]

LEMMA Reflags ==
  ASSUME NEW s, Good(s), NEW f, NEW fl, MayReflag(s, f, fl)
  PROVE  CallOK(s, Reflag(s, f, fl))
<1> DEFINE l == [s.list EXCEPT ![f].fd_flags = fl]
           t == [s EXCEPT !.list = l, !.rc = 0]
<1>1. s \in TableRec /\ s.list \in [Fd -> Entry]
  BY DEF Good, TableRec
<1>2. Reflag(s, f, fl) = t
  BY <1>1 DEF TableRec, Reflag
<1>3. /\ l \in [Fd -> Entry]
      /\ \A g \in Fd : l[g].dev = s.list[g].dev
      /\ \A g \in Fd : l[g].fd_flags = IF g = f THEN fl ELSE s.list[g].fd_flags
  BY <1>1 DEF Entry, MayReflag
<1> HIDE DEF l
<1>4. t \in TableRec /\ t.list = l /\ t.max = s.max /\ t.opened = s.opened
  <2>1. 0 \in Int
    OBVIOUS
  <2> QED
    BY <1>1, <1>3, <2>1 DEF TableRec
<1> HIDE DEF t
<1>5. \A g \in Fd : EntryOK(t, g)
  <2> SUFFICES ASSUME NEW g \in Fd PROVE EntryOK(t, g)
    OBVIOUS
  <2>1. EntryOK(s, g)
    BY DEF Good, TableOK
  <2>2. \A h \in Fd : "EXCL" \in t.list[h].fd_flags => "EXCL" \in s.list[h].fd_flags
    BY <1>3, <1>4 DEF MayReflag
  <2> QED
    BY <1>3, <1>4, <2>1, <2>2 DEF EntryOK, MayReflag
<1>6. Good(t)
  BY <1>3, <1>4, <1>5 DEF Good, TableOK, Entry
<1>7. NoneJoins(s, t)
  BY <1>3, <1>4 DEF NoneJoins
<1> QED
  BY <1>2, <1>6, <1>7 DEF CallOK

LEMMA FcntlOK ==
  ASSUME NEW s, Good(s), NEW f \in {-1} \cup Fd, f \in Fd => s.list[f].dev # NoDev,
         NEW cmd \in {"F_GETFL", "F_SETFL", "other"}, NEW fl \in SUBSET Flag
  PROVE  CallOK(s, ALT_FCNTL(s, f, cmd, fl))
<1> DEFINE t == ALT_FCNTL(s, f, cmd, fl)
           nf == (s.list[f].fd_flags \ ALT_FCNTL_FLAGS_MASK) \cup (fl \cap ALT_FCNTL_FLAGS_MASK)
<1>1. CASE f = -1
  <2>1. t = Fail(s, "EBADFD")
    BY <1>1 DEF ALT_FCNTL
  <2> QED
    BY <2>1, Fails DEF Errno
<1>2. CASE f \in Fd
  <2>1. ~ (f < 0)
    BY <1>2, SizeAssumption DEF Fd
  <2>2. CASE cmd = "F_GETFL"
    <3>1. t = [s EXCEPT !.rc = 0]
      BY <2>1, <2>2 DEF ALT_FCNTL
    <3> QED
      BY <3>1, Answers
  <2>3. CASE cmd = "F_SETFL"
    <3>1. t = Reflag(s, f, nf)
      BY <2>1, <2>3 DEF ALT_FCNTL, Reflag
    <3>2. s.list[f].fd_flags \in SUBSET Flag
      BY <1>2 DEF Good, TableRec, Entry
    <3>3. MayReflag(s, f, nf)
      BY <1>2, <3>2 DEF ALT_FCNTL_FLAGS_MASK, MayReflag
    <3> HIDE DEF nf
    <3> QED
      BY <1>2, <3>1, <3>3, Reflags
  <2>4. CASE cmd = "other"
    <3>1. t = Fail(s, "EINVAL")
      BY <2>1, <2>4 DEF ALT_FCNTL
    <3> QED
      BY <3>1, Fails DEF Errno
  <2> QED
    BY <2>2, <2>3, <2>4
<1> QED
  BY <1>1, <1>2

(* alt_fd_lock looks at no more than the descriptors below the highest:    *)
(* the one it misses is the highest, which then is not locked itself.      *)
LEMMA LockOK ==
  ASSUME NEW s, Good(s), NEW f \in Fd, s.list[f].dev # NoDev, "DEV" \in s.list[f].fd_flags
  PROVE  CallOK(s, alt_fd_lock(s, f))
<1> DEFINE l == [s.list EXCEPT ![f].fd_flags = @ \cup {"EXCL"}]
           t == [s EXCEPT !.list = l, !.rc = 0]
<1>1. s \in TableRec /\ s.list \in [Fd -> Entry]
  BY DEF Good, TableRec
<1>2. CASE \E i \in 0 .. s.max - 1 : i # f /\ s.list[i].dev = s.list[f].dev
  BY <1>2, Fails DEF alt_fd_lock, Errno
<1>3. CASE ~ \E i \in 0 .. s.max - 1 : i # f /\ s.list[i].dev = s.list[f].dev
  <2>1. [s EXCEPT !.list[f].fd_flags = @ \cup {"EXCL"}, !.rc = 0] = t
    BY <1>1 DEF TableRec
  <2>2. /\ l \in [Fd -> Entry]
        /\ \A g \in Fd : l[g].dev = s.list[g].dev
        /\ \A g \in Fd : l[g].fd_flags = s.list[g].fd_flags \cup IF g = f THEN {"EXCL"} ELSE {}
    BY <1>1 DEF Entry, Flag
  <2> HIDE DEF l
  <2>3. t \in TableRec /\ t.list = l /\ t.max = s.max /\ t.opened = s.opened
    <3>1. 0 \in Int
      OBVIOUS
    <3> QED
      BY <1>1, <2>2, <3>1 DEF TableRec
  <2> HIDE DEF t
  <2>4. ASSUME NEW g \in Fd \ {f}, s.list[g].dev = s.list[f].dev
        PROVE  f < s.max /\ "EXCL" \notin s.list[g].fd_flags
    <3>1. EntryOK(s, f) /\ EntryOK(s, g)
      BY DEF Good, TableOK
    <3>2. f \in Nat /\ g \in Nat /\ s.max \in Int /\ ~ (g \in 0 .. s.max - 1)
      BY <1>1, <1>3, <2>4, SizeAssumption DEF Fd, TableRec
    <3>3. f <= s.max /\ g >= s.max
      BY <3>1, <3>2 DEF EntryOK
    <3>4. s.max \in Fd \ Std /\ s.max > 2
      BY <3>2, <3>3 DEF Good, TableOK, Fd, Std
    <3>5. g <= s.max
      BY <2>4, <3>1, <3>2, <3>4 DEF EntryOK, Std
    <3>6. f < s.max
      BY <3>2, <3>3, <3>5
    <3>7. "EXCL" \in s.list[g].fd_flags => g < s.max
      BY <2>4, <3>1 DEF EntryOK
    <3> QED
      BY <3>2, <3>3, <3>6, <3>7
  <2>5. \A g \in Fd : EntryOK(t, g)
    <3> SUFFICES ASSUME NEW g \in Fd PROVE EntryOK(t, g)
      OBVIOUS
    <3>1. EntryOK(s, g) /\ EntryOK(s, f)
      BY DEF Good, TableOK
    <3>2. ASSUME "EXCL" \in t.list[g].fd_flags, NEW h \in Fd \ {g}, t.list[h].dev = t.list[g].dev
          PROVE  g < t.max /\ "EXCL" \notin t.list[h].fd_flags
      <4>1. CASE g = f
        BY <2>3, <2>2, <2>4, <3>2, <4>1
      <4>2. CASE g # f
        <5>1. "EXCL" \in s.list[g].fd_flags
          BY <2>2, <2>3, <3>2, <4>2
        <5>2. h # f
          BY <2>2, <2>3, <2>4, <3>2, <4>2, <5>1
        <5> QED
          BY <2>3, <2>2, <3>1, <3>2, <5>1, <5>2 DEF EntryOK
      <4> QED
        BY <4>1, <4>2
    <3> QED
      BY <2>3, <2>2, <3>1, <3>2 DEF EntryOK
  <2>6. CallOK(s, t)
    BY <2>2, <2>3, <2>5 DEF CallOK, Good, TableOK, NoneJoins, Entry
  <2> QED
    BY <1>3, <2>1, <2>6 DEF alt_fd_lock
<1> QED
  BY <1>2, <1>3

LEMMA IoctlOK ==
  ASSUME NEW s, Good(s), NEW f \in {-1} \cup Fd, f \in Fd => s.list[f].dev # NoDev,
         NEW req, NEW ok
  PROVE  CallOK(s, ALT_IOCTL(s, f, req, ok))
<1> DEFINE t == ALT_IOCTL(s, f, req, ok)
<1>1. CASE f = -1
  <2>1. t = Fail(s, "EBADFD")
    BY <1>1 DEF ALT_IOCTL
  <2> QED
    BY <2>1, Fails DEF Errno
<1>2. CASE f \in Fd
  <2>1. ~ (f < 0)
    BY <1>2, SizeAssumption DEF Fd
  <2>2. \/ t = alt_fd_lock(s, f) /\ "DEV" \in s.list[f].fd_flags
        \/ t = alt_fd_unlock(s, f)
        \/ t = Driver(s, f, "ioctl", ok, "ENOTTY")
    BY <2>1 DEF ALT_IOCTL
  <2>3. CASE t = alt_fd_lock(s, f) /\ "DEV" \in s.list[f].fd_flags
    BY <1>2, <2>3, LockOK
  <2>4. CASE t = alt_fd_unlock(s, f)
    <3> DEFINE nf == s.list[f].fd_flags \ {"EXCL"}
    <3>1. t = Reflag(s, f, nf)
      BY <2>4 DEF alt_fd_unlock, Reflag
    <3>2. s.list[f].fd_flags \in SUBSET Flag
      BY <1>2 DEF Good, TableRec, Entry
    <3>3. MayReflag(s, f, nf)
      BY <1>2, <3>2 DEF MayReflag
    <3> HIDE DEF nf
    <3> QED
      BY <1>2, <3>1, <3>3, Reflags
  <2>5. CASE t = Driver(s, f, "ioctl", ok, "ENOTTY")
    BY <2>5, Vectors DEF Errno
  <2> QED
    BY <2>2, <2>3, <2>4, <2>5
<1> QED
  BY <1>1, <1>2

-----------------------------------------------------------------------------
(* The redirection opens before the program can lock: what it opens takes  *)
(* the place of a reserved entry, and the entry it was opened in is freed. *)
LEMMA RedirectsOne ==
  ASSUME ListsOK, NEW s, Good(s), NoLock(s), NEW f \in Std, NEW p, NEW flags \in SUBSET Flag,
         NEW ok \in BOOLEAN, NEW t, t = alt_open_fd(s, f, p, flags, ok)
  PROVE  Good(t) /\ NoLock(t)
<1> DEFINE o    == ALT_OPEN(s, p, flags, ok)
           r    == o.rc
           free == [dev |-> NoDev, fd_flags |-> {}]
           l    == [o.list EXCEPT ![f] = o.list[r]]
           n    == (o.opened \ {r}) \cup {f}
           u    == [o EXCEPT !.list = l, !.opened = n]
           v    == [u EXCEPT !.list[r] = free]
<1>1. ALT_OPEN_ok(s, o)
  BY Opened
<1>2. t = IF r < 0 THEN o
          ELSE alt_release_fd([o EXCEPT !.list[f] = o.list[o.rc],
                                        !.opened = (@ \ {o.rc}) \cup {f}], o.rc)
  BY Zenon DEF alt_open_fd
<1> HIDE DEF o
<1>3. o \in TableRec /\ o.list \in [Fd -> Entry] /\ Good(o) /\ NoLock(o)
  BY <1>1 DEF ALT_OPEN_ok, Good, TableRec
<1>4. CASE r = -1
  BY <1>2, <1>3, <1>4
<1>5. CASE r \in Fd \ Std /\ o.list[r].dev # NoDev
  <2>1. r > 2 /\ r \in Nat /\ r \in Fd /\ f \in Fd /\ f \in Nat /\ f < r /\ ~ (r < 0)
    BY <1>5, SizeAssumption DEF Fd, Std
  <2>2. t = alt_release_fd(u, r)
    BY <1>2, <1>3, <2>1 DEF TableRec
  <2>3. /\ l \in [Fd -> Entry] /\ l[f] = o.list[r] /\ n \in SUBSET Fd
        /\ \A g \in Fd \ {f} : l[g] = o.list[g]
    BY <1>3, <2>1 DEF TableRec
  <2>4. \A g \in Fd \ Std : g \in n <=> g \in o.opened /\ g # r
    BY <2>1
  <2> HIDE DEF r, l, n
  <2>5. u \in TableRec /\ u.list = l /\ u.opened = n /\ u.max = o.max
    BY <1>3, <2>3 DEF TableRec
  <2> HIDE DEF u
  <2>6. free \in Entry
    BY DEF Entry
  <2>7. v \in TableRec /\ v.list = [l EXCEPT ![r] = free] /\ v.opened = n /\ v.max = o.max
    BY <2>1, <2>3, <2>5, <2>6 DEF TableRec
  <2>8. t = v
    BY <2>1, <2>2 DEF alt_release_fd
  <2> HIDE DEF v
  <2>9. /\ t.list \in [Fd -> Entry] /\ t.list[f] = o.list[r] /\ t.list[r] = free
        /\ \A g \in Fd \ {f, r} : t.list[g] = o.list[g]
    <3>1. t.list = [l EXCEPT ![r] = free] /\ f # r
      BY <2>1, <2>7, <2>8
    <3> HIDE DEF free
    <3> QED
      BY <2>1, <2>3, <2>6, <3>1
  <2>10. NoLock(t)
    BY <1>3, <2>1, <2>9 DEF NoLock
  <2>11. \A g \in Fd : EntryOK(t, g)
    <3> SUFFICES ASSUME NEW g \in Fd PROVE EntryOK(t, g)
      OBVIOUS
    <3>1. EntryOK(o, g) /\ EntryOK(o, r) /\ o.max \in Int
      BY <1>3, <2>1 DEF Good, TableOK, TableRec
    <3>2. CASE g = f
      <4>1. "DEV" \in o.list[r].fd_flags => f <= o.max
        BY <2>1, <3>1 DEF EntryOK
      <4> QED
        BY <1>5, <2>7, <2>8, <2>9, <2>10, <3>1, <3>2, <4>1 DEF EntryOK, NoLock
    <3>3. CASE g = r
      BY <1>5, <2>1, <2>4, <2>7, <2>8, <2>9, <3>3 DEF EntryOK
    <3>4. CASE g # f /\ g # r
      BY <2>4, <2>7, <2>8, <2>9, <2>10, <3>1, <3>4 DEF EntryOK, NoLock
    <3> QED
      BY <3>2, <3>3, <3>4
  <2>12. Good(t)
    BY <1>3, <2>7, <2>8, <2>9, <2>11 DEF Good, TableOK, TableRec, Entry
  <2> QED
    BY <2>10, <2>12
<1> QED
  BY <1>1, <1>4, <1>5 DEF ALT_OPEN_ok

-----------------------------------------------------------------------------
(* What the program is told of a call is not kept.                         *)
LEMMA Updated ==
  ASSUME NEW o, Good(o), Update(o)
  PROVE  TableOK(Table)' /\ alt_fd_list' = o.list
BY DEF Good, TableOK, EntryOK, Update, Table

LEMMA TableIsGood ==
  ASSUME TableOK(Table)
  PROVE  Good(Table)
<1>1. /\ alt_fd_list \in [Fd -> Entry] /\ alt_max_fd \in Int /\ opened \in SUBSET Fd
      /\ -1 \in Int
  BY SizeAssumption DEF TableOK, Table, Entry, Fd
<1>2. Table \in TableRec
  BY <1>1 DEF Table, TableRec, Errno
<1> QED
  BY <1>2 DEF Good

LEMMA InitPool == FdInit => PoolIndInv
<1> SUFFICES ASSUME FdInit PROVE PoolIndInv
  OBVIOUS
<1>1. alt_dev_null \in Nodes /\ List[alt_dev_null] = "dev" /\ alt_dev_null # NoDev
  BY NodesAssumption DEF alt_dev_null
<1>2. ListsOK
  BY <1>1 DEF ListsOK, FdInit, Kinds
<1>3. TableOK(Table)
  BY <1>1, SizeAssumption DEF TableOK, EntryOK, Table, FdInit, Fd, Std
<1> QED
  BY <1>2, <1>3 DEF PoolIndInv, FdInit

LEMMA RegPool == PoolIndInv /\ Reg => PoolIndInv'
<1> SUFFICES ASSUME PoolIndInv, Reg PROVE PoolIndInv'
  OBVIOUS
<1> DEFINE d == SysInit[registered + 1]
<1>1. d \in Nodes /\ List[d] \in Kinds
  BY SysInitAssumption, NodesAssumption DEF PoolIndInv, Reg, Kinds
<1>2. lists' = lists \/ lists' = [lists EXCEPT ![List[d]] = <<d>> \o @]
  BY DEF Reg, alt_fs_reg, alt_dev_llist_insert
<1>3. lists \in [Kinds -> Seq(Nodes)]
  BY DEF PoolIndInv, ListsOK
<1> HIDE DEF d
<1>4. ASSUME lists' = [lists EXCEPT ![List[d]] = <<d>> \o @] PROVE ListsOK'
  <2> DEFINE q == <<d>> \o lists[List[d]]
  <2>1. /\ q \in Seq(Nodes)
        /\ \A i \in DOMAIN q : List[q[i]] = List[d]
    <3>1. lists[List[d]] \in Seq(Nodes)
      BY <1>1, <1>3
    <3>2. \A i \in DOMAIN lists[List[d]] : List[lists[List[d]][i]] = List[d]
      BY <1>1 DEF PoolIndInv, ListsOK
    <3> QED
      BY <1>1, <3>1, <3>2
  <2> HIDE DEF q
  <2>2. lists' = [lists EXCEPT ![List[d]] = q]
    BY <1>4 DEF q
  <2> QED
    BY <1>1, <1>3, <2>1, <2>2 DEF PoolIndInv, ListsOK
<1>5. ListsOK'
  BY <1>2, <1>4 DEF PoolIndInv, ListsOK
<1> QED
  BY <1>5 DEF PoolIndInv, Reg, Table, TableOK, EntryOK

LEMMA RedirectPool == PoolIndInv /\ Redirect => PoolIndInv'
<1> SUFFICES ASSUME PoolIndInv, Redirect PROVE PoolIndInv'
  OBVIOUS
<1>1. Good(Table) /\ NoLock(Table) /\ ListsOK
  BY TableIsGood DEF PoolIndInv, Redirect, NoLock, Table
<1>2. 0 \in Std /\ 1 \in Std /\ 2 \in Std
  BY DEF Std
<1>3. {"O_WRONLY"} \in SUBSET Flag /\ {} \in SUBSET Flag
  BY DEF Flag
<1>4. PICK o \in OneOpened(Table, 1, {"O_WRONLY"}) :
        \E i \in OneOpened(o, 0, {}) : \E e \in OneOpened(i, 2, {"O_WRONLY"}) : Update(e)
  BY DEF Redirect
<1>5. Good(o) /\ NoLock(o)
  BY <1>1, <1>2, <1>3, RedirectsOne DEF OneOpened
<1>6. PICK i \in OneOpened(o, 0, {}) : \E e \in OneOpened(i, 2, {"O_WRONLY"}) : Update(e)
  BY <1>4
<1>7. Good(i) /\ NoLock(i)
  BY <1>1, <1>2, <1>3, <1>5, RedirectsOne DEF OneOpened
<1>8. PICK e \in OneOpened(i, 2, {"O_WRONLY"}) : Update(e)
  BY <1>6
<1>9. Good(e)
  BY <1>1, <1>2, <1>3, <1>7, RedirectsOne DEF OneOpened
<1> QED
  BY <1>8, <1>9, Updated DEF PoolIndInv, Redirect, ListsOK

(* No call of a program breaks the table or lets a descriptor join another *)
(* in a locked node.                                                       *)
LEMMA OutcomesOK ==
  ASSUME ListsOK, Good(Table)
  PROVE  \A o \in Outcomes : CallOK(Table, o)
<1>1. Held \subseteq {-1} \cup Fd /\ \A f \in Held : f \in Fd => Table.list[f].dev # NoDev
  BY SizeAssumption DEF Held, Table, Fd
<1>2. \A o \in Opens : CallOK(Table, o)
  <2> SUFFICES ASSUME NEW p \in Paths, NEW fl \in OpenFlags, NEW ok \in BOOLEAN
               PROVE  CallOK(Table, ALT_OPEN(Table, p, fl, ok))
    BY DEF Opens
  <2>1. fl \in SUBSET Flag
    BY FlagsAssumption DEF Flag
  <2> QED
    BY <2>1, Opened DEF ALT_OPEN_ok, CallOK
<1>3. \A o \in Closes : CallOK(Table, o)
  BY <1>1, Closed DEF Closes
<1>4. \A o \in Stats : CallOK(Table, o)
  BY StatOK DEF Stats
<1>5. \A o \in Ioctls : CallOK(Table, o)
  BY <1>1, IoctlOK DEF Ioctls
<1>6. \A o \in Fcntls : CallOK(Table, o)
  BY <1>1, FcntlOK, FlagsAssumption DEF Fcntls, Flag
<1>7. \A o \in Fstats : CallOK(Table, o)
  BY StatsOK DEF Fstats
<1>8. \A o \in Transfers : CallOK(Table, o)
  BY TransfersOK DEF Transfers
<1>9. \A o \in ChannelOpens : CallOK(Table, o)
  <2>1. CallOK(Table, Table)
    BY Keeps DEF Good
  <2> QED
    BY <2>1, Fails DEF ChannelOpens, alt_dma_txchan_open, alt_dma_rxchan_open, Errno
<1> QED
  BY <1>2, <1>3, <1>4, <1>5, <1>6, <1>7, <1>8, <1>9 DEF Outcomes

LEMMA FileCallPool ==
  ASSUME PoolIndInv, FileCall
  PROVE  PoolIndInv' /\ \E o : NoneJoins(Table, o) /\ alt_fd_list' = o.list
<1>1. Good(Table) /\ ListsOK
  BY TableIsGood DEF PoolIndInv
<1>2. PICK o \in Outcomes : Update([o EXCEPT !.rc = 0, !.errno = "none"])
  BY DEF FileCall
<1>3. CallOK(Table, o)
  BY <1>1, <1>2, OutcomesOK
<1>4. Update(o)
  <2>1. o \in TableRec
    BY <1>3 DEF CallOK, Good
  <2> DEFINE q == [o EXCEPT !.rc = 0, !.errno = "none"]
  <2>2. q.list = o.list /\ q.max = o.max /\ q.opened = o.opened
    BY <2>1 DEF TableRec
  <2> QED
    BY <1>2, <2>2 DEF Update
<1>5. TableOK(Table)' /\ alt_fd_list' = o.list
  BY <1>3, <1>4, Updated DEF CallOK
<1> QED
  BY <1>3, <1>5 DEF PoolIndInv, FileCall, ListsOK, CallOK

(* The pool stays consistent (PoolInv): entries are neither leaked nor     *)
(* freed twice, whatever the drivers answer to open() and close().         *)
LEMMA StepPool == PoolIndInv /\ [FdNext]_fdVars => PoolIndInv'
<1> SUFFICES ASSUME PoolIndInv, [FdNext]_fdVars PROVE PoolIndInv'
  OBVIOUS
<1>1. CASE UNCHANGED fdVars
  BY <1>1 DEF fdVars, PoolIndInv, ListsOK, Table, TableOK, EntryOK
<1> QED
  BY <1>1, RegPool, RedirectPool, FileCallPool DEF FdNext

LEMMA PoolFollows == PoolIndInv => PoolInv
<1> SUFFICES ASSUME PoolIndInv PROVE PoolInv
  OBVIOUS
<1>1. \A f \in Fd : EntryOK(Table, f)
  BY DEF PoolIndInv, TableOK
<1>2. Std \subseteq Fd
  BY SizeAssumption DEF Std, Fd
<1>3. FdTypeOK
  BY DEF PoolIndInv, TableOK, Table, FdTypeOK
<1>4. opened \ Std = (Fd \ Std) \ Users(NoDev)
  BY <1>1, <1>3 DEF EntryOK, Table, Users, FdTypeOK
<1> QED
  BY <1>1, <1>2, <1>3, <1>4 DEF PoolInv, EntryOK, Table, Users, Locked

(* The lock keeps others out, although alt_fd_lock and open() look for it  *)
(* in different ranges of the table (LockKeepsOthersOut).                  *)
LEMMA StepLock ==
  PoolIndInv /\ [FdNext]_fdVars =>
    [\A f \in Fd : Locked(f) /\ Locked(f)' =>
       \A g \in Fd : (alt_fd_list[g].dev)' = alt_fd_list[f].dev
                       => alt_fd_list[g].dev = alt_fd_list[f].dev]_fdVars
<1> SUFFICES ASSUME PoolIndInv, FdNext,
                    NEW f \in Fd, Locked(f), NEW g \in Fd,
                    alt_fd_list'[g].dev = alt_fd_list[f].dev
             PROVE  alt_fd_list[g].dev = alt_fd_list[f].dev
  BY DEF Locked
<1>1. CASE Reg
  BY <1>1 DEF Reg
<1>2. CASE Redirect
  BY <1>2 DEF Redirect, PoolIndInv, Locked
<1>3. CASE FileCall
  BY <1>3, FileCallPool DEF NoneJoins, Table, Locked
<1> QED
  BY <1>1, <1>2, <1>3 DEF FdNext

-----------------------------------------------------------------------------
(* Quotients and remainders.                                               *)
LEMMA Below ==
  ASSUME NEW b \in Nat \ {0}, NEW p \in Int, NEW q \in Int, b * p < b * q + b
  PROVE  p <= q
<1> SUFFICES ASSUME p >= q + 1 PROVE FALSE
  OBVIOUS
<1>1. p - q - 1 \in Nat /\ b \in Nat
  OBVIOUS
<1>2. b * (p - q - 1) >= 0
  BY <1>1
<1>3. b * (p - q - 1) = b * p - b * q - b
  BY <1>1
<1> QED
  BY <1>2, <1>3

LEMMA Quotient ==
  ASSUME NEW b \in Nat \ {0}, NEW q \in Nat, NEW r \in 0 .. b - 1
  PROVE  (b * q + r) \div b = q /\ (b * q + r) % b = r
<1> DEFINE a == b * q + r
           p == a \div b
           m == a % b
<1>1. b \in Nat /\ b * q \in Nat /\ a \in Nat
  OBVIOUS
<1>2. p \in Nat /\ m \in 0 .. b - 1 /\ a = b * p + m
  BY <1>1, Division
<1>3. b * p \in Int /\ b * q \in Int /\ b * p + m = b * q + r
  BY <1>1, <1>2
<1> HIDE DEF a, p, m
<1>4. p <= q
  BY <1>2, <1>3, Below
<1>5. q <= p
  BY <1>2, <1>3, Below
<1>6. p = q
  BY <1>2, <1>4, <1>5
<1>7. m = r
  BY <1>2, <1>3, <1>6
<1> QED
  BY <1>6, <1>7 DEF a, p, m

LEMMA Shifted ==
  ASSUME NEW b \in Nat \ {0}, NEW a \in Nat, NEW k \in Nat
  PROVE  (a + k * b) \div b = (a \div b) + k /\ (a + k * b) % b = a % b
<1> DEFINE q == a \div b
           r == a % b
<1>1. q \in Nat /\ r \in 0 .. b - 1 /\ a = b * q + r
  BY Division
<1> HIDE DEF q, r
<1>2. a + k * b = b * (q + k) + r
  BY <1>1
<1>3. q + k \in Nat
  BY <1>1
<1>4. (b * (q + k) + r) \div b = q + k /\ (b * (q + k) + r) % b = r
  BY <1>1, <1>3, Quotient
<1> QED
  BY <1>2, <1>4 DEF q, r

-----------------------------------------------------------------------------
(* The loop of a flush meets every line that has a word of the block.      *)
LEMMA WalkMeets ==
  ASSUME NEW s \in Nat, NEW n \in Nat \ {0}, NEW l \in Touched(s, n)
  PROVE  \E a \in Walk(s, n) : a \in Nat /\ LineOf(a) = l
<1> DEFINE B == LINE
           x == s \div B
           o == s % B
           m == (n - 1) \div B
           k == l - x
<1>1. B \in Nat \ {0}
  BY MemAssumption
<1>2. PICK b \in s .. s + n - 1 : l = b \div B
  BY DEF Touched, LineOf
<1>3. x \in Nat /\ o \in 0 .. B - 1 /\ s = B * x + o
  BY <1>1, Division
<1>4. n - 1 \in Nat /\ m \in Nat /\ (n - 1) % B \in 0 .. B - 1 /\ n - 1 = B * m + ((n - 1) % B)
  <2>1. n - 1 \in Nat
    OBVIOUS
  <2> QED
    BY <1>1, <2>1, Division
<1>5. b \in Nat /\ l \in Nat /\ b % B \in 0 .. B - 1 /\ b = B * l + (b % B)
  <2>1. b \in Nat
    BY <1>2
  <2> QED
    BY <1>1, <1>2, <2>1, Division
<1> HIDE DEF B, x, o, m
<1>6. x <= l
  <2>1. B * x < B * l + B
    BY <1>1, <1>2, <1>3, <1>5
  <2> QED
    BY <1>1, <1>3, <1>5, <2>1, Below
<1>7. k \in Nat /\ l = x + k
  BY <1>3, <1>5, <1>6
<1> HIDE DEF k
<1>8. B * k = B * l - B * x
  BY <1>1, <1>3, <1>5, <1>7
<1>9. o = 0 => k <= m
  <2>1. o = 0 => B * k < B * m + B
    BY <1>1, <1>2, <1>3, <1>4, <1>5, <1>8
  <2> QED
    BY <1>1, <1>4, <1>7, <2>1, Below
<1>10. k <= m + 1
  <2>1. B * (m + 1) = B * m + B
    BY <1>1, <1>4
  <2>2. B * k < B * (m + 1) + B
    BY <1>1, <1>2, <1>3, <1>4, <1>5, <1>8, <2>1
  <2> QED
    BY <1>1, <1>4, <1>7, <2>2, Below
<1>11. s + k * B \in Nat /\ LineOf(s + k * B) = l
  <2>1. (s + k * B) \div B = x + k
    BY <1>1, <1>7, Shifted DEF x
  <2> QED
    BY <1>1, <1>7, <2>1 DEF LineOf, B
<1>12. CASE k <= m
  <2>1. k \in 0 .. (n - 1) \div LINE
    BY <1>4, <1>7, <1>12 DEF m, B
  <2>2. s + k * B \in Walk(s, n)
    BY <2>1 DEF Walk, Steps, B
  <2> QED
    BY <1>11, <2>2
<1>13. CASE k = m + 1
  <2>1. o # 0
    BY <1>4, <1>7, <1>9, <1>13
  <2>2. n + B - 1 = (n - 1) + 1 * B
    BY <1>1
  <2>3. (n + B - 1) \div B = m + 1
    <3>1. ((n - 1) + 1 * B) \div B = ((n - 1) \div B) + 1
      BY <1>1, <1>4, Shifted
    <3> QED
      BY <2>2, <3>1 DEF m
  <2>4. s + k * B \in Walk(s, n)
    BY <1>13, <2>1, <2>3 DEF Walk, Tail1, B, o
  <2> QED
    BY <1>11, <2>4
<1> QED
  BY <1>4, <1>7, <1>10, <1>12, <1>13

(* Cut to the size of the cache, it meets the place of each of them.       *)
LEMMA AllPlaces ==
  ASSUME NEW D \in Nat \ {0}, NEW s \in Nat, NEW l \in Nat, s \div LINE <= l
  PROVE  \E a \in Walk(s, D * LINE) : a \in Nat /\ LineOf(a) % D = l % D
<1> DEFINE x == s \div LINE
           k == (l - x) % D
           j == (l - x) \div D
<1>1. LINE \in Nat \ {0} /\ x \in Nat /\ l - x \in Nat
  <2>1. LINE \in Nat \ {0}
    BY MemAssumption
  <2>2. x \in Nat
    BY <2>1, Division
  <2> QED
    BY <2>1, <2>2
<1>2. k \in 0 .. D - 1 /\ j \in Nat /\ l - x = D * j + k
  BY <1>1, Division
<1>3. (D * LINE - 1) \div LINE = D - 1
  <2>1. D - 1 \in Nat /\ LINE - 1 \in 0 .. LINE - 1 /\ D * LINE - 1 = LINE * (D - 1) + (LINE - 1)
    BY <1>1
  <2> QED
    BY <1>1, <2>1, Quotient
<1> HIDE DEF k, j
<1>4. s + k * LINE \in Walk(s, D * LINE)
  BY <1>2, <1>3 DEF Walk, Steps
<1>5. s + k * LINE \in Nat /\ LineOf(s + k * LINE) = x + k
  <2>1. k \in Nat /\ k * LINE \in Nat
    BY <1>1, <1>2
  <2>2. (s + k * LINE) \div LINE = (s \div LINE) + k
    BY <1>1, <2>1, Shifted
  <2> QED
    BY <2>1, <2>2 DEF LineOf
<1> HIDE DEF x
<1>6. l = (x + k) + j * D
  <2>1. D * j = j * D /\ D * j \in Nat
    BY <1>2
  <2> QED
    BY <1>1, <1>2, <2>1
<1>7. x + k \in Nat
  BY <1>1, <1>2
<1>8. l % D = (x + k) % D
  BY <1>2, <1>6, <1>7, Shifted
<1> QED
  BY <1>4, <1>5, <1>8

-----------------------------------------------------------------------------
(* The data cache.                                                         *)
Places   == 0 .. DLINES - 1
CacheRec == [tag : [Places -> Nat \cup {NoLine}], dirty : SUBSET Nat, stale : SUBSET Nat,
             iold : SUBSET Nat]

CacheOK(c) ==
  /\ c \in CacheRec
  /\ \A p \in Places : c.tag[p] # NoLine => Place(c.tag[p]) = p
  /\ \A l \in c.dirty : l \in Cached(c)
  /\ \A a \in c.stale : LineOf(a) \in Cached(c)
  /\ c.iold \subseteq icached

LEMMA CachedIs ==
  ASSUME NEW c, c \in CacheRec
  PROVE  /\ DOMAIN c.tag = Places
         /\ \A l : l \in Cached(c) <=> l # NoLine /\ \E p \in Places : c.tag[p] = l
<1>1. DOMAIN c.tag = Places
  BY DEF CacheRec
<1> QED
  BY <1>1 DEF Cached

(* Lines that leave the cache take what is known of them along.            *)
LEMMA Drops ==
  ASSUME NEW c, CacheOK(c), NEW L
  PROVE  /\ CacheOK(Drop(c, L))
         /\ \A l : l \in Cached(Drop(c, L)) <=> l \in Cached(c) /\ l \notin L
         /\ Drop(c, L).dirty = c.dirty \ L
         /\ \A a : a \in Drop(c, L).stale <=> a \in c.stale /\ LineOf(a) \notin L
         /\ Drop(c, L).iold = c.iold
<1> DEFINE d == Drop(c, L)
           t == [p \in DOMAIN c.tag |-> IF c.tag[p] \in L THEN NoLine ELSE c.tag[p]]
           S == {a \in c.stale : LineOf(a) \notin L}
<1>1. c \in CacheRec /\ DOMAIN c.tag = Places
  BY CachedIs DEF CacheOK
<1>2. t \in [Places -> Nat \cup {NoLine}] /\ S \in SUBSET Nat /\ c.dirty \ L \in SUBSET Nat
  BY <1>1 DEF CacheRec
<1>3. d = [c EXCEPT !.tag = t, !.dirty = @ \ L, !.stale = S]
  BY <1>1 DEF Drop, CacheRec
<1>4. \A p \in Places : t[p] = IF c.tag[p] \in L THEN NoLine ELSE c.tag[p]
  BY <1>1
<1>5. \A a : a \in S <=> a \in c.stale /\ LineOf(a) \notin L
  OBVIOUS
<1> HIDE DEF t, S
<1>6. /\ d \in CacheRec /\ d.tag = t /\ d.dirty = c.dirty \ L /\ d.stale = S
      /\ d.iold = c.iold
  BY <1>1, <1>2, <1>3 DEF CacheRec
<1> HIDE DEF d
<1>7. \A l : l \in Cached(d) <=> l \in Cached(c) /\ l \notin L
  BY <1>1, <1>4, <1>6, CachedIs
<1>8. CacheOK(d)
  BY <1>4, <1>5, <1>6, <1>7 DEF CacheOK
<1> QED
  BY <1>5, <1>6, <1>7, <1>8 DEF d

LEMMA StoresOld ==
  ASSUME NEW c, CacheOK(c), icached \subseteq Nat, NEW L
  PROVE  /\ CacheOK(Stored(c, L)) /\ Cached(Stored(c, L)) = Cached(c)
         /\ Stored(c, L).dirty = c.dirty /\ Stored(c, L).stale = c.stale
         /\ Stored(c, L).tag = c.tag
<1> DEFINE d == Stored(c, L)
<1>1. c \in CacheRec /\ c.iold \cup (L \cap icached) \in SUBSET Nat
  BY DEF CacheOK, CacheRec
<1>2. /\ d \in CacheRec /\ d.tag = c.tag /\ d.dirty = c.dirty /\ d.stale = c.stale
      /\ d.iold = c.iold \cup (L \cap icached)
  BY <1>1 DEF CacheRec, Stored
<1> HIDE DEF d
<1>3. Cached(d) = Cached(c)
  BY <1>2 DEF Cached
<1>4. CacheOK(d)
  BY <1>2, <1>3 DEF CacheOK
<1> QED
  BY <1>2, <1>3, <1>4 DEF d

LEMMA Flushes ==
  ASSUME NEW c, CacheOK(c), icached \subseteq Nat, NEW L
  PROVE  /\ CacheOK(Flush(c, L))
         /\ \A l : l \in Cached(Flush(c, L)) <=> l \in Cached(c) /\ l \notin L
         /\ Flush(c, L).dirty = c.dirty \ L
         /\ \A a : a \in Flush(c, L).stale <=> a \in c.stale /\ LineOf(a) \notin L
         /\ \A p \in Places : Flush(c, L).tag[p] = IF c.tag[p] \in L THEN NoLine ELSE c.tag[p]
<1> DEFINE e == Stored(c, L \cap c.dirty)
<1>1. /\ CacheOK(e) /\ Cached(e) = Cached(c) /\ e.dirty = c.dirty /\ e.stale = c.stale
      /\ e.tag = c.tag
  BY StoresOld
<1> HIDE DEF e
<1>2. Flush(c, L) = Drop(e, L)
  BY DEF Flush, e
<1>3. e \in CacheRec /\ DOMAIN e.tag = Places
  BY <1>1, CachedIs DEF CacheOK
<1>4. \A p \in Places : Drop(e, L).tag[p] = IF e.tag[p] \in L THEN NoLine ELSE e.tag[p]
  BY <1>3 DEF Drop, CacheRec
<1> QED
  BY <1>1, <1>2, <1>4, Drops

(* A load brings in one line, in its place.                                *)
LEMMA Loads1 ==
  ASSUME NEW c, CacheOK(c), icached \subseteq Nat, NEW a \in Nat
  PROVE  /\ CacheOK(Load(c, a)) /\ LineOf(a) \in Cached(Load(c, a))
         /\ Cached(Load(c, a)) \subseteq Cached(c) \cup {LineOf(a)}
         /\ Load(c, a).dirty \subseteq c.dirty /\ Load(c, a).stale \subseteq c.stale
<1> DEFINE l == LineOf(a)
           q == Place(l)
<1>1. l \in Nat /\ l # NoLine /\ q \in Places
  <2>1. l \in Nat
    BY MemAssumption, Division DEF LineOf
  <2> QED
    BY <2>1, MemAssumption, Division DEF Place, Places, NoLine
<1> HIDE DEF l
<1>2. CASE c.tag[q] = l
  <2>1. Load(c, a) = c
    BY <1>2 DEF Load, l
  <2>2. l \in Cached(c)
    BY <1>1, <1>2, CachedIs DEF CacheOK
  <2> QED
    BY <2>1, <2>2 DEF l
<1>3. CASE c.tag[q] # l
  <2> DEFINE e == Flush(c, {c.tag[q]})
             d == [e EXCEPT !.tag[q] = l]
  <2>1. Load(c, a) = d
    BY <1>3 DEF Load, l
  <2>2. /\ CacheOK(e)
        /\ \A m : m \in Cached(e) <=> m \in Cached(c) /\ m \notin {c.tag[q]}
        /\ e.dirty = c.dirty \ {c.tag[q]}
        /\ \A x : x \in e.stale <=> x \in c.stale /\ LineOf(x) \notin {c.tag[q]}
        /\ \A p \in Places : e.tag[p] = IF c.tag[p] \in {c.tag[q]} THEN NoLine ELSE c.tag[p]
    BY Flushes
  <2>3. e.tag[q] = NoLine
    BY <1>1, <2>2
  <2> HIDE DEF e, q
  <2>4. /\ d \in CacheRec /\ d.tag = [e.tag EXCEPT ![q] = l] /\ d.dirty = e.dirty
        /\ d.stale = e.stale /\ d.iold = e.iold
    BY <1>1, <2>2 DEF CacheOK, CacheRec
  <2> HIDE DEF d
  <2>5. e \in CacheRec /\ e.tag \in [Places -> Nat \cup {NoLine}]
    BY <2>2 DEF CacheOK, CacheRec
  <2>6. \A p \in Places : d.tag[p] = IF p = q THEN l ELSE e.tag[p]
    BY <1>1, <2>4, <2>5
  <2>7. \A m : m \in Cached(d) <=> m \in Cached(e) \/ m = l
    BY <1>1, <2>3, <2>4, <2>5, <2>6, CachedIs
  <2>8. CacheOK(d)
    BY <1>1, <2>2, <2>4, <2>6, <2>7 DEF CacheOK, q
  <2> QED
    BY <2>1, <2>2, <2>4, <2>7, <2>8 DEF l
<1> QED
  BY <1>2, <1>3

LEMMA Stores1 ==
  ASSUME NEW c, CacheOK(c), icached \subseteq Nat, NEW a \in Nat
  PROVE  /\ CacheOK(Store(c, a))
         /\ Cached(Store(c, a)) \subseteq Cached(c) \cup {LineOf(a)}
         /\ Store(c, a).dirty \subseteq c.dirty \cup {LineOf(a)}
         /\ Store(c, a).stale \subseteq c.stale
<1> DEFINE e == Load(c, a)
           d == Store(c, a)
<1>1. /\ CacheOK(e) /\ LineOf(a) \in Cached(e) /\ Cached(e) \subseteq Cached(c) \cup {LineOf(a)}
      /\ e.dirty \subseteq c.dirty /\ e.stale \subseteq c.stale
  BY Loads1
<1> HIDE DEF e
<1>2. d = [e EXCEPT !.dirty = @ \cup {LineOf(a)}, !.stale = @ \ {a}]
  BY DEF Store, e
<1>3. LineOf(a) \in Nat
  BY MemAssumption, Division DEF LineOf
<1>4. e \in CacheRec /\ e.dirty \cup {LineOf(a)} \in SUBSET Nat /\ e.stale \ {a} \in SUBSET Nat
  BY <1>1, <1>3 DEF CacheOK, CacheRec
<1>5. /\ d \in CacheRec /\ d.tag = e.tag /\ d.iold = e.iold
      /\ d.dirty = e.dirty \cup {LineOf(a)} /\ d.stale = e.stale \ {a}
  BY <1>2, <1>4 DEF CacheRec
<1> HIDE DEF d
<1>6. Cached(d) = Cached(e)
  BY <1>5 DEF Cached
<1>7. CacheOK(d)
  BY <1>1, <1>5, <1>6 DEF CacheOK
<1> QED
  BY <1>1, <1>5, <1>6, <1>7 DEF d

LEMMA StoresIo ==
  ASSUME NEW c, CacheOK(c), icached \subseteq Nat, NEW A \in SUBSET Nat
  PROVE  /\ CacheOK(StoreIo(c, A)) /\ Cached(StoreIo(c, A)) = Cached(c)
         /\ StoreIo(c, A).dirty = c.dirty /\ StoreIo(c, A).stale \subseteq c.stale \cup A
<1> DEFINE e == Stored(c, {LineOf(a) : a \in A})
           S == {a \in A : LineOf(a) \in Cached(c)}
           d == StoreIo(c, A)
<1>1. /\ CacheOK(e) /\ Cached(e) = Cached(c) /\ e.dirty = c.dirty /\ e.stale = c.stale
  BY StoresOld
<1> HIDE DEF e
<1>2. d = [e EXCEPT !.stale = @ \cup S]
  BY DEF StoreIo, e
<1>3. e \in CacheRec /\ e.stale \cup S \in SUBSET Nat
  BY <1>1 DEF CacheOK, CacheRec
<1>4. S \subseteq A /\ \A a \in S : LineOf(a) \in Cached(c)
  OBVIOUS
<1> HIDE DEF S
<1>5. /\ d \in CacheRec /\ d.tag = e.tag /\ d.iold = e.iold
      /\ d.dirty = e.dirty /\ d.stale = e.stale \cup S
  BY <1>2, <1>3 DEF CacheRec
<1> HIDE DEF d
<1>6. Cached(d) = Cached(e)
  BY <1>5 DEF Cached
<1>7. CacheOK(d)
  BY <1>1, <1>4, <1>5, <1>6 DEF CacheOK
<1> QED
  BY <1>1, <1>4, <1>5, <1>6, <1>7 DEF d

(* A flush of a block by address leaves no line that has a word of it.     *)
LEMMA FlushesBlock ==
  ASSUME NEW c, CacheOK(c), icached \subseteq Nat, NEW s \in Nat, NEW n \in Nat \ {0},
         NEW d, d = alt_dcache_flush(c, s, n)
  PROVE  /\ CacheOK(d) /\ Cached(d) \subseteq Cached(c) /\ d.dirty \subseteq c.dirty
         /\ d.stale \subseteq c.stale /\ Touched(s, n) \cap Cached(d) = {}
<1> DEFINE len == IF FLUSHDA THEN n ELSE Trim(n, DLINES * LINE)
           A == Walk(s, len)
           L == {l \in Cached(c) : \E a \in A : IF FLUSHDA THEN LineOf(a) = l
                                                       ELSE Place(LineOf(a)) = Place(l)}
<1>1. d = Flush(c, L)
  BY DEF alt_dcache_flush, ALT_FLUSH_DATA
<1>2. ASSUME NEW l \in Touched(s, n), l \in Cached(c) PROVE l \in L
  <2>1. CASE len = n
    <3>1. \E a \in A : LineOf(a) = l
      BY <2>1, WalkMeets
    <3> QED
      BY <1>2, <3>1
  <2>2. CASE len # n
    <3>1. ~ FLUSHDA /\ len = DLINES * LINE
      BY <2>2 DEF Trim
    <3>2. l \in Nat /\ s \div LINE <= l
      <4>1. PICK b \in s .. s + n - 1 : l = b \div LINE
        BY DEF Touched, LineOf
      <4>2. b \in Nat /\ s <= b /\ LINE \in Nat \ {0}
        BY <4>1, MemAssumption
      <4>3. /\ b \div LINE \in Nat /\ b % LINE \in 0 .. LINE - 1
            /\ b = LINE * (b \div LINE) + (b % LINE)
        BY <4>2, Division
      <4>4. /\ s \div LINE \in Nat /\ s % LINE \in 0 .. LINE - 1
            /\ s = LINE * (s \div LINE) + (s % LINE)
        BY <4>2, Division
      <4> DEFINE x == s \div LINE
                 y == b \div LINE
      <4> HIDE DEF x, y
      <4>5. LINE * x < LINE * y + LINE
        BY <4>2, <4>3, <4>4 DEF x, y
      <4>6. x <= y
        BY <4>2, <4>3, <4>4, <4>5, Below DEF x, y
      <4> QED
        BY <4>1, <4>3, <4>6 DEF x, y
    <3>3. \E a \in A : LineOf(a) % DLINES = l % DLINES
      BY <3>1, <3>2, MemAssumption, AllPlaces
    <3> QED
      BY <1>2, <3>1, <3>3 DEF Place
  <2> QED
    BY <2>1, <2>2
<1> HIDE DEF L
<1>3. /\ CacheOK(d)
      /\ \A l : l \in Cached(d) <=> l \in Cached(c) /\ l \notin L
      /\ d.dirty = c.dirty \ L
      /\ \A a : a \in d.stale <=> a \in c.stale /\ LineOf(a) \notin L
  BY <1>1, Flushes
<1> QED
  BY <1>2, <1>3

-----------------------------------------------------------------------------
(* Lines and blocks.                                                       *)
LEMMA Lines ==
  ASSUME NEW a \in Nat
  PROVE  LineOf(a) \in Nat /\ a \in WordsOf(LineOf(a))
<1> DEFINE l == a \div LINE
<1>1. LINE \in Nat \ {0}
  BY MemAssumption
<1>2. l \in Nat /\ a % LINE \in 0 .. LINE - 1 /\ a = LINE * l + (a % LINE)
  BY <1>1, Division
<1> HIDE DEF l
<1>3. LINE * l = l * LINE /\ l * LINE \in Nat
  BY <1>1, <1>2
<1>4. a \in l * LINE .. l * LINE + LINE - 1
  BY <1>1, <1>2, <1>3
<1> QED
  BY <1>2, <1>4 DEF LineOf, WordsOf, l

LEMMA InsideIsTouched ==
  ASSUME NEW s \in Nat, NEW n \in Nat \ {0}
  PROVE  Inside(s, n) \subseteq Touched(s, n)
<1> SUFFICES ASSUME NEW l \in Inside(s, n) PROVE l \in Touched(s, n)
  OBVIOUS
<1>1. s + n \in Nat /\ LINE \in Nat \ {0}
  BY MemAssumption
<1>2. LineOf(s) \in Nat /\ LineOf(s + n) \in Nat
  BY <1>1, Lines
<1>3. l \in Nat /\ WordsOf(l) \subseteq s .. s + n - 1
  BY <1>2 DEF Inside
<1>4. l * LINE \in Nat /\ l * LINE = LINE * l + 0 /\ 0 \in 0 .. LINE - 1
  BY <1>1, <1>3
<1>5. LineOf(l * LINE) = l
  BY <1>1, <1>3, <1>4, Quotient DEF LineOf
<1>6. l * LINE \in WordsOf(l)
  BY <1>1, <1>4 DEF WordsOf
<1> QED
  BY <1>3, <1>5, <1>6 DEF Touched

\* A word outside a block has a line that is not wholly inside.
LEMMA OutsideLine ==
  ASSUME NEW a \in Nat, NEW b, a \notin Region(b)
  PROVE  LineOf(a) \notin Inside(b.start, b.len)
BY Lines DEF Inside, Region

-----------------------------------------------------------------------------
(* The inductive invariant.                                                *)
LEMMA CachesOK ==
  ASSUME MemIndInv
  PROVE  /\ CacheOK(Caches) /\ icached \subseteq Nat
         /\ Caches.dirty = dirty /\ Caches.stale = stale
<1>1. Caches \in CacheRec
  BY DEF MemIndInv, MemTypeOK, Caches, CacheRec, Places
<1>2. DOMAIN tag = Places
  BY DEF MemIndInv, MemTypeOK, Places
<1> QED
  BY <1>1, <1>2 DEF MemIndInv, MemTypeOK, Caches, CacheOK

LEMMA Committed ==
  ASSUME NEW c, CacheOK(c), Commit(c), icached \subseteq Nat, icached' = icached
  PROVE  /\ (tag \in [Places -> Nat \cup {NoLine}])'
         /\ (\A p \in DOMAIN tag : tag[p] # NoLine => Place(tag[p]) = p)'
         /\ dirty' = c.dirty /\ stale' = c.stale
         /\ (dirty \subseteq Nat /\ stale \subseteq Nat /\ iold \subseteq Nat)'
         /\ Cached(Caches)' = Cached(c)
         /\ (dirty \subseteq Cached(Caches))'
         /\ ({LineOf(a) : a \in stale} \subseteq Cached(Caches))'
         /\ (iold \subseteq icached)'
<1>1. /\ tag' = c.tag /\ dirty' = c.dirty /\ stale' = c.stale /\ iold' = c.iold
      /\ c \in CacheRec /\ DOMAIN c.tag = Places
  BY CachedIs DEF Commit, CacheOK
<1>2. Cached(Caches)' = Cached(c)
  BY <1>1 DEF Caches, Cached
<1> QED
  BY <1>1, <1>2 DEF CacheOK, CacheRec, Place

LEMMA SectionTypes ==
  ASSUME NEW i \in 1 .. Len(Sections)
  PROVE  Sections[i].from \in Nat /\ Sections[i].to \in Nat /\ Sections[i].end \in Nat
<1> DEFINE R == [from : Nat, to : Nat, end : Nat]
<1>1. Sections \in Seq(R)
  BY WordsAssumption
<1> HIDE DEF R
<1>2. Sections[i] \in R
  BY <1>1
<1> QED
  BY <1>2 DEF R

LEMMA MemInitHolds == MemInit => MemIndInv
<1> SUFFICES ASSUME MemInit PROVE MemIndInv
  OBVIOUS
<1>1. SectionLines \subseteq Nat
  <2> SUFFICES ASSUME NEW s \in Range(Sections), NEW l \in Touched(s.to, s.end - s.to)
               PROVE  l \in Nat
    BY DEF SectionLines
  <2>1. s.to \in Nat /\ s.end \in Nat
    <3>1. PICK i \in DOMAIN Sections : s = Sections[i]
      BY DEF Range
    <3>2. i \in 1 .. Len(Sections)
      BY <3>1, WordsAssumption
    <3> QED
      BY <3>1, <3>2, SectionTypes
  <2>2. PICK a \in s.to .. s.to + (s.end - s.to) - 1 : l = LineOf(a)
    BY DEF Touched
  <2> QED
    BY <2>1, <2>2, Lines
<1>2. 1 \in 1 .. Len(Sections) + 1
  BY WordsAssumption
<1>3. MemTypeOK
  BY <1>1, <1>2 DEF MemInit, MemTypeOK
<1> QED
  BY <1>3 DEF MemInit, MemIndInv, UncachedWords

LEMMA CopyHolds == MemIndInv /\ CopyWord => MemIndInv'
<1> SUFFICES ASSUME MemIndInv, CopyWord PROVE MemIndInv'
  OBVIOUS
<1> DEFINE s == Sections[sec]
<1>1. /\ sec \in 1 .. Len(Sections) /\ s.to \in Nat /\ s.from \in Nat /\ word \in Nat
      /\ mpc = "load" /\ stale = {} /\ uncached = {} /\ failed = {}
      /\ UNCHANGED <<mpc, icached, uncached, failed>>
  <2>1. sec \in 1 .. Len(Sections)
    BY WordsAssumption DEF CopyWord, MemIndInv, MemTypeOK
  <2>2. s.from \in Nat /\ s.to \in Nat
    BY <2>1, SectionTypes
  <2>3. mpc = "load" /\ UNCHANGED <<mpc, icached, uncached, failed>>
    BY DEF CopyWord
  <2> QED
    BY <2>1, <2>2, <2>3 DEF MemIndInv, MemTypeOK
<1>2. CASE sec' = sec + 1 /\ word' = 0 /\ UNCHANGED <<tag, dirty, stale, iold>>
  <2>1. Cached(Caches)' = Cached(Caches) /\ UncachedWords' = UncachedWords
    BY <1>1, <1>2 DEF Caches, Cached, UncachedWords
  <2>2. sec' \in 1 .. Len(Sections) + 1 /\ word' \in Nat
    BY <1>1, <1>2, WordsAssumption
  <2> QED
    BY <1>1, <1>2, <2>1, <2>2 DEF MemIndInv, MemTypeOK
<1>3. CASE /\ word' = word + 1 /\ sec' = sec
           /\ Commit(Store(Load(Caches, s.from + word), s.to + word))
  <2> DEFINE e == Load(Caches, s.from + word)
             c == Store(e, s.to + word)
  <2>1. s.from + word \in Nat /\ s.to + word \in Nat
    BY <1>1
  <2>2. CacheOK(Caches) /\ icached \subseteq Nat /\ Caches.stale = {}
    BY <1>1, CachesOK
  <2> HIDE DEF s
  <2>3. CacheOK(e) /\ e.stale = {}
    BY <2>1, <2>2, Loads1
  <2> HIDE DEF e
  <2>4. CacheOK(c) /\ c.stale = {}
    BY <2>1, <2>2, <2>3, Stores1
  <2>5. Commit(c)
    BY <1>3 DEF e
  <2> HIDE DEF c
  <2> QED
    BY <1>1, <1>3, <2>2, <2>4, <2>5, Committed
    DEF MemIndInv, MemTypeOK, UncachedWords, Places
<1> QED
  BY <1>2, <1>3 DEF CopyWord

(* main() starts with both caches clean and the instruction cache empty.   *)
LEMMA InstructionsGone ==
  ASSUME icached \subseteq Nat
  PROVE  alt_icache_flush_all = {}
<1> SUFFICES ASSUME NEW l \in icached
             PROVE  \E a \in Walk(0, Trim(ILINES * LINE, ILINES * LINE)) :
                      LineOf(a) % ILINES = l % ILINES
  BY DEF alt_icache_flush_all, alt_icache_flush
<1>1. Trim(ILINES * LINE, ILINES * LINE) = ILINES * LINE
  BY DEF Trim
<1>2. ILINES \in Nat \ {0} /\ LINE \in Nat \ {0} /\ l \in Nat
  BY MemAssumption
<1>3. 0 \div LINE <= l
  <2>1. 0 = LINE * 0 + 0 /\ 0 \in 0 .. LINE - 1
    BY <1>2
  <2>2. 0 \div LINE = 0
    BY <1>2, <2>1, Quotient
  <2> QED
    BY <1>2, <2>2
<1> QED
  BY <1>1, <1>2, <1>3, AllPlaces

LEMMA DoneHolds == MemIndInv /\ LoadDone => MemIndInv'
<1> SUFFICES ASSUME MemIndInv, LoadDone PROVE MemIndInv'
  OBVIOUS
<1> DEFINE c == alt_dcache_flush_all(Caches)
<1>1. CacheOK(Caches) /\ icached \subseteq Nat /\ Caches.stale = {}
  BY CachesOK DEF MemIndInv, LoadDone
<1>2. /\ CacheOK(c) /\ \A l : l \notin Cached(c)
  BY <1>1, Flushes DEF alt_dcache_flush_all
<1>3. icached' = {} /\ iold' = {} /\ tag' = c.tag /\ dirty' = c.dirty /\ stale' = c.stale
  <2>1. c \in CacheRec
    BY <1>2 DEF CacheOK
  <2> HIDE DEF c
  <2>2. /\ icached' = alt_icache_flush_all
        /\ Commit([c EXCEPT !.iold = @ \cap alt_icache_flush_all])
    BY DEF LoadDone, c
  <2>3. alt_icache_flush_all = {}
    BY <1>1, InstructionsGone
  <2>4. icached' = {} /\ Commit([c EXCEPT !.iold = @ \cap {}])
    BY <2>2, <2>3
  <2> QED
    BY <2>1, <2>4 DEF Commit, CacheRec
<1> HIDE DEF c
<1>4. c.dirty = {} /\ c.stale = {}
  BY <1>2 DEF CacheOK
<1>5. c \in CacheRec /\ Cached(Caches)' = {}
  BY <1>2, <1>3 DEF CacheOK, Cached, Caches
<1>6. MemTypeOK'
  BY <1>3, <1>4, <1>5 DEF LoadDone, MemIndInv, MemTypeOK, CacheRec, Places
<1>7. (\A p \in DOMAIN tag : tag[p] # NoLine => Place(tag[p]) = p)'
  BY <1>2, <1>3, <1>5, CachedIs DEF CacheOK, Place
<1> QED
  BY <1>3, <1>4, <1>5, <1>6, <1>7 DEF LoadDone, MemIndInv, UncachedWords

-----------------------------------------------------------------------------
(* main().  What a step has to keep to.                                    *)
LEMMA MainStep ==
  ASSUME MemIndInv, InMain, NEW c, CacheOK(c), Commit(c),
         c.dirty \subseteq dirty \cup HeapLines,
         \A b \in uncached' : /\ b \in [start : Nat, len : Nat \ {0}]
                             /\ Region(b) \subseteq Heap
                             /\ Inside(b.start, b.len) \cap Cached(c) = {},
         failed' \subseteq Nat,
         \A a \in c.stale \cap Flash : LineOf(a) \in failed'
  PROVE  MemIndInv'
<1>1. /\ mpc = "main" /\ mpc' = "main" /\ sec' = sec /\ word' = word /\ icached' = icached
      /\ icached = {} /\ dirty \subseteq HeapLines /\ sec > Len(Sections)
  BY DEF InMain, MemIndInv
<1>2. /\ (tag \in [Places -> Nat \cup {NoLine}])'
      /\ (\A p \in DOMAIN tag : tag[p] # NoLine => Place(tag[p]) = p)'
      /\ dirty' = c.dirty /\ stale' = c.stale
      /\ (dirty \subseteq Nat /\ stale \subseteq Nat /\ iold \subseteq Nat)'
      /\ Cached(Caches)' = Cached(c)
      /\ (dirty \subseteq Cached(Caches))'
      /\ ({LineOf(a) : a \in stale} \subseteq Cached(Caches))'
      /\ (iold \subseteq icached)'
  BY <1>1, Committed
<1>3. MemTypeOK'
  BY <1>1, <1>2 DEF MemIndInv, MemTypeOK, Places
<1>4. UncachedWords' \subseteq Heap
  BY DEF UncachedWords
<1> QED
  BY <1>1, <1>2, <1>3, <1>4 DEF MemIndInv, HeapLines

\* The blocks as they are, and a cache that has taken a word outside them.
LEMMA BlocksStay ==
  ASSUME MemIndInv, NEW c, NEW a \in Nat,
         Cached(c) \subseteq Cached(Caches) \cup {LineOf(a)}, a \notin UncachedWords
  PROVE  \A b \in uncached : /\ b \in [start : Nat, len : Nat \ {0}]
                            /\ Region(b) \subseteq Heap
                            /\ Inside(b.start, b.len) \cap Cached(c) = {}
<1> SUFFICES ASSUME NEW b \in uncached
             PROVE  /\ b \in [start : Nat, len : Nat \ {0}]
                    /\ Region(b) \subseteq Heap
                    /\ Inside(b.start, b.len) \cap Cached(c) = {}
  OBVIOUS
<1>1. Region(b) \subseteq UncachedWords /\ UncachedWords \subseteq Heap
  BY DEF UncachedWords, MemIndInv
<1>2. LineOf(a) \notin Inside(b.start, b.len)
  BY <1>1, OutsideLine
<1>3. Inside(b.start, b.len) \cap Cached(Caches) = {}
  BY DEF MemIndInv
<1> QED
  BY <1>1, <1>2, <1>3 DEF MemIndInv, MemTypeOK

LEMMA BlocksKeep ==
  ASSUME MemIndInv, NEW c, Cached(c) \subseteq Cached(Caches)
  PROVE  \A b \in uncached : /\ b \in [start : Nat, len : Nat \ {0}]
                            /\ Region(b) \subseteq Heap
                            /\ Inside(b.start, b.len) \cap Cached(c) = {}
BY DEF MemIndInv, MemTypeOK, UncachedWords

LEMMA ReadHolds == MemIndInv /\ ReadCached => MemIndInv'
<1> SUFFICES ASSUME MemIndInv, ReadCached PROVE MemIndInv'
  OBVIOUS
<1>1. PICK a \in (Heap \ UncachedWords) \cup Flash : Commit(Load(Caches, a))
  BY DEF ReadCached
<1> DEFINE c == Load(Caches, a)
<1>2. a \in Nat /\ a \notin UncachedWords
  BY WordsAssumption DEF MemIndInv
<1>3. /\ CacheOK(c) /\ Cached(c) \subseteq Cached(Caches) \cup {LineOf(a)}
      /\ c.dirty \subseteq dirty /\ c.stale \subseteq stale
  BY <1>2, CachesOK, Loads1
<1> HIDE DEF c
<1>4. InMain /\ Commit(c) /\ uncached' = uncached /\ failed' = failed
  BY <1>1 DEF ReadCached, c
<1>5. failed' \subseteq Nat /\ \A x \in c.stale \cap Flash : LineOf(x) \in failed'
  BY <1>3, <1>4 DEF MemIndInv, MemTypeOK
<1>6. \A b \in uncached' : /\ b \in [start : Nat, len : Nat \ {0}] /\ Region(b) \subseteq Heap
                          /\ Inside(b.start, b.len) \cap Cached(c) = {}
  BY <1>2, <1>3, <1>4, BlocksStay
<1> QED
  BY <1>3, <1>4, <1>5, <1>6, MainStep

LEMMA WriteHolds == MemIndInv /\ WriteCached => MemIndInv'
<1> SUFFICES ASSUME MemIndInv, WriteCached PROVE MemIndInv'
  OBVIOUS
<1>1. PICK a \in Heap \ UncachedWords : Commit(Store(Caches, a))
  BY DEF WriteCached
<1> DEFINE c == Store(Caches, a)
<1>2. a \in Nat /\ a \notin UncachedWords
  BY WordsAssumption
<1>3. /\ CacheOK(c) /\ Cached(c) \subseteq Cached(Caches) \cup {LineOf(a)}
      /\ c.dirty \subseteq dirty \cup HeapLines /\ c.stale \subseteq stale
  BY <1>2, CachesOK, Stores1 DEF HeapLines
<1> HIDE DEF c
<1>4. InMain /\ Commit(c) /\ uncached' = uncached /\ failed' = failed
  BY <1>1 DEF WriteCached, c
<1>5. failed' \subseteq Nat /\ \A x \in c.stale \cap Flash : LineOf(x) \in failed'
  BY <1>3, <1>4 DEF MemIndInv, MemTypeOK
<1>6. \A b \in uncached' : /\ b \in [start : Nat, len : Nat \ {0}] /\ Region(b) \subseteq Heap
                          /\ Inside(b.start, b.len) \cap Cached(c) = {}
  BY <1>2, <1>3, <1>4, BlocksStay
<1> QED
  BY <1>3, <1>4, <1>5, <1>6, MainStep

LEMMA WriteIoHolds == MemIndInv /\ WriteUncached => MemIndInv'
<1> SUFFICES ASSUME MemIndInv, WriteUncached PROVE MemIndInv'
  OBVIOUS
<1>1. PICK a \in UncachedWords : Commit(StoreIo(Caches, {a}))
  BY DEF WriteUncached
<1> DEFINE c == StoreIo(Caches, {a})
<1>2. a \in Nat /\ a \notin Flash
  BY WordsAssumption DEF MemIndInv
<1>3. /\ CacheOK(c) /\ Cached(c) = Cached(Caches)
      /\ c.dirty = dirty /\ c.stale \subseteq stale \cup {a}
  BY <1>2, CachesOK, StoresIo
<1> HIDE DEF c
<1>4. InMain /\ Commit(c) /\ uncached' = uncached /\ failed' = failed
  BY <1>1 DEF WriteUncached, c
<1>5. failed' \subseteq Nat /\ \A x \in c.stale \cap Flash : LineOf(x) \in failed'
  BY <1>2, <1>3, <1>4 DEF MemIndInv, MemTypeOK
<1>6. \A b \in uncached' : /\ b \in [start : Nat, len : Nat \ {0}] /\ Region(b) \subseteq Heap
                          /\ Inside(b.start, b.len) \cap Cached(c) = {}
  BY <1>3, <1>4, BlocksKeep
<1> QED
  BY <1>3, <1>4, <1>5, <1>6, MainStep

(* A block that goes uncached is out of the cache whole.                   *)
LEMMA RemapHolds ==
  ASSUME MemIndInv, InMain, failed' = failed, NEW s \in Heap, NEW n \in Lengths, Free(s, n),
         alt_remap_uncached(s, n)
  PROVE  /\ MemIndInv'
         /\ \A b \in uncached' \ uncached : Touched(b.start, b.len) \cap Cached(Caches') = {}
<1> DEFINE c == alt_dcache_flush(Caches, s, n)
           new == [start |-> s, len |-> n]
<1>1. s \in Nat /\ n \in Nat \ {0}
  BY WordsAssumption
<1>2. /\ CacheOK(c) /\ Cached(c) \subseteq Cached(Caches) /\ c.dirty \subseteq dirty
      /\ c.stale \subseteq stale /\ Touched(s, n) \cap Cached(c) = {}
  BY <1>1, CachesOK, FlushesBlock
<1> HIDE DEF c
<1>3. Commit(c) /\ uncached' = uncached \cup {new}
  BY DEF alt_remap_uncached, c
<1>4. failed' \subseteq Nat /\ \A x \in c.stale \cap Flash : LineOf(x) \in failed'
  BY <1>2 DEF MemIndInv, MemTypeOK
<1>5. /\ new \in [start : Nat, len : Nat \ {0}] /\ Region(new) \subseteq Heap
      /\ Inside(new.start, new.len) \cap Cached(c) = {}
  BY <1>1, <1>2, InsideIsTouched DEF Free, Region
<1>6. \A b \in uncached' : /\ b \in [start : Nat, len : Nat \ {0}] /\ Region(b) \subseteq Heap
                          /\ Inside(b.start, b.len) \cap Cached(c) = {}
  BY <1>2, <1>3, <1>5, BlocksKeep
<1>7. MemIndInv'
  BY <1>2, <1>3, <1>4, <1>6, MainStep
<1>8. Cached(Caches') = Cached(c)
  BY <1>3 DEF Commit, Caches, Cached
<1> QED
  BY <1>2, <1>3, <1>7, <1>8

LEMMA NewBlocks ==
  ASSUME MemIndInv, RemapUncached \/ UncachedMalloc
  PROVE  /\ MemIndInv'
         /\ \A b \in uncached' \ uncached : Touched(b.start, b.len) \cap Cached(Caches') = {}
<1>1. /\ InMain /\ failed' = failed
      /\ \E s \in Heap, n \in Lengths : Free(s, n) /\ alt_remap_uncached(s, n)
  BY DEF RemapUncached, UncachedMalloc
<1> QED
  BY <1>1, RemapHolds

LEMMA FreeHolds == MemIndInv /\ UncachedFree => MemIndInv'
<1> SUFFICES ASSUME MemIndInv, UncachedFree PROVE MemIndInv'
  OBVIOUS
<1>1. /\ InMain /\ uncached' \subseteq uncached
      /\ UNCHANGED <<tag, dirty, stale, iold, failed>>
  BY DEF UncachedFree, alt_remap_cached
<1>2. CacheOK(Caches) /\ Commit(Caches) /\ Caches.dirty = dirty /\ Caches.stale = stale
  BY <1>1, CachesOK DEF Commit, Caches
<1>3. \A b \in uncached' : /\ b \in [start : Nat, len : Nat \ {0}] /\ Region(b) \subseteq Heap
                          /\ Inside(b.start, b.len) \cap Cached(Caches) = {}
  BY <1>1, BlocksKeep
<1>4. failed' \subseteq Nat /\ \A x \in Caches.stale \cap Flash : LineOf(x) \in failed'
  BY <1>1, <1>2 DEF MemIndInv, MemTypeOK
<1> QED
  BY <1>1, <1>2, <1>3, <1>4, MainStep

LEMMA DropHolds == MemIndInv /\ NoWriteback => MemIndInv'
<1> SUFFICES ASSUME MemIndInv, NoWriteback PROVE MemIndInv'
  OBVIOUS
<1>1. PICK s \in Heap, n \in Lengths : Commit(alt_dcache_flush_no_writeback(Caches, s, n))
  BY DEF NoWriteback
<1> DEFINE c == Drop(Caches, {LineOf(a) : a \in Walk(s, n)})
<1>2. /\ CacheOK(c) /\ Cached(c) \subseteq Cached(Caches) /\ c.dirty \subseteq dirty
      /\ c.stale \subseteq stale
  BY CachesOK, Drops
<1>3. InMain /\ Commit(c) /\ uncached' = uncached /\ failed' = failed
  BY <1>1 DEF NoWriteback, alt_dcache_flush_no_writeback
<1> HIDE DEF c
<1>4. failed' \subseteq Nat /\ \A x \in c.stale \cap Flash : LineOf(x) \in failed'
  BY <1>2, <1>3 DEF MemIndInv, MemTypeOK
<1>5. \A b \in uncached' : /\ b \in [start : Nat, len : Nat \ {0}] /\ Region(b) \subseteq Heap
                          /\ Inside(b.start, b.len) \cap Cached(c) = {}
  BY <1>2, <1>3, BlocksKeep
<1> QED
  BY <1>2, <1>3, <1>4, <1>5, MainStep

(* Flash: what an operation that has not failed changed is out of the      *)
(* cache; what one that has may have changed is noted.                     *)
LEMMA FlashHolds ==
  ASSUME MemIndInv, InMain, uncached' = uncached, NEW s \in Nat, NEW n \in Nat \ {0},
         NEW ok \in BOOLEAN, ProgramFlash(s, n, ok)
  PROVE  MemIndInv'
<1> DEFINE A == s .. s + n - 1
           c == StoreIo(Caches, A)
           d == IF ok THEN alt_dcache_flush(c, s, n) ELSE c
<1>1. A \in SUBSET Nat /\ \A a \in A : LineOf(a) \in Touched(s, n)
  BY DEF Touched
<1>2. Touched(s, n) \subseteq Nat
  BY <1>1, Lines DEF Touched
<1>3. /\ CacheOK(c) /\ Cached(c) = Cached(Caches) /\ c.dirty = dirty
      /\ c.stale \subseteq stale \cup A
  BY <1>1, CachesOK, StoresIo
<1>4. Commit(d) /\ failed' = IF ok THEN failed \ Inside(s, n) ELSE failed \cup Touched(s, n)
  BY DEF ProgramFlash
<1> HIDE DEF c
<1>5. /\ CacheOK(d) /\ Cached(d) \subseteq Cached(Caches) /\ d.dirty \subseteq dirty
      /\ d.stale \subseteq c.stale /\ (ok => Touched(s, n) \cap Cached(d) = {})
  BY <1>3, CachesOK, FlushesBlock
<1> HIDE DEF d, A
<1>6. failed' \subseteq Nat
  BY <1>2, <1>4 DEF MemIndInv, MemTypeOK
<1>7. ASSUME NEW a \in d.stale \cap Flash PROVE LineOf(a) \in failed'
  <2>1. a \in A => LineOf(a) \in Touched(s, n)
    BY <1>1
  <2>2. a \notin A => LineOf(a) \in failed
    BY <1>3, <1>5 DEF MemIndInv
  <2>3. LineOf(a) \in Cached(d)
    BY <1>5 DEF CacheOK
  <2> QED
    BY <1>4, <1>5, <2>1, <2>2, <2>3, InsideIsTouched
<1>8. \A b \in uncached' : /\ b \in [start : Nat, len : Nat \ {0}] /\ Region(b) \subseteq Heap
                          /\ Inside(b.start, b.len) \cap Cached(d) = {}
  BY <1>5, BlocksKeep
<1> QED
  BY <1>4, <1>5, <1>6, <1>7, <1>8, MainStep

LEMMA EraseHolds == MemIndInv /\ EraseFlashBlock => MemIndInv'
<1> SUFFICES ASSUME MemIndInv, EraseFlashBlock PROVE MemIndInv'
  OBVIOUS
<1>1. PICK l \in {LineOf(a) : a \in Flash}, ok \in BOOLEAN : ProgramFlash(l * LINE, LINE, ok)
  BY DEF EraseFlashBlock
<1>2. l \in Nat /\ LINE \in Nat \ {0}
  BY WordsAssumption, MemAssumption, Lines
<1>3. l * LINE \in Nat
  BY <1>2
<1> QED
  BY <1>1, <1>2, <1>3, FlashHolds DEF EraseFlashBlock

LEMMA WriteFlashHolds == MemIndInv /\ WriteFlashBlock => MemIndInv'
BY FlashHolds, WordsAssumption DEF WriteFlashBlock

LEMMA MemStepHolds == MemIndInv /\ [MemLoad \/ MemMain]_memVars => MemIndInv'
<1> SUFFICES ASSUME MemIndInv, [MemLoad \/ MemMain]_memVars PROVE MemIndInv'
  OBVIOUS
<1>1. CASE UNCHANGED memVars
  <2>1. Cached(Caches)' = Cached(Caches) /\ UncachedWords' = UncachedWords
    BY <1>1 DEF memVars, Caches, Cached, UncachedWords
  <2> QED
    BY <1>1, <2>1 DEF memVars, MemIndInv, MemTypeOK
<1> QED
  BY <1>1, CopyHolds, DoneHolds, ReadHolds, WriteHolds, WriteIoHolds, NewBlocks, FreeHolds,
     DropHolds, EraseHolds, WriteFlashHolds DEF MemLoad, MemMain

LEMMA MemFollows == MemIndInv => MemInv
BY DEF MemIndInv, MemInv, HeapLines

LEMMA MemStepLeaves ==
  MemIndInv /\ [MemLoad \/ MemMain]_memVars =>
    [\A b \in uncached' \ uncached : Touched(b.start, b.len) \cap Cached(Caches') = {}]_memVars
<1> SUFFICES ASSUME MemIndInv, MemLoad \/ MemMain, NEW b \in uncached' \ uncached
             PROVE  Touched(b.start, b.len) \cap Cached(Caches') = {}
  OBVIOUS
<1>1. CASE RemapUncached \/ UncachedMalloc
  BY <1>1, NewBlocks
<1>2. CASE ~ (RemapUncached \/ UncachedMalloc)
  BY <1>2 DEF MemLoad, MemMain, CopyWord, LoadDone, ReadCached, WriteCached, WriteUncached,
     UncachedFree, alt_remap_cached, NoWriteback, EraseFlashBlock, WriteFlashBlock
<1> QED
  BY <1>1, <1>2

-----------------------------------------------------------------------------
(* The busy loop.  usleep() turns its loops as often as it should: big     *)
(* loops of INT_MAX turns, a multiple of PER_US but for less than PER_US.  *)
LEMMA SleepTurns ==
  ASSUME RELOADS, NEW us \in Nat, us % BigLoop # 0
  PROVE  alt_busy_sleep(us) \in us * PER_US .. (us + big_loops(us)) * PER_US
<1> DEFINE M == INT_MAX
           P == PER_US
           B == BigLoop
           n == big_loops(us)
           r == us % B
           q == M % P
<1>1. M \in Nat /\ P \in Nat \ {0} /\ P <= M
  BY SleepAssumption
<1>2. B \in Nat /\ q \in 0 .. P - 1 /\ M = P * B + q
  BY <1>1, Division DEF BigLoop
<1>3. B # 0
  <2>1. ASSUME B = 0 PROVE FALSE
    BY <1>1, <1>2, <2>1
  <2> QED
    BY <2>1
<1>4. n \in Nat /\ r \in 1 .. B - 1 /\ us = B * n + r
  <2>1. BigLoop \in Nat \ {0} /\ us % BigLoop # 0
    BY <1>2, <1>3
  <2>2. /\ us \div BigLoop \in Nat /\ us % BigLoop \in 0 .. BigLoop - 1
        /\ us = BigLoop * (us \div BigLoop) + (us % BigLoop)
    BY <2>1, Division
  <2> QED
    BY <2>1, <2>2 DEF big_loops
<1> HIDE DEF M, P, B, n, r, q
<1>5. us * P = (B * n) * P + r * P /\ (B * n) * P = n * (P * B)
  BY <1>1, <1>2, <1>4
<1>6. n * M = n * (P * B) + n * q
  BY <1>1, <1>2, <1>4
<1>7. n * q \in 0 .. n * P
  <2>1. n * q \in Nat /\ n * P \in Nat /\ n * (P - q) \in Nat /\ n * P = n * q + n * (P - q)
    BY <1>1, <1>2, <1>4
  <2> QED
    BY <2>1
<1>8. r * P \in 1 .. M
  <2>1. /\ r * P \in Nat /\ (r - 1) * P \in Nat /\ r * P = (r - 1) * P + P
    BY <1>1, <1>4
  <2>2. /\ (B - r) * P \in Nat /\ r * P + (B - r) * P = P * B
    BY <1>1, <1>2, <1>4
  <2> QED
    BY <1>1, <1>2, <2>1, <2>2
<1>9. alt_busy_sleep(us) = n * M + r * P
  <2>1. CASE n = 0
    <3>1. alt_busy_sleep(us) = WhilePositive(us * P)
      BY <2>1 DEF alt_busy_sleep, n, P
    <3>2. us * P = r * P /\ n * M = 0
      BY <1>1, <1>2, <1>4, <2>1
    <3> QED
      BY <1>8, <3>1, <3>2, <1>1 DEF WhilePositive
  <2>2. CASE n # 0
    <3>1. Rest(us) = r
      BY <1>2, <1>4 DEF Rest, B, n
    <3>2. (r * P) % (2 * (M + 1)) = r * P
      BY <1>1, <1>8
    <3>3. alt_busy_sleep(us) = UntilZero(M) + (n - 1) * UntilZero(M) + UntilZero(r * P)
      BY <2>2, <3>1, <3>2 DEF alt_busy_sleep, n, P, M
    <3>4. UntilZero(M) = M /\ UntilZero(r * P) = r * P
      BY <1>1, <1>8 DEF UntilZero
    <3>5. M + (n - 1) * M = n * M
      BY <1>1, <1>4
    <3> QED
      BY <3>3, <3>4, <3>5
  <2> QED
    BY <2>1, <2>2
<1>10. (us + n) * P = us * P + n * P
  BY <1>1, <1>4
<1>11. alt_busy_sleep(us) \in us * P .. (us + n) * P
  <2>1. n * M \in Nat /\ r * P \in Nat /\ us * P \in Nat /\ n * P \in Nat /\ n * q \in Nat
        /\ n * (P * B) \in Nat
    BY <1>1, <1>2, <1>4
  <2> QED
    BY <2>1, <1>5, <1>6, <1>7, <1>9, <1>10
<1> QED
  BY <1>11 DEF n, P

LEMMA SleepInitHolds == SleepInit => SleepsAsAsked
BY SleepAssumption DEF SleepInit, SleepsAsAsked, BigLoop

LEMMA SleepStepHolds ==
  ASSUME RELOADS, SleepsAsAsked, [ALT_USLEEP]_sleepVars
  PROVE  SleepsAsAsked'
<1>1. CASE UNCHANGED sleepVars
  BY <1>1 DEF sleepVars, SleepsAsAsked
<1>2. CASE ALT_USLEEP
  <2>1. asked' \in Nat /\ turns' = alt_busy_sleep(asked')
    BY <1>2, SleepAssumption DEF ALT_USLEEP
  <2> QED
    BY <2>1, SleepTurns DEF SleepsAsAsked
<1> QED
  BY <1>1, <1>2

-----------------------------------------------------------------------------
(* The profiler.  A profile p is the record of what mcount() changes, and  *)
(* what is said of one is said of p, so that it can be said of the ones an *)
(* interrupt's call goes through as well.                                  *)
ProfCalls == ThreadCalls \cup IrqCalls
Selfs     == {c[1] : c \in ProfCalls}
Froms     == {c[2] : c \in ProfCalls}
FnEntry   == [block : Nat, self : Selfs]
ArcEntry  == [block : Nat, fn : Nat, from : Froms, count : Nat]

Unlinked == {"test", "clear", "init", "start", "set", "again", "link"}
Entries ==
  [at : {"find fn", "find arc", "load", "store"} \cup Unlinked, call : ProfCalls,
   fn : Nat, arc : Nat, count : Nat]
McountFrame == {Returned} \cup Entries

Profiles ==
  [heap_end : Nat, stack_limit : Nat, slab : [ptr : Int, size : Nat],
   fns : Seq(FnEntry), arcs : Seq(ArcEntry), need_init : BOOLEAN,
   histograms : Seq(Nat), starts : Nat, fate : {"runs", "wild", "overflow reported", "loops"},
   made : [ProfCalls -> Nat]]

\* The heap: blocks that are apart from each other and from the slab.
Before(b, d)  == b[3] + b[4] <= d[3]
AnyBlock      == {"fn", "arc", "histogram", "malloc"} \X Nat \X Nat \X Nat
ProfBlocks(p) == EntryBlocks(p) \cup DataBlocks(p)

Placed(B, p) ==
  /\ B \subseteq AnyBlock
  /\ \A b \in B :
       /\ HEAP_START <= b[3] /\ b[3] + b[4] <= p.heap_end
       /\ b[3] + b[4] <= p.slab.ptr \/ p.slab.ptr + p.slab.size <= b[3]
       /\ \A d \in B : b # d => Before(b, d) \/ Before(d, b)
  /\ p.slab.size > 0 => HEAP_START <= p.slab.ptr
  /\ p.slab.ptr + p.slab.size <= p.heap_end
  /\ HEAP_START <= p.heap_end

WholeWords == Buckets % 2 = 0 /\ \A n \in Mallocs : n % 2 = 0

LimitFollows(p) ==
  WholeWords => /\ p.stack_limit = p.heap_end /\ p.heap_end % 2 = 0
                /\ p.fate = "runs" => p.heap_end < STACK

\* The lists.
Listed(p, b, s)   == \E e \in DOMAIN p.fns : p.fns[e].block = b /\ p.fns[e].self = s
AtMostOne(p, s)   == \A i, j \in DOMAIN p.fns : p.fns[i].self = s /\ p.fns[j].self = s => i = j
AtMostTwo(p)      == \A i, j, k \in DOMAIN p.fns :
                       p.fns[i].self = p.fns[j].self /\ p.fns[j].self = p.fns[k].self =>
                         i = j \/ j = k \/ i = k
NotListed(p, s)   == \A i \in DOMAIN p.fns : p.fns[i].self # s

Graph(p) ==
  /\ \A i \in DOMAIN p.arcs : \E e \in DOMAIN p.fns : p.fns[e].block = p.arcs[i].fn
  /\ AtMostTwo(p)
  /\ p.starts > 0 => p.histograms # << >>
  /\ \A c \in ProfCalls : IsFiniteSet(Marks(p, c)) /\ (p.made[c] > 0 => Copies(p, c) # {})

ProfSound(p) == Placed(ProfBlocks(p), p) /\ LimitFollows(p) /\ Graph(p)

\* A frame, whatever interrupts have done since each of its steps.
FrameSound(p, f) ==
  f # Returned =>
    /\ f.fn # 0 => Listed(p, f.fn, f.call[1])
    /\ f.at \in {"find arc", "load", "store"} => f.fn # 0
    /\ f.at \in {"load", "store"} =>
         \E i \in DOMAIN p.arcs : p.arcs[i].block = f.arc /\ p.arcs[i].fn = f.fn
                                  /\ p.arcs[i].from = f.call[2]
    /\ f.at \in Unlinked /\ f.fn = 0 => AtMostOne(p, f.call[1])
    /\ f.at = "start" => p.histograms # << >>

\* The frame of an interrupt, which nothing comes between.
FrameSharp(p, g) ==
  g # Returned =>
    /\ g.at \in Unlinked /\ g.fn = 0 => NotListed(p, g.call[1])
    /\ g.at = "store" => \A i \in DOMAIN p.arcs : p.arcs[i].block = g.arc => p.arcs[i].count = g.count

\* No call is counted that was not made, and no more than n are lost, with
\* the one that a frame between its load and its store is about to lose.
Counted(p, f, n) ==
  /\ \A c \in ProfCalls : Recorded(p, c) <= p.made[c] /\ p.made[c] <= Recorded(p, c) + n
  /\ f # Returned /\ f.at = "store" =>
       \A i \in DOMAIN p.arcs : p.arcs[i].block = f.arc =>
         /\ f.count <= p.arcs[i].count
         /\ p.made[f.call] + p.arcs[i].count - f.count <= Recorded(p, f.call) + n

SampleInHistogram ==
  text_size % BUCKET = 0 /\ sampled # 0 =>
    \E i \in DOMAIN histograms : sampled \in Extent(histograms[i], Buckets)

ProfTypeOK ==
  /\ Profile \in Profiles /\ frame \in McountFrame
  /\ text_size \in Texts /\ rate \in Nat /\ samples \in Nat /\ sampled \in Int
  /\ mallocs \in Seq([block : Nat, size : Mallocs])

ProfIndInv ==
  /\ ProfTypeOK
  /\ fate # "wild" =>
       /\ ProfSound(Profile) /\ Counted(Profile, frame, samples) /\ SampleInHistogram
       /\ fate = "runs" => FrameSound(Profile, frame)

-----------------------------------------------------------------------------
LEMMA ProfConstants ==
  /\ SLAB \in Nat \ {0} /\ SLAB % 6 = 0 /\ SLAB >= 6 /\ SLAB % 2 = 0
  /\ ENTRY = 6 /\ HEAP_START = 2 /\ NoMemory = -1
  /\ BUCKET \in Nat \ {0} /\ HEAP_LIMIT \in Nat /\ STACK \in Nat /\ STACK > 2
  /\ Texts \subseteq Nat /\ Mallocs \subseteq Nat
<1>1. SLAB \in Nat \ {0} /\ SLAB % 6 = 0
  BY ProfilerAssumption DEF ENTRY
<1>2. SLAB >= 6 /\ SLAB % 2 = 0
  BY <1>1
<1> QED
  BY <1>1, <1>2, ProfilerAssumption DEF ENTRY, HEAP_START, NoMemory

LEMMA Words == ENTRY = 6 /\ HEAP_START = 2 /\ NoMemory = -1
BY DEF ENTRY, HEAP_START, NoMemory

LEMMA Prepend ==
  ASSUME NEW S, NEW e \in S, NEW s \in Seq(S)
  PROVE  LET t == <<e>> \o s
         IN  /\ t \in Seq(S) /\ Len(t) = Len(s) + 1 /\ t[1] = e
             /\ DOMAIN t = 1 .. Len(s) + 1 /\ DOMAIN s = 1 .. Len(s)
             /\ \A i \in 1 .. Len(s) : i + 1 \in DOMAIN t /\ t[i + 1] = s[i]
             /\ \A i \in DOMAIN t : i = 1 \/ (i - 1 \in DOMAIN s /\ t[i] = s[i - 1])
<1> DEFINE t == <<e>> \o s
<1>1. <<e>> \in Seq(S) /\ Len(<<e>>) = 1 /\ <<e>>[1] = e /\ Len(s) \in Nat /\ DOMAIN s = 1 .. Len(s)
  BY LenProperties
<1>2. /\ t \in Seq(S) /\ Len(t) = Len(s) + 1
      /\ \A i \in 1 .. Len(s) + 1 : t[i] = IF i <= 1 THEN e ELSE s[i - 1]
  BY <1>1, ConcatProperties
<1>3. DOMAIN t = 1 .. Len(s) + 1
  BY <1>2, LenProperties
<1> HIDE DEF t
<1>4. t[1] = e
  BY <1>1, <1>2
<1>5. \A i \in 1 .. Len(s) : i + 1 \in DOMAIN t /\ t[i + 1] = s[i]
  BY <1>1, <1>2, <1>3
<1>6. \A i \in DOMAIN t : i = 1 \/ (i - 1 \in DOMAIN s /\ t[i] = s[i - 1])
  BY <1>1, <1>2, <1>3
<1> QED
  BY <1>1, <1>2, <1>3, <1>4, <1>5, <1>6 DEF t

SameLists(p, q) ==
  /\ q.fns = p.fns /\ q.arcs = p.arcs /\ q.histograms = p.histograms
  /\ q.made = p.made /\ q.starts = p.starts

Aligned(h) == 2 * ((h + 1) \div 2)

LEMMA Aligns ==
  ASSUME NEW h \in Nat
  PROVE  Aligned(h) \in Nat /\ h <= Aligned(h) /\ (h % 2 = 0 => Aligned(h) = h)
BY DEF Aligned

\* What sbrk() gives is above all it has given before.
LEMMA Sbrk ==
  ASSUME NEW p \in Profiles, NEW n \in Nat
  PROVE  LET s == ALT_SBRK(p, n)
         IN  /\ s.p \in Profiles /\ SameLists(p, s.p) /\ s.p.slab = p.slab
             /\ p.heap_end <= s.p.heap_end
             /\ s.block = NoMemory => s.p.fate = p.fate
             /\ s.block # NoMemory =>
                  s.block \in Nat /\ p.heap_end <= s.block /\ s.block + n <= s.p.heap_end
             /\ s.p.fate \in {p.fate, "overflow reported"}
             /\ p.fate = "runs" /\ LimitFollows(p) /\ (WholeWords => n % 2 = 0) => LimitFollows(s.p)
<1> DEFINE s == ALT_SBRK(p, n)
           a == Aligned(p.heap_end)
<1>1. /\ p.heap_end \in Nat /\ p.stack_limit \in Nat
      /\ p.fate \in {"runs", "wild", "overflow reported", "loops"}
  BY DEF Profiles
<1>2. a \in Nat /\ p.heap_end <= a /\ (p.heap_end % 2 = 0 => a = p.heap_end)
  BY <1>1, Aligns
<1>3. CASE a + n > HEAP_LIMIT
  <2>1. s.p = [p EXCEPT !.heap_end = a] /\ s.block = NoMemory
    BY <1>3 DEF ALT_SBRK, Aligned
  <2> HIDE DEF s, a
  <2>2. s.p \in Profiles /\ SameLists(p, s.p) /\ s.p.slab = p.slab /\ s.p.heap_end = a
        /\ s.p.fate = p.fate /\ s.p.stack_limit = p.stack_limit
    BY <1>2, <2>1 DEF Profiles, SameLists
  <2>3. LimitFollows(p) => LimitFollows(s.p)
    BY <1>1, <1>2, <2>2 DEF LimitFollows
  <2> QED
    BY <1>1, <1>2, <2>1, <2>2, <2>3 DEF s
<1>4. CASE ~ (a + n > HEAP_LIMIT)
  <2>1. s.p = Extend(p, a, n) /\ s.block = a
    BY <1>4 DEF ALT_SBRK, Aligned
  <2> HIDE DEF s, a
  <2>2. /\ s.p \in Profiles /\ SameLists(p, s.p) /\ s.p.slab = p.slab /\ s.p.heap_end = a + n
        /\ p.stack_limit # a => s.p.stack_limit = p.stack_limit /\ s.p.fate = p.fate
        /\ p.stack_limit = a => /\ s.p.stack_limit = a + n
                                /\ s.p.fate = IF STACK <= a + n THEN "overflow reported" ELSE p.fate
    <3>1. a + n \in Nat
      BY <1>2
    <3>2. CASE p.stack_limit # a
      <4>1. s.p = [p EXCEPT !.heap_end = a + n]
        BY <2>1, <3>2 DEF Extend
      <4> QED
        BY <3>1, <3>2, <4>1 DEF Profiles, SameLists
    <3>3. CASE p.stack_limit = a
      <4>1. s.p = [p EXCEPT !.heap_end = a + n, !.stack_limit = a + n,
                     !.fate = IF STACK <= a + n THEN "overflow reported" ELSE @]
        BY <2>1, <3>3 DEF Extend
      <4> QED
        BY <3>1, <3>3, <4>1 DEF Profiles, SameLists
    <3> QED
      BY <3>2, <3>3
  <2>3. p.fate = "runs" /\ LimitFollows(p) /\ (WholeWords => n % 2 = 0) => LimitFollows(s.p)
    <3> SUFFICES ASSUME p.fate = "runs", LimitFollows(p), WholeWords, n % 2 = 0
                 PROVE  /\ s.p.stack_limit = s.p.heap_end /\ s.p.heap_end % 2 = 0
                        /\ s.p.fate = "runs" => s.p.heap_end < STACK
      BY DEF LimitFollows
    <3>1. p.stack_limit = p.heap_end /\ p.heap_end % 2 = 0
      BY DEF LimitFollows
    <3>2. p.stack_limit = a
      BY <1>2, <3>1
    <3>3. (a + n) % 2 = 0
      BY <1>1, <1>2, <3>1, <3>2
    <3>4. s.p.stack_limit = a + n /\ s.p.heap_end = a + n
      BY <2>2, <3>2
    <3>5. s.p.fate = "runs" => a + n < STACK
      BY <1>2, <2>2, <3>2, ProfConstants
    <3> QED
      BY <3>3, <3>4, <3>5
  <2>4. a # NoMemory
    BY <1>2, ProfConstants
  <2>5. /\ p.heap_end <= s.p.heap_end /\ s.block \in Nat /\ p.heap_end <= s.block
        /\ s.block + n <= s.p.heap_end /\ s.block # NoMemory
    <3>1. s.block = a /\ s.p.heap_end = a + n
      BY <2>1, <2>2
    <3>2. a \in Nat /\ p.heap_end \in Nat /\ p.heap_end <= a
      BY <1>1, <1>2
    <3>3. \A h, k \in Nat : h <= k => h <= k + n /\ k + n <= k + n
      OBVIOUS
    <3> QED
      BY <2>4, <3>1, <3>2, <3>3
  <2>6. s.p.fate \in {p.fate, "overflow reported"}
    BY <2>2
  <2> QED
    BY <2>2, <2>3, <2>5, <2>6 DEF s
<1> QED
  BY <1>3, <1>4
LEMMA BlockTypes ==
  ASSUME NEW b \in AnyBlock
  PROVE  b[3] \in Nat /\ b[4] \in Nat
BY DEF AnyBlock

LEMMA HeapGrows ==
  ASSUME NEW B, NEW p \in Profiles, NEW q \in Profiles, Placed(B, p),
         p.heap_end <= q.heap_end, q.slab = p.slab
  PROVE  Placed(B, q)
<1>1. /\ p.heap_end \in Nat /\ q.heap_end \in Nat /\ p.slab.ptr \in Int /\ p.slab.size \in Nat
  BY DEF Profiles
<1>2. \A b \in B : b[3] \in Nat /\ b[4] \in Nat
  BY BlockTypes DEF Placed
<1>3. \A b \in B : b[3] + b[4] <= p.heap_end => b[3] + b[4] <= q.heap_end
  BY <1>1, <1>2
<1>4. \A x \in Int : x <= p.heap_end => x <= q.heap_end
  BY <1>1
<1>5. p.slab.ptr + p.slab.size \in Int /\ HEAP_START \in Int
  BY <1>1, ProfConstants
<1> QED
  BY <1>3, <1>4, <1>5 DEF Placed

LEMMA HeapStays ==
  ASSUME NEW B, NEW p, NEW q, Placed(B, p), q.heap_end = p.heap_end, q.slab = p.slab
  PROVE  Placed(B, q)
BY Zenon DEF Placed

\* A block, or a slab, at the end of the heap.
LEMMA HeapAdds ==
  ASSUME NEW B, NEW p \in Profiles, NEW q \in Profiles, Placed(B, p), NEW t \in AnyBlock,
         p.heap_end <= t[3], t[3] + t[4] <= q.heap_end, q.slab = p.slab
  PROVE  Placed(B \cup {t}, q)
<1>1. /\ p.heap_end \in Nat /\ q.heap_end \in Nat /\ p.slab.ptr \in Int /\ p.slab.size \in Nat
      /\ t[3] \in Nat /\ t[4] \in Nat /\ HEAP_START = 2
  BY BlockTypes, Words DEF Profiles
<1>2. p.heap_end <= q.heap_end
  BY <1>1
<1>3. Placed(B, q)
  BY <1>2, HeapGrows
<1>4. \A b \in B : b[3] \in Nat /\ b[4] \in Nat /\ b[3] + b[4] <= p.heap_end
  BY BlockTypes DEF Placed
<1>5. \A b \in B : Before(b, t)
  BY <1>1, <1>4 DEF Before
<1>6. /\ HEAP_START <= t[3]
      /\ t[3] + t[4] <= p.slab.ptr \/ p.slab.ptr + p.slab.size <= t[3]
  <2>1. HEAP_START <= p.heap_end /\ p.slab.ptr + p.slab.size <= p.heap_end
    BY DEF Placed
  <2> QED
    BY <1>1, <2>1
<1> QED
  BY <1>3, <1>5, <1>6 DEF Placed
LEMMA NewSlab ==
  ASSUME NEW B, NEW p \in Profiles, NEW q \in Profiles, Placed(B, p),
         p.heap_end <= q.slab.ptr, q.slab.ptr + q.slab.size <= q.heap_end
  PROVE  Placed(B, q)
<1>1. /\ p.heap_end \in Nat /\ q.heap_end \in Nat /\ q.slab.ptr \in Int /\ q.slab.size \in Nat
      /\ HEAP_START = 2
  BY Words DEF Profiles
<1>2. \A b \in B : b[3] \in Nat /\ b[4] \in Nat /\ b[3] + b[4] <= p.heap_end
  BY BlockTypes DEF Placed
<1>3. p.heap_end <= q.heap_end /\ HEAP_START <= p.heap_end
  BY <1>1 DEF Placed
<1>4. \A b \in B : b[3] + b[4] <= q.heap_end /\ b[3] + b[4] <= q.slab.ptr
  BY <1>1, <1>2, <1>3
<1>5. HEAP_START <= q.slab.ptr /\ HEAP_START <= q.heap_end
  BY <1>1, <1>3
<1> QED
  BY <1>4, <1>5 DEF Placed

LEMMA NextSlab ==
  ASSUME NEW p \in Profiles, NEW i \in Int, NEW n \in Nat, NEW q,
         q = [p EXCEPT !.slab = [ptr |-> i, size |-> n]]
  PROVE  /\ q \in Profiles /\ SameLists(p, q) /\ q.slab.ptr = i /\ q.slab.size = n
         /\ q.slab = [ptr |-> i, size |-> n] /\ q.heap_end = p.heap_end
         /\ q.stack_limit = p.stack_limit /\ q.fate = p.fate
BY DEF Profiles, SameLists

\* A block from the slab.
LEMMA FromSlab ==
  ASSUME NEW B, NEW p \in Profiles, NEW q \in Profiles, Placed(B, p), NEW t \in AnyBlock,
         t[3] = p.slab.ptr, t[4] > 0, t[4] <= p.slab.size, q.heap_end = p.heap_end,
         q.slab = [ptr |-> p.slab.ptr + t[4], size |-> p.slab.size - t[4]]
  PROVE  /\ Placed(B \cup {t}, q)
         /\ \A b \in B : b[4] > 0 => b[3] # t[3]
<1>0. p.heap_end \in Nat /\ p.slab.ptr \in Int /\ p.slab.size \in Nat
  BY DEF Profiles
<1>a. q.slab.ptr = p.slab.ptr + t[4] /\ q.slab.size = p.slab.size - t[4]
  OBVIOUS
<1>1. /\ p.heap_end \in Nat /\ p.slab.ptr \in Int /\ p.slab.size \in Nat
      /\ t[3] \in Nat /\ t[4] \in Nat /\ HEAP_START = 2
      /\ q.slab.ptr = p.slab.ptr + t[4] /\ q.slab.size = p.slab.size - t[4]
  BY <1>0, <1>a, BlockTypes, Words
<1>2. \A b \in B : b[3] \in Nat /\ b[4] \in Nat
  BY BlockTypes DEF Placed
<1>3. \A b \in B : b[3] + b[4] <= p.slab.ptr \/ p.slab.ptr + p.slab.size <= b[3]
  BY DEF Placed
<1>4. \A b \in B : Before(b, t) \/ Before(t, b)
  BY <1>1, <1>2, <1>3 DEF Before
<1>5. \A b \in B : b[4] > 0 => b[3] # t[3]
  BY <1>1, <1>2, <1>3
<1>6. q.slab.ptr + q.slab.size = p.slab.ptr + p.slab.size
  BY <1>1
<1>7. \A b \in B : b[3] + b[4] <= q.slab.ptr \/ q.slab.ptr + q.slab.size <= b[3]
  BY <1>1, <1>2, <1>3, <1>6
<1>8. HEAP_START <= t[3] /\ t[3] + t[4] <= q.heap_end /\ t[3] + t[4] <= q.slab.ptr
  BY <1>1 DEF Placed
<1>9. q.slab.size > 0 => HEAP_START <= q.slab.ptr
  BY <1>1, <1>8
<1> QED
  BY <1>4, <1>5, <1>6, <1>7, <1>8, <1>9 DEF Placed

\* mcount_allocate() as it is used: a block of three words, or the end.
SlabFor(p) == IF ENTRY <= p.slab.size THEN [p |-> p, block |-> p.slab.ptr] ELSE ALT_SBRK(p, SLAB)
LeftFor(p) == IF ENTRY <= p.slab.size THEN p.slab.size ELSE SLAB

LEMMA SlabHolds ==
  ASSUME NEW p \in Profiles, p.fate = "runs", NEW B, Placed(B, p), LimitFollows(p)
  PROVE  LET s == SlabFor(p)
         IN  /\ s.p \in Profiles /\ SameLists(p, s.p) /\ LeftFor(p) \in Nat /\ LeftFor(p) >= 6
             /\ s.p.fate \in {"runs", "overflow reported"}
             /\ LimitFollows(s.p) /\ s.block \in Int
             /\ s.block # NoMemory =>
                  \E v \in Profiles : /\ v.heap_end = s.p.heap_end /\ v.slab.ptr = s.block
                                      /\ v.slab.size = LeftFor(p) /\ Placed(B, v)
<1> DEFINE s == SlabFor(p)
<1>1. p.slab.ptr \in Int /\ p.slab.size \in Nat
  BY DEF Profiles
<1>2. CASE ENTRY <= p.slab.size
  <2>1. s.p = p /\ s.block = p.slab.ptr /\ LeftFor(p) = p.slab.size
    BY <1>2 DEF SlabFor, LeftFor
  <2> HIDE DEF s
  <2>2. LeftFor(p) >= 6
    BY <1>2, <2>1, Words
  <2>3. SameLists(p, s.p)
    BY <2>1 DEF SameLists
  <2>4. s.p.fate = "runs"
    BY <2>1
  <2> QED
    BY <1>1, <2>1, <2>2, <2>3, <2>4 DEF s
<1>3. CASE ~ (ENTRY <= p.slab.size)
  <2>1. s = ALT_SBRK(p, SLAB) /\ LeftFor(p) = SLAB
    BY <1>3 DEF SlabFor, LeftFor
  <2>2. SLAB \in Nat /\ SLAB >= 6 /\ SLAB % 2 = 0
    BY ProfConstants
  <2> HIDE DEF s
  <2>3. /\ s.p \in Profiles /\ SameLists(p, s.p) /\ s.p.slab = p.slab
        /\ p.heap_end <= s.p.heap_end
        /\ s.block # NoMemory =>
             s.block \in Nat /\ p.heap_end <= s.block /\ s.block + SLAB <= s.p.heap_end
        /\ s.p.fate \in {p.fate, "overflow reported"}
        /\ LimitFollows(s.p)
    BY <2>1, <2>2, Sbrk
  <2>4. NoMemory \in Int
    BY Words
  <2>5. s.block \in Int
    <3>1. s.block = NoMemory \/ s.block \in Nat
      BY <2>3
    <3> QED
      BY <2>4, <3>1
  <2>6. ASSUME s.block # NoMemory
        PROVE  \E v \in Profiles : /\ v.heap_end = s.p.heap_end /\ v.slab.ptr = s.block
                                   /\ v.slab.size = LeftFor(p) /\ Placed(B, v)
    <3> DEFINE v == [s.p EXCEPT !.slab = [ptr |-> s.block, size |-> SLAB]]
    <3>1. /\ v \in Profiles /\ v.heap_end = s.p.heap_end /\ v.slab.ptr = s.block
          /\ v.slab.size = SLAB
      <4>1. s.p \in Profiles /\ SLAB \in Nat
        BY <2>2, <2>3
      <4> QED
        BY <2>5, <4>1, NextSlab
    <3> HIDE DEF v
    <3>2. Placed(B, v)
      BY <2>3, <2>6, <3>1, NewSlab
    <3> QED
      BY <2>1, <3>1, <3>2
  <2>7. LeftFor(p) \in Nat /\ LeftFor(p) >= 6
    BY <2>1, <2>2
  <2> QED
    BY <2>3, <2>5, <2>6, <2>7 DEF s
<1> QED
  BY <1>2, <1>3

LEMMA Allocates ==
  ASSUME NEW p \in Profiles, p.fate = "runs", NEW B, Placed(B, p), LimitFollows(p)
  PROVE  LET a == mcount_allocate(p, ENTRY)
         IN  /\ a.p \in Profiles /\ SameLists(p, a.p)
             /\ a.p.fate \in {"runs", "wild", "overflow reported"}
             /\ a.p.fate # "wild" =>
                  /\ LimitFollows(a.p) /\ a.block \in Nat /\ a.block # 0 /\ Placed(B, a.p)
                  /\ \A b \in B : b[4] > 0 => b[3] # a.block
                  /\ \A t \in AnyBlock : t[3] = a.block /\ t[4] = ENTRY => Placed(B \cup {t}, a.p)
<1> DEFINE s    == SlabFor(p)
           left == LeftFor(p)
           w    == Wild(s.p, s.block)
           a    == mcount_allocate(p, ENTRY)
           ptr  == s.block + ENTRY
           size == left - ENTRY
<1>1. a = [p |-> [w EXCEPT !.slab = [ptr |-> ptr, size |-> size]],
           block |-> s.block]
  BY DEF mcount_allocate, SlabFor, LeftFor
<1> HIDE DEF s, left
<1>2. /\ s.p \in Profiles /\ SameLists(p, s.p) /\ left \in Nat /\ left >= 6
      /\ s.p.fate \in {"runs", "overflow reported"}
      /\ LimitFollows(s.p) /\ s.block \in Int
      /\ s.block # NoMemory =>
           \E v \in Profiles : /\ v.heap_end = s.p.heap_end /\ v.slab.ptr = s.block
                               /\ v.slab.size = left /\ Placed(B, v)
  BY SlabHolds DEF s, left
<1>3. ptr \in Int /\ size \in Nat
  <2>1. left \in Nat /\ left >= 6 /\ s.block \in Int
    BY <1>2
  <2> QED
    BY <2>1, Words
<1>4. CASE s.block = NoMemory
  <2>1. w = [s.p EXCEPT !.fate = "wild"]
    BY <1>4 DEF Wild
  <2>2. w \in Profiles /\ w.fate = "wild" /\ SameLists(p, w)
    <3>1. s.p \in Profiles /\ SameLists(p, s.p)
      BY <1>2
    <3> QED
      BY <2>1, <3>1 DEF Profiles, SameLists
  <2> HIDE DEF w, a, ptr, size
  <2>3. a.p = [w EXCEPT !.slab = [ptr |-> ptr, size |-> size]]
    BY <1>1
  <2>4. a.p \in Profiles /\ SameLists(w, a.p) /\ a.p.fate = w.fate
    <3> DEFINE q == a.p
    <3>1. w \in Profiles /\ q = [w EXCEPT !.slab = [ptr |-> ptr, size |-> size]]
      BY <2>2, <2>3
    <3> HIDE DEF q
    <3>2. q \in Profiles /\ SameLists(w, q) /\ q.fate = w.fate
      BY <1>3, <3>1 DEF Profiles, SameLists
    <3> QED
      BY <3>2 DEF q
  <2>5. SameLists(p, a.p)
    BY <2>2, <2>4 DEF SameLists
  <2> QED
    BY <2>2, <2>4, <2>5 DEF a
<1>5. CASE s.block # NoMemory
  <2>1. w = s.p
    BY <1>5 DEF Wild
  <2> HIDE DEF w, a, ptr, size
  <2>2. /\ a.p = [s.p EXCEPT !.slab = [ptr |-> ptr, size |-> size]]
        /\ a.block = s.block
    BY <1>1, <2>1
  <2>3. s.p \in Profiles
    BY <1>2
  <2>4. /\ a.p \in Profiles /\ SameLists(s.p, a.p) /\ a.p.fate = s.p.fate
        /\ a.p.heap_end = s.p.heap_end /\ a.p.stack_limit = s.p.stack_limit
        /\ a.p.slab = [ptr |-> ptr, size |-> size]
    <3> DEFINE q == a.p
    <3>1. s.p \in Profiles /\ q = [s.p EXCEPT !.slab = [ptr |-> ptr, size |-> size]]
      BY <2>2, <2>3
    <3> HIDE DEF q
    <3>2. /\ q \in Profiles /\ SameLists(s.p, q) /\ q.fate = s.p.fate
          /\ q.heap_end = s.p.heap_end /\ q.stack_limit = s.p.stack_limit
          /\ q.slab = [ptr |-> ptr, size |-> size]
      BY <1>3, <3>1 DEF Profiles, SameLists
    <3> QED
      BY <3>2 DEF q
  <2>5. LimitFollows(a.p) /\ SameLists(p, a.p)
    <3>1. LimitFollows(s.p) /\ SameLists(p, s.p)
      BY <1>2
    <3> QED
      BY <2>4, <3>1 DEF LimitFollows, SameLists
  <2>6. PICK v \in Profiles : /\ v.heap_end = s.p.heap_end /\ v.slab.ptr = s.block
                              /\ v.slab.size = left /\ Placed(B, v)
    BY <1>2, <1>5
  <2>7. s.block \in Nat /\ s.block # 0
    <3>0. left >= 6 /\ left \in Nat /\ s.block \in Int
      BY <1>2
    <3>1. left > 0 /\ s.block \in Int
      BY <3>0
    <3>2. HEAP_START <= s.block
      BY <2>6, <3>1 DEF Placed
    <3> QED
      BY <3>1, <3>2, Words
  <2>8. ASSUME NEW t \in AnyBlock, t[3] = a.block, t[4] = ENTRY
        PROVE  Placed(B \cup {t}, a.p) /\ \A b \in B : b[4] > 0 => b[3] # a.block
    <3>1. left \in Nat /\ left >= 6
      BY <1>2
    <3>2. t[4] > 0 /\ t[4] <= v.slab.size
      BY <2>6, <2>8, <3>1, Words
    <3>3. /\ t[3] = v.slab.ptr
          /\ a.p.slab = [ptr |-> v.slab.ptr + t[4], size |-> v.slab.size - t[4]]
          /\ a.p.heap_end = v.heap_end
      BY <2>2, <2>4, <2>6, <2>8 DEF ptr, size
    <3> QED
      BY <2>4, <2>6, <2>8, <3>2, <3>3, FromSlab
  <2>9. \E t \in AnyBlock : t[3] = a.block /\ t[4] = ENTRY
    <3> DEFINE t == <<"fn", 0, a.block, ENTRY>>
    <3>1. a.block \in Nat /\ ENTRY \in Nat
      BY <2>2, <2>7, Words
    <3>2. t \in AnyBlock
      BY <3>1 DEF AnyBlock
    <3> QED
      BY <3>2
  <2>10. Placed(B, a.p) /\ \A b \in B : b[4] > 0 => b[3] # a.block
    BY <2>8, <2>9 DEF Placed
  <2>11. a.block \in Nat /\ a.block # 0 /\ a.p.fate \in {"runs", "wild", "overflow reported"}
    <3>1. s.p.fate \in {"runs", "overflow reported"}
      BY <1>2
    <3> QED
      BY <2>2, <2>4, <2>7, <3>1
  <2> QED
    BY <2>4, <2>5, <2>8, <2>10, <2>11 DEF a
<1> QED
  BY <1>4, <1>5

-----------------------------------------------------------------------------
LEMMA ProfileTypes ==
  ASSUME NEW p \in Profiles
  PROVE  /\ p.fns \in Seq(FnEntry) /\ p.arcs \in Seq(ArcEntry) /\ p.histograms \in Seq(Nat)
         /\ DOMAIN p.fns = 1 .. Len(p.fns) /\ Len(p.fns) \in Nat
         /\ DOMAIN p.arcs = 1 .. Len(p.arcs) /\ Len(p.arcs) \in Nat
         /\ \A i \in DOMAIN p.fns : p.fns[i] \in FnEntry
         /\ \A i \in DOMAIN p.arcs : p.arcs[i] \in ArcEntry
<1>1. p.fns \in Seq(FnEntry) /\ p.arcs \in Seq(ArcEntry) /\ p.histograms \in Seq(Nat)
  BY DEF Profiles
<1>2. \A i \in 1 .. Len(p.fns) : p.fns[i] \in FnEntry
  BY <1>1, ElementOfSeq
<1>3. \A i \in 1 .. Len(p.arcs) : p.arcs[i] \in ArcEntry
  BY <1>1, ElementOfSeq
<1> QED
  BY <1>1, <1>2, <1>3, LenProperties

\* No two entries of a list share an address, and none has the address 0.
LEMMA OneAddress ==
  ASSUME NEW p \in Profiles, Placed(ProfBlocks(p), p)
  PROVE  /\ \A i \in DOMAIN p.fns : \A j \in DOMAIN p.fns : p.fns[i].block = p.fns[j].block => i = j
         /\ \A i \in DOMAIN p.arcs : \A j \in DOMAIN p.arcs : p.arcs[i].block = p.arcs[j].block => i = j
         /\ \A i \in DOMAIN p.fns : p.fns[i].block # 0
         /\ \A i \in DOMAIN p.arcs : p.arcs[i].block # 0
<1> DEFINE F(i) == <<"fn", Len(p.fns) - i, p.fns[i].block, ENTRY>>
           A(i) == <<"arc", Len(p.arcs) - i, p.arcs[i].block, ENTRY>>
<1>1. /\ \A i \in DOMAIN p.fns : F(i) \in ProfBlocks(p)
      /\ \A i \in DOMAIN p.arcs : A(i) \in ProfBlocks(p)
  BY DEF ProfBlocks, EntryBlocks
<1>2. /\ \A b \in ProfBlocks(p) : HEAP_START <= b[3] /\ b[3] \in Nat
      /\ \A b, d \in ProfBlocks(p) : b # d => Before(b, d) \/ Before(d, b)
  BY BlockTypes DEF Placed
<1>3. /\ DOMAIN p.fns \subseteq Nat /\ Len(p.fns) \in Nat
      /\ DOMAIN p.arcs \subseteq Nat /\ Len(p.arcs) \in Nat
  BY ProfileTypes
<1>4. ASSUME NEW i \in DOMAIN p.fns, NEW j \in DOMAIN p.fns, p.fns[i].block = p.fns[j].block
      PROVE  i = j
  <2>1. SUFFICES ASSUME i # j PROVE FALSE
    OBVIOUS
  <2>2. F(i)[2] # F(j)[2]
    BY <1>3, <2>1
  <2>3. F(i) # F(j)
    BY <2>2
  <2>4. Before(F(i), F(j)) \/ Before(F(j), F(i))
    BY <1>1, <1>2, <2>3
  <2>5. p.fns[i].block \in Nat /\ p.fns[j].block \in Nat
    BY <1>1, <1>2
  <2> QED
    BY <1>4, <2>4, <2>5, Words DEF Before
<1>5. ASSUME NEW i \in DOMAIN p.arcs, NEW j \in DOMAIN p.arcs, p.arcs[i].block = p.arcs[j].block
      PROVE  i = j
  <2>1. SUFFICES ASSUME i # j PROVE FALSE
    OBVIOUS
  <2>2. A(i)[2] # A(j)[2]
    BY <1>3, <2>1
  <2>3. A(i) # A(j)
    BY <2>2
  <2>4. Before(A(i), A(j)) \/ Before(A(j), A(i))
    BY <1>1, <1>2, <2>3
  <2>5. p.arcs[i].block \in Nat /\ p.arcs[j].block \in Nat
    BY <1>1, <1>2
  <2> QED
    BY <1>5, <2>4, <2>5, Words DEF Before
<1>6. /\ \A i \in DOMAIN p.fns : p.fns[i].block # 0
      /\ \A i \in DOMAIN p.arcs : p.arcs[i].block # 0
  <2>1. /\ \A i \in DOMAIN p.fns : HEAP_START <= F(i)[3] /\ F(i)[3] \in Nat
        /\ \A i \in DOMAIN p.arcs : HEAP_START <= A(i)[3] /\ A(i)[3] \in Nat
    BY <1>1, <1>2
  <2> QED
    BY <2>1, Words
<1>7. \A i \in DOMAIN p.fns : \A j \in DOMAIN p.fns : p.fns[i].block = p.fns[j].block => i = j
  BY <1>4
<1>8. \A i \in DOMAIN p.arcs : \A j \in DOMAIN p.arcs : p.arcs[i].block = p.arcs[j].block => i = j
  BY <1>5
<1> QED
  BY <1>6, <1>7, <1>8

LEMMA Pairs ==
  ASSUME NEW c \in ProfCalls, NEW d \in ProfCalls, c[1] = d[1], c[2] = d[2]
  PROVE  c = d
<1>1. c = <<c[1], c[2]>> /\ d = <<d[1], d[2]>>
  BY ProfilerAssumption DEF ProfCalls
<1> QED
  BY <1>1

LEMMA Owner ==
  ASSUME NEW p \in Profiles, Placed(ProfBlocks(p), p), NEW c \in ProfCalls, NEW d \in ProfCalls,
         NEW i \in Copies(p, c), i \in Copies(p, d)
  PROVE  c = d
<1>1. PICK e \in DOMAIN p.fns : p.fns[e].block = p.arcs[i].fn /\ p.fns[e].self = c[1]
  BY DEF Copies
<1>2. PICK g \in DOMAIN p.fns : p.fns[g].block = p.arcs[i].fn /\ p.fns[g].self = d[1]
  BY DEF Copies
<1>3. e = g
  <2>1. p.fns[e].block = p.fns[g].block
    BY <1>1, <1>2
  <2> QED
    BY <2>1, OneAddress
<1>4. c[2] = d[2]
  BY DEF Copies
<1> QED
  BY <1>1, <1>2, <1>3, <1>4, Pairs

LEMMA InMarks ==
  ASSUME NEW p, NEW c
  PROVE  \A x : x \in Marks(p, c) <=>
           \E i \in Copies(p, c) : \E n \in 1 .. p.arcs[i].count : x = <<p.arcs[i].block, n>>
BY DEF Marks

\* The graph is about the lists alone.
SameEntries(p, q) ==
  /\ q.fns = p.fns /\ q.arcs = p.arcs /\ q.made = p.made
  /\ p.histograms # << >> => q.histograms # << >>
  /\ q.starts = p.starts \/ q.histograms # << >>

LEMMA SameGraph ==
  ASSUME NEW p, NEW q, SameEntries(p, q)
  PROVE  /\ EntryBlocks(q) = EntryBlocks(p)
         /\ \A c : Copies(q, c) = Copies(p, c) /\ Marks(q, c) = Marks(p, c)
                   /\ Recorded(q, c) = Recorded(p, c)
         /\ Graph(p) => Graph(q)
         /\ \A f : FrameSound(p, f) => FrameSound(q, f)
         /\ \A f : FrameSharp(p, f) => FrameSharp(q, f)
         /\ \A f, n : Counted(p, f, n) => Counted(q, f, n)
<1>1. /\ q.fns = p.fns /\ q.arcs = p.arcs /\ q.made = p.made
      /\ p.histograms # << >> => q.histograms # << >>
      /\ q.starts = p.starts \/ q.histograms # << >>
  BY DEF SameEntries
<1>2. EntryBlocks(q) = EntryBlocks(p)
  BY <1>1 DEF EntryBlocks
<1>3. \A c : Copies(q, c) = Copies(p, c)
  BY <1>1 DEF Copies
<1>4. \A c : Marks(q, c) = Marks(p, c)
  BY <1>1, <1>3 DEF Marks
<1>5. \A c : Recorded(q, c) = Recorded(p, c)
  BY <1>4 DEF Recorded
<1>6. Graph(p) => Graph(q)
  <2>1. Graph(p) => AtMostTwo(q)
    BY <1>1 DEF Graph, AtMostTwo
  <2>2. Graph(p) => \A i \in DOMAIN q.arcs : \E e \in DOMAIN q.fns : q.fns[e].block = q.arcs[i].fn
    BY <1>1 DEF Graph
  <2>3. Graph(p) => (q.starts > 0 => q.histograms # << >>)
    BY <1>1 DEF Graph
  <2>4. Graph(p) => \A c \in ProfCalls : IsFiniteSet(Marks(q, c)) /\ (q.made[c] > 0 => Copies(q, c) # {})
    BY <1>1, <1>3, <1>4 DEF Graph
  <2> QED
    BY <2>1, <2>2, <2>3, <2>4, Zenon DEF Graph
<1>7. \A f : FrameSound(p, f) => FrameSound(q, f)
  BY <1>1, Zenon DEF FrameSound, Listed, AtMostOne
<1>8. \A f : FrameSharp(p, f) => FrameSharp(q, f)
  BY <1>1, Zenon DEF FrameSharp, NotListed
<1>9. \A f, n : Counted(p, f, n) => Counted(q, f, n)
  BY <1>1, <1>5, Zenon DEF Counted
<1> QED
  BY <1>2, <1>3, <1>4, <1>5, <1>6, <1>7, <1>8, <1>9

LEMMA FreshAddress ==
  ASSUME NEW p \in Profiles, NEW b, \A e \in ProfBlocks(p) : e[4] > 0 => e[3] # b
  PROVE  /\ \A i \in DOMAIN p.fns : p.fns[i].block # b
         /\ \A i \in DOMAIN p.arcs : p.arcs[i].block # b
<1> DEFINE F(i) == <<"fn", Len(p.fns) - i, p.fns[i].block, ENTRY>>
           A(i) == <<"arc", Len(p.arcs) - i, p.arcs[i].block, ENTRY>>
<1>1. /\ \A i \in DOMAIN p.fns : F(i) \in ProfBlocks(p)
      /\ \A i \in DOMAIN p.arcs : A(i) \in ProfBlocks(p)
  BY DEF ProfBlocks, EntryBlocks
<1>2. ENTRY > 0
  BY Words
<1>3. /\ \A i \in DOMAIN p.fns : F(i)[4] > 0 /\ F(i)[3] = p.fns[i].block
      /\ \A i \in DOMAIN p.arcs : A(i)[4] > 0 /\ A(i)[3] = p.arcs[i].block
  BY <1>2
<1> HIDE DEF F, A
<1> QED
  BY <1>1, <1>3

\* A new entry of the first list: the graph and its counts stay.
LEMMA AddsFn ==
  ASSUME NEW p \in Profiles, NEW q \in Profiles, Placed(ProfBlocks(p), p), Graph(p),
         NEW b \in Nat, \A e \in ProfBlocks(p) : e[4] > 0 => e[3] # b,
         NEW s \in Selfs, AtMostOne(p, s),
         q.fns = <<[block |-> b, self |-> s]>> \o p.fns, q.arcs = p.arcs,
         q.histograms = p.histograms, q.made = p.made, q.starts = p.starts
  PROVE  /\ ProfBlocks(q) = ProfBlocks(p) \cup {<<"fn", Len(p.fns), b, ENTRY>>}
         /\ Graph(q) /\ Listed(q, b, s)
         /\ \A f : FrameSound(p, f) /\ NotListed(p, s) => FrameSound(q, f)
         /\ \A f, n : Counted(p, f, n) => Counted(q, f, n)
<1> DEFINE e == [block |-> b, self |-> s]
<1>1. e \in FnEntry /\ p.fns \in Seq(FnEntry) /\ q.fns = <<e>> \o p.fns
  BY ProfileTypes DEF FnEntry
<1>2. e.block = b /\ e.self = s
  OBVIOUS
<1> HIDE DEF e
<1>3. /\ Len(q.fns) = Len(p.fns) + 1 /\ q.fns[1] = e /\ Len(p.fns) \in Nat
      /\ DOMAIN q.fns = 1 .. Len(p.fns) + 1 /\ DOMAIN p.fns = 1 .. Len(p.fns)
      /\ \A i \in 1 .. Len(p.fns) : i + 1 \in DOMAIN q.fns /\ q.fns[i + 1] = p.fns[i]
      /\ \A i \in DOMAIN q.fns : i = 1 \/ (i - 1 \in DOMAIN p.fns /\ q.fns[i] = p.fns[i - 1])
  BY <1>1, Prepend, LenProperties
<1>4. ProfBlocks(q) = ProfBlocks(p) \cup {<<"fn", Len(p.fns), b, ENTRY>>}
  <2> DEFINE F(i) == <<"fn", Len(p.fns) - i, p.fns[i].block, ENTRY>>
             G(i) == <<"fn", Len(q.fns) - i, q.fns[i].block, ENTRY>>
  <2>1. G(1) = <<"fn", Len(p.fns), b, ENTRY>>
    BY <1>2, <1>3
  <2>2. ASSUME NEW i \in DOMAIN p.fns PROVE i + 1 \in DOMAIN q.fns /\ G(i + 1) = F(i)
    <3>1. i \in Nat /\ Len(q.fns) - (i + 1) = Len(p.fns) - i
      BY <1>3
    <3> QED
      BY <1>3, <3>1
  <2>3. ASSUME NEW i \in DOMAIN q.fns
        PROVE  i = 1 \/ (i - 1 \in DOMAIN p.fns /\ G(i) = F(i - 1))
    <3>1. i \in Nat /\ Len(q.fns) - i = Len(p.fns) - (i - 1)
      BY <1>3
    <3> QED
      BY <1>3, <3>1
  <2> HIDE DEF F, G
  <2>4. 1 \in DOMAIN q.fns
    BY <1>3
  <2>5. {G(i) : i \in DOMAIN q.fns} = {F(i) : i \in DOMAIN p.fns} \cup {G(1)}
    <3>1. ASSUME NEW x \in {G(i) : i \in DOMAIN q.fns}
          PROVE  x \in {F(i) : i \in DOMAIN p.fns} \cup {G(1)}
      BY <2>3
    <3>2. ASSUME NEW x \in {F(i) : i \in DOMAIN p.fns} \cup {G(1)}
          PROVE  x \in {G(i) : i \in DOMAIN q.fns}
      BY <2>2, <2>4
    <3> QED
      BY <3>1, <3>2
  <2> DEFINE A == {<<"arc", Len(p.arcs) - i, p.arcs[i].block, ENTRY>> : i \in DOMAIN p.arcs}
  <2>6. /\ ProfBlocks(p) = ({F(i) : i \in DOMAIN p.fns} \cup A) \cup DataBlocks(p)
        /\ ProfBlocks(q) = ({G(i) : i \in DOMAIN q.fns} \cup A) \cup DataBlocks(p)
    BY DEF ProfBlocks, EntryBlocks, DataBlocks, F, G
  <2> HIDE DEF A
  <2> QED
    BY <2>1, <2>5, <2>6
<1>5. Listed(q, b, s)
  BY <1>2, <1>3 DEF Listed
<1>6. \A i \in DOMAIN p.fns : \E j \in DOMAIN q.fns : q.fns[j] = p.fns[i]
  BY <1>3
<1>7. \A x, y : Listed(p, x, y) => Listed(q, x, y)
  BY <1>6 DEF Listed
<1>8. \A i \in DOMAIN p.fns : p.fns[i].block # b
  BY FreshAddress
<1>9. \A c : Copies(q, c) = Copies(p, c)
  <2> SUFFICES ASSUME NEW c, NEW i \in DOMAIN p.arcs
               PROVE  (\E g \in DOMAIN q.fns : q.fns[g].block = p.arcs[i].fn /\ q.fns[g].self = c[1])
                      <=> Listed(p, p.arcs[i].fn, c[1])
    <3> DEFINE At(u, c, i) == \E g \in DOMAIN u.fns : u.fns[g].block = p.arcs[i].fn /\ u.fns[g].self = c[1]
    <3>1. \A c : /\ Copies(p, c) = {i \in DOMAIN p.arcs : p.arcs[i].from = c[2] /\ At(p, c, i)}
                /\ Copies(q, c) = {i \in DOMAIN p.arcs : p.arcs[i].from = c[2] /\ At(q, c, i)}
      BY DEF Copies
    <3>2. \A c : \A i \in DOMAIN p.arcs : At(q, c, i) <=> At(p, c, i)
      BY DEF Listed
    <3> HIDE DEF At
    <3> QED
      BY <3>1, <3>2
  <2>1. p.arcs[i].fn # b
    BY <1>8 DEF Graph
  <2>2. ASSUME NEW g \in DOMAIN q.fns, q.fns[g].block = p.arcs[i].fn, q.fns[g].self = c[1]
        PROVE  Listed(p, p.arcs[i].fn, c[1])
    <3>1. g # 1
      BY <1>2, <1>3, <2>1, <2>2
    <3>2. g - 1 \in DOMAIN p.fns /\ p.fns[g - 1] = q.fns[g]
      BY <1>3, <3>1
    <3> QED
      BY <2>2, <3>2 DEF Listed
  <2>3. Listed(p, p.arcs[i].fn, c[1]) => Listed(q, p.arcs[i].fn, c[1])
    BY <1>7
  <2> QED
    BY <2>2, <2>3 DEF Listed
<1>10. \A c : Marks(q, c) = Marks(p, c) /\ Recorded(q, c) = Recorded(p, c)
  <2>1. \A c : Marks(q, c) = Marks(p, c)
    BY <1>9 DEF Marks
  <2> QED
    BY <2>1 DEF Recorded
<1>11. AtMostTwo(q)
  <2> SUFFICES ASSUME NEW i \in DOMAIN q.fns, NEW j \in DOMAIN q.fns, NEW k \in DOMAIN q.fns,
                      q.fns[i].self = q.fns[j].self, q.fns[j].self = q.fns[k].self,
                      i # j, j # k, i # k
               PROVE  FALSE
    BY DEF AtMostTwo
  <2> DEFINE Old(x) == x = 1 \/ (x - 1 \in DOMAIN p.fns /\ q.fns[x] = p.fns[x - 1])
  <2>a. \A x \in DOMAIN q.fns : x \in Nat /\ Old(x)
    BY <1>3, SMTT(30)
  <2>b. i \in Nat /\ j \in Nat /\ k \in Nat
    BY <2>a
  <2>1. i \in Nat /\ j \in Nat /\ k \in Nat /\ Old(i) /\ Old(j) /\ Old(k)
    BY <2>a
  <2>2. CASE i = 1
    <3>1. /\ j - 1 \in DOMAIN p.fns /\ q.fns[j] = p.fns[j - 1]
          /\ k - 1 \in DOMAIN p.fns /\ q.fns[k] = p.fns[k - 1]
      BY <2>1, <2>2
    <3>2. q.fns[i].self = s
      BY <1>2, <1>3, <2>2
    <3>3. j - 1 = k - 1
      BY <3>1, <3>2 DEF AtMostOne
    <3> QED
      BY <2>b, <3>3
  <2>3. CASE j = 1
    <3>1. /\ i - 1 \in DOMAIN p.fns /\ q.fns[i] = p.fns[i - 1]
          /\ k - 1 \in DOMAIN p.fns /\ q.fns[k] = p.fns[k - 1]
      BY <2>1, <2>3
    <3>2. q.fns[j].self = s
      BY <1>2, <1>3, <2>3
    <3>3. i - 1 = k - 1
      BY <3>1, <3>2 DEF AtMostOne
    <3> QED
      BY <2>b, <3>3
  <2>4. CASE k = 1
    <3>1. /\ i - 1 \in DOMAIN p.fns /\ q.fns[i] = p.fns[i - 1]
          /\ j - 1 \in DOMAIN p.fns /\ q.fns[j] = p.fns[j - 1]
      BY <2>1, <2>4
    <3>2. q.fns[k].self = s
      BY <1>2, <1>3, <2>4
    <3>3. i - 1 = j - 1
      BY <3>1, <3>2 DEF AtMostOne
    <3> QED
      BY <2>b, <3>3
  <2>5. CASE i # 1 /\ j # 1 /\ k # 1
    <3>1. i - 1 # j - 1 /\ j - 1 # k - 1 /\ i - 1 # k - 1
      BY <2>b
    <3>2. p.fns[i - 1].self = p.fns[j - 1].self /\ p.fns[j - 1].self = p.fns[k - 1].self
      BY <2>1, <2>5
    <3> QED
      BY <2>1, <2>5, <3>1, <3>2 DEF Graph, AtMostTwo
  <2> QED
    BY <2>2, <2>3, <2>4, <2>5
<1>12. Graph(q)
  <2>1. \A i \in DOMAIN q.arcs : \E g \in DOMAIN q.fns : q.fns[g].block = q.arcs[i].fn
    BY <1>6 DEF Graph
  <2> QED
    BY <1>9, <1>10, <1>11, <2>1 DEF Graph
<1>13. ASSUME NotListed(p, s) PROVE \A f : FrameSound(p, f) => FrameSound(q, f)
  <2>1. ASSUME NEW r, AtMostOne(p, r) PROVE AtMostOne(q, r)
    <3> SUFFICES ASSUME NEW i \in DOMAIN q.fns, NEW j \in DOMAIN q.fns,
                        q.fns[i].self = r, q.fns[j].self = r
                 PROVE  i = j
      BY DEF AtMostOne
    <3>1. /\ i \in Nat /\ j \in Nat
          /\ i = 1 \/ (i - 1 \in DOMAIN p.fns /\ q.fns[i] = p.fns[i - 1])
          /\ j = 1 \/ (j - 1 \in DOMAIN p.fns /\ q.fns[j] = p.fns[j - 1])
      BY <1>3
    <3>2. CASE i = 1 \/ j = 1
      <4>1. r = s
        BY <1>2, <1>3, <3>2
      <4>2. \A k \in DOMAIN p.fns : p.fns[k].self # r
        BY <1>13, <4>1 DEF NotListed
      <4> QED
        BY <3>1, <4>2
    <3>3. CASE i # 1 /\ j # 1
      <4>1. i - 1 = j - 1
        BY <2>1, <3>1, <3>3 DEF AtMostOne
      <4> QED
        BY <3>1, <4>1
    <3> QED
      BY <3>2, <3>3
  <2> QED
    BY <1>7, <2>1, Zenon DEF FrameSound
<1>14. \A f, n : Counted(p, f, n) => Counted(q, f, n)
  BY <1>10, Zenon DEF Counted
<1> QED
  BY <1>4, <1>5, <1>12, <1>13, <1>14

LEMMA RecordedNat ==
  ASSUME NEW p \in Profiles, Graph(p), NEW c \in ProfCalls
  PROVE  Recorded(p, c) \in Nat
BY FS_CardinalityType DEF Graph, Recorded

\* A new entry of the second list, for a call that is counted with it.
NewArc(p, q, b, fn, c) ==
  q.arcs = <<[block |-> b, fn |-> fn, from |-> c[2], count |-> 1]>> \o p.arcs

LEMMA AddsArc ==
  ASSUME NEW p \in Profiles, NEW q \in Profiles, Placed(ProfBlocks(p), p), Graph(p),
         NEW b \in Nat, \A e \in ProfBlocks(p) : e[4] > 0 => e[3] # b,
         NEW c \in ProfCalls, NEW fn \in Nat, Listed(p, fn, c[1]),
         NewArc(p, q, b, fn, c), q.fns = p.fns, q.histograms = p.histograms, q.starts = p.starts,
         q.made = [p.made EXCEPT ![c] = @ + 1]
  PROVE  /\ ProfBlocks(q) = ProfBlocks(p) \cup {<<"arc", Len(p.arcs), b, ENTRY>>}
         /\ Graph(q)
         /\ \A f : FrameSound(p, f) => FrameSound(q, f)
         /\ \A f \in McountFrame, n \in Nat :
              FrameSound(p, f) /\ Counted(p, f, n) => Counted(q, f, n)
<1> DEFINE a == [block |-> b, fn |-> fn, from |-> c[2], count |-> 1]
<1>1. a \in ArcEntry /\ p.arcs \in Seq(ArcEntry) /\ q.arcs = <<a>> \o p.arcs
  <2>1. c[2] \in Froms
    BY DEF Froms
  <2> QED
    BY <2>1, ProfileTypes DEF ArcEntry, NewArc
<1>2. a.block = b /\ a.fn = fn /\ a.from = c[2] /\ a.count = 1
  OBVIOUS
<1> HIDE DEF a
<1>3. /\ Len(q.arcs) = Len(p.arcs) + 1 /\ q.arcs[1] = a /\ Len(p.arcs) \in Nat
      /\ DOMAIN q.arcs = 1 .. Len(p.arcs) + 1 /\ DOMAIN p.arcs = 1 .. Len(p.arcs)
      /\ \A i \in 1 .. Len(p.arcs) : i + 1 \in DOMAIN q.arcs /\ q.arcs[i + 1] = p.arcs[i]
      /\ \A i \in DOMAIN q.arcs : i = 1 \/ (i - 1 \in DOMAIN p.arcs /\ q.arcs[i] = p.arcs[i - 1])
  BY <1>1, Prepend, LenProperties
<1>4. ProfBlocks(q) = ProfBlocks(p) \cup {<<"arc", Len(p.arcs), b, ENTRY>>}
  <2> DEFINE F(i) == <<"arc", Len(p.arcs) - i, p.arcs[i].block, ENTRY>>
             G(i) == <<"arc", Len(q.arcs) - i, q.arcs[i].block, ENTRY>>
  <2>1. G(1) = <<"arc", Len(p.arcs), b, ENTRY>>
    BY <1>2, <1>3
  <2>2. ASSUME NEW i \in DOMAIN p.arcs PROVE i + 1 \in DOMAIN q.arcs /\ G(i + 1) = F(i)
    <3>1. i \in Nat /\ Len(q.arcs) - (i + 1) = Len(p.arcs) - i
      BY <1>3, SMTT(30)
    <3> QED
      BY <1>3, <3>1
  <2>3. ASSUME NEW i \in DOMAIN q.arcs
        PROVE  i = 1 \/ (i - 1 \in DOMAIN p.arcs /\ G(i) = F(i - 1))
    <3>1. i \in Nat /\ Len(q.arcs) - i = Len(p.arcs) - (i - 1)
      BY <1>3
    <3> QED
      BY <1>3, <3>1
  <2> HIDE DEF F, G
  <2>4. 1 \in DOMAIN q.arcs
    BY <1>3
  <2>5. {G(i) : i \in DOMAIN q.arcs} = {F(i) : i \in DOMAIN p.arcs} \cup {G(1)}
    <3>1. ASSUME NEW x \in {G(i) : i \in DOMAIN q.arcs}
          PROVE  x \in {F(i) : i \in DOMAIN p.arcs} \cup {G(1)}
      BY <2>3
    <3>2. ASSUME NEW x \in {F(i) : i \in DOMAIN p.arcs} \cup {G(1)}
          PROVE  x \in {G(i) : i \in DOMAIN q.arcs}
      BY <2>2, <2>4
    <3> QED
      BY <3>1, <3>2
  <2> DEFINE A == {<<"fn", Len(p.fns) - i, p.fns[i].block, ENTRY>> : i \in DOMAIN p.fns}
  <2>6. /\ ProfBlocks(p) = (A \cup {F(i) : i \in DOMAIN p.arcs}) \cup DataBlocks(p)
        /\ ProfBlocks(q) = (A \cup {G(i) : i \in DOMAIN q.arcs}) \cup DataBlocks(p)
    BY DEF ProfBlocks, EntryBlocks, DataBlocks, F, G
  <2> HIDE DEF A
  <2> QED
    BY <2>1, <2>5, <2>6
<1>5. /\ \A i \in DOMAIN p.arcs : \E j \in DOMAIN q.arcs : q.arcs[j] = p.arcs[i]
      /\ \A j \in DOMAIN q.arcs : j = 1 \/ \E i \in DOMAIN p.arcs : q.arcs[j] = p.arcs[i]
      /\ 1 \in DOMAIN q.arcs
  <2>1. ASSUME NEW i \in DOMAIN p.arcs PROVE \E j \in DOMAIN q.arcs : q.arcs[j] = p.arcs[i]
    <3>1. i + 1 \in DOMAIN q.arcs /\ q.arcs[i + 1] = p.arcs[i]
      BY <1>3
    <3> QED
      BY <3>1
  <2>2. ASSUME NEW j \in DOMAIN q.arcs, j # 1
        PROVE  \E i \in DOMAIN p.arcs : q.arcs[j] = p.arcs[i]
    <3>1. j - 1 \in DOMAIN p.arcs /\ q.arcs[j] = p.arcs[j - 1]
      BY <1>3, <2>2
    <3> QED
      BY <3>1
  <2>3. 1 \in DOMAIN q.arcs
    BY <1>3
  <2> QED
    BY <2>1, <2>2, <2>3
<1>6. \A i \in DOMAIN p.arcs : p.arcs[i].block # b
  BY FreshAddress
<1> DEFINE Of(u, arc, d) == arc.from = d[2] /\ Listed(u, arc.fn, d[1])
<1>7. \A u, d : Copies(u, d) = {i \in DOMAIN u.arcs : Of(u, u.arcs[i], d)}
  BY DEF Copies, Listed
<1>8. \A arc, d : Of(q, arc, d) <=> Of(p, arc, d)
  BY DEF Listed
<1>9. \A d \in ProfCalls : Of(p, a, d) <=> d = c
  <2>1. Of(p, a, c)
    BY <1>2
  <2>2. ASSUME NEW d \in ProfCalls, Of(p, a, d) PROVE d = c
    <3>1. PICK e \in DOMAIN p.fns : p.fns[e].block = fn /\ p.fns[e].self = c[1]
      BY DEF Listed
    <3>2. PICK g \in DOMAIN p.fns : p.fns[g].block = fn /\ p.fns[g].self = d[1]
      BY <1>2, <2>2 DEF Listed
    <3>3. p.fns[e].block = p.fns[g].block
      BY <3>1, <3>2
    <3>4. e = g
      BY <3>3, OneAddress
    <3> QED
      BY <1>2, <2>2, <3>1, <3>2, <3>4, Pairs
  <2> QED
    BY <2>1, <2>2
<1> HIDE DEF Of
<1>10. /\ \A d : \A i \in Copies(p, d) : \E j \in Copies(q, d) : q.arcs[j] = p.arcs[i]
       /\ \A d \in ProfCalls : \A j \in Copies(q, d) :
            (j = 1 /\ d = c) \/ \E i \in Copies(p, d) : q.arcs[j] = p.arcs[i]
       /\ 1 \in Copies(q, c)
  <2>1. ASSUME NEW d, NEW i \in Copies(p, d) PROVE \E j \in Copies(q, d) : q.arcs[j] = p.arcs[i]
    BY <1>5, <1>7, <1>8
  <2>2. ASSUME NEW d \in ProfCalls, NEW j \in Copies(q, d)
        PROVE  (j = 1 /\ d = c) \/ \E i \in Copies(p, d) : q.arcs[j] = p.arcs[i]
    <3>1. j \in DOMAIN q.arcs /\ Of(p, q.arcs[j], d)
      BY <1>7, <1>8
    <3>2. CASE j = 1
      BY <1>3, <1>9, <3>1, <3>2
    <3>3. CASE j # 1
      BY <1>5, <1>7, <3>1, <3>3
    <3> QED
      BY <3>2, <3>3
  <2>3. 1 \in Copies(q, c)
    BY <1>3, <1>5, <1>7, <1>8, <1>9
  <2> QED
    BY <2>1, <2>2, <2>3
<1>11. /\ \A d \in ProfCalls : d # c => Marks(q, d) = Marks(p, d)
       /\ Marks(q, c) = Marks(p, c) \cup {<<b, 1>>} /\ <<b, 1>> \notin Marks(p, c)
  <2>a. \A d : /\ \A x : x \in Marks(p, d) <=>
                       \E i \in Copies(p, d) : \E n \in 1 .. p.arcs[i].count : x = <<p.arcs[i].block, n>>
               /\ \A x : x \in Marks(q, d) <=>
                       \E i \in Copies(q, d) : \E n \in 1 .. q.arcs[i].count : x = <<q.arcs[i].block, n>>
    BY InMarks
  <2>1. ASSUME NEW d \in ProfCalls, NEW x, x \in Marks(p, d) PROVE x \in Marks(q, d)
    <3>1. PICK i \in Copies(p, d) : \E n \in 1 .. p.arcs[i].count : x = <<p.arcs[i].block, n>>
      BY <2>1, <2>a
    <3>2. PICK j \in Copies(q, d) : q.arcs[j] = p.arcs[i]
      BY <1>10
    <3>3. \E n \in 1 .. q.arcs[j].count : x = <<q.arcs[j].block, n>>
      BY <3>1, <3>2
    <3> QED
      BY <3>3, InMarks, Zenon
  <2>2. ASSUME NEW d \in ProfCalls, NEW x, x \in Marks(q, d)
        PROVE  x \in Marks(p, d) \/ (x = <<b, 1>> /\ d = c)
    <3>1. PICK j \in Copies(q, d) : \E n \in 1 .. q.arcs[j].count : x = <<q.arcs[j].block, n>>
      BY <2>2, <2>a
    <3>2. CASE j = 1 /\ d = c
      <4>1. q.arcs[j].count = 1 /\ q.arcs[j].block = b
        BY <1>2, <1>3, <3>2
      <4> QED
        BY <3>1, <3>2, <4>1
    <3>3. CASE \E i \in Copies(p, d) : q.arcs[j] = p.arcs[i]
      BY <3>1, <3>3, InMarks
    <3> QED
      BY <1>10, <3>2, <3>3
  <2>3. <<b, 1>> \in Marks(q, c)
    <3>1. q.arcs[1].count = 1 /\ q.arcs[1].block = b /\ 1 \in 1 .. 1
      BY <1>2, <1>3
    <3> QED
      BY <1>10, <3>1, InMarks
  <2>4. <<b, 1>> \notin Marks(p, c)
    <3>1. ASSUME <<b, 1>> \in Marks(p, c) PROVE FALSE
      <4>1. PICK i \in Copies(p, c) :
                \E n \in 1 .. p.arcs[i].count : <<b, 1>> = <<p.arcs[i].block, n>>
        BY <3>1, InMarks
      <4>2. i \in DOMAIN p.arcs
        BY <1>7
      <4> QED
        BY <1>6, <4>1, <4>2
    <3> QED
      BY <3>1
  <2> QED
    BY <2>1, <2>2, <2>3, <2>4
<1>12. /\ \A d \in ProfCalls : d # c => Recorded(q, d) = Recorded(p, d)
       /\ Recorded(q, c) = Recorded(p, c) + 1
       /\ \A d \in ProfCalls : IsFiniteSet(Marks(q, d))
  <2>1. IsFiniteSet(Marks(p, c))
    BY DEF Graph
  <2>2. /\ IsFiniteSet(Marks(p, c) \cup {<<b, 1>>})
        /\ Cardinality(Marks(p, c) \cup {<<b, 1>>}) = Cardinality(Marks(p, c)) + 1
    BY <1>11, <2>1, FS_AddElement
  <2>3. \A d \in ProfCalls : d # c => IsFiniteSet(Marks(q, d))
    BY <1>11 DEF Graph
  <2> QED
    BY <1>11, <2>2, <2>3 DEF Recorded
<1>13. Graph(q)
  <2>1. \A i \in DOMAIN q.arcs : \E e \in DOMAIN q.fns : q.fns[e].block = q.arcs[i].fn
    <3>1. \E e \in DOMAIN q.fns : q.fns[e].block = fn
      BY DEF Listed
    <3>2. q.arcs[1].fn = fn
      BY <1>2, <1>3
    <3>3. ASSUME NEW i \in DOMAIN q.arcs
          PROVE  \E e \in DOMAIN q.fns : q.fns[e].block = q.arcs[i].fn
      <4>1. CASE i = 1
        BY <3>1, <3>2, <4>1
      <4>2. CASE i # 1
        <5>1. PICK k \in DOMAIN p.arcs : q.arcs[i] = p.arcs[k]
          BY <1>5, <4>2
        <5>2. \E e \in DOMAIN p.fns : p.fns[e].block = p.arcs[k].fn
          BY DEF Graph
        <5> QED
          BY <5>1, <5>2
      <4> QED
        BY <4>1, <4>2
    <3> QED
      BY <3>3
  <2>2. AtMostTwo(q)
    BY DEF Graph, AtMostTwo
  <2>3. ASSUME NEW d \in ProfCalls, q.made[d] > 0 PROVE Copies(q, d) # {}
    <3>1. CASE d = c
      BY <1>10, <3>1
    <3>2. CASE d # c
      <4>1. q.made[d] = p.made[d]
        BY <3>2 DEF Profiles
      <4>2. Copies(p, d) # {}
        BY <2>3, <4>1 DEF Graph
      <4> QED
        BY <1>10, <4>2
    <3> QED
      BY <3>1, <3>2
  <2> QED
    BY <1>12, <2>1, <2>2, <2>3 DEF Graph
<1>14. \A f : FrameSound(p, f) => FrameSound(q, f)
  <2>1. \A x, y : Listed(p, x, y) => Listed(q, x, y)
    BY DEF Listed
  <2>2. \A y : AtMostOne(p, y) => AtMostOne(q, y)
    BY DEF AtMostOne
  <2>3. ASSUME NEW f, \E i \in DOMAIN p.arcs : /\ p.arcs[i].block = f.arc /\ p.arcs[i].fn = f.fn
                                               /\ p.arcs[i].from = f.call[2]
        PROVE  \E i \in DOMAIN q.arcs : /\ q.arcs[i].block = f.arc /\ q.arcs[i].fn = f.fn
                                        /\ q.arcs[i].from = f.call[2]
    <3>1. PICK k \in DOMAIN p.arcs : /\ p.arcs[k].block = f.arc /\ p.arcs[k].fn = f.fn
                                      /\ p.arcs[k].from = f.call[2]
      BY <2>3
    <3>2. PICK j \in DOMAIN q.arcs : q.arcs[j] = p.arcs[k]
      BY <1>5
    <3> QED
      BY <3>1, <3>2
  <2> QED
    BY <2>1, <2>2, <2>3, Zenon DEF FrameSound
<1>15. ASSUME NEW f \in McountFrame, NEW n \in Nat, FrameSound(p, f), Counted(p, f, n)
       PROVE  Counted(q, f, n)
  <2>1. /\ \A d \in ProfCalls : p.made[d] \in Nat /\ Recorded(p, d) \in Nat
        /\ \A d \in ProfCalls : d # c => q.made[d] = p.made[d]
        /\ q.made[c] = p.made[c] + 1
    BY RecordedNat DEF Profiles
  <2>2. \A d \in ProfCalls : Recorded(p, d) <= p.made[d] /\ p.made[d] <= Recorded(p, d) + n
    BY <1>15 DEF Counted
  <2>3. ASSUME NEW d \in ProfCalls
        PROVE  Recorded(q, d) <= q.made[d] /\ q.made[d] <= Recorded(q, d) + n
    <3>1. CASE d = c
      BY <1>12, <2>1, <2>2, <3>1
    <3>2. CASE d # c
      BY <1>12, <2>1, <2>2, <3>2
    <3> QED
      BY <3>1, <3>2
  <2>4. ASSUME f # Returned, f.at = "store", NEW j \in DOMAIN q.arcs, q.arcs[j].block = f.arc
        PROVE  /\ f.count <= q.arcs[j].count
               /\ q.made[f.call] + q.arcs[j].count - f.count <= Recorded(q, f.call) + n
    <3>1. PICK k \in DOMAIN p.arcs : p.arcs[k].block = f.arc
      BY <1>15, <2>4 DEF FrameSound
    <3>2. j # 1
      BY <1>2, <1>3, <1>6, <2>4, <3>1
    <3>3. PICK i \in DOMAIN p.arcs : q.arcs[j] = p.arcs[i]
      BY <1>5, <3>2
    <3>4. /\ f.count <= p.arcs[i].count
          /\ p.made[f.call] + p.arcs[i].count - f.count <= Recorded(p, f.call) + n
      BY <1>15, <2>4, <3>3 DEF Counted
    <3>5. f.count \in Nat /\ f.call \in ProfCalls
      BY <2>4 DEF McountFrame, Entries
    <3>6. p.arcs[i].count \in Nat
      BY ProfileTypes DEF ArcEntry
    <3>7. CASE f.call = c
      <4>1. Recorded(q, f.call) = Recorded(p, f.call) + 1 /\ q.made[f.call] = p.made[f.call] + 1
        BY <1>12, <2>1, <3>7
      <4>2. Recorded(p, f.call) \in Nat /\ p.made[f.call] \in Nat
        BY <2>1, <3>5
      <4>3. \A g, m, r, x, y \in Int :
              g <= m /\ x + m - g <= r + y => (x + 1) + m - g <= (r + 1) + y
        OBVIOUS
      <4>4. n \in Int
        OBVIOUS
      <4> QED
        BY <3>3, <3>4, <3>5, <3>6, <4>1, <4>2, <4>3, <4>4
    <3>8. CASE f.call # c
      BY <1>12, <2>1, <3>3, <3>4, <3>5, <3>6, <3>8
    <3> QED
      BY <3>7, <3>8
  <2> QED
    BY <2>3, <2>4 DEF Counted
<1> QED
  BY <1>4, <1>13, <1>14, <1>15

LEMMA MarksOfOne ==
  ASSUME NEW b, NEW m \in Nat
  PROVE  IsFiniteSet({b} \X (1 .. m)) /\ Cardinality({b} \X (1 .. m)) = m
<1>1. IsFiniteSet({b}) /\ Cardinality({b}) = 1
  BY FS_Singleton
<1>2. IsFiniteSet(1 .. m) /\ Cardinality(1 .. m) = m
  <2>1. IsFiniteSet(1 .. m) /\ Cardinality(1 .. m) = IF 1 > m THEN 0 ELSE m - 1 + 1
    BY FS_Interval
  <2> QED
    BY <2>1
<1>3. IsFiniteSet({b} \X (1 .. m)) /\ Cardinality({b} \X (1 .. m)) = Cardinality({b}) * Cardinality(1 .. m)
  BY <1>1, <1>2, FS_Product
<1>4. 1 * m = m
  OBVIOUS
<1> QED
  BY <1>1, <1>2, <1>3, <1>4

\* An entry is stored that was loaded when its count was m.
NewCount(p, q, k, m) == q.arcs = [p.arcs EXCEPT ![k].count = m + 1]

LEMMA Stores ==
  ASSUME NEW p \in Profiles, NEW q \in Profiles, Placed(ProfBlocks(p), p), Graph(p),
         NEW c \in ProfCalls, NEW k \in Copies(p, c), NEW m \in Nat, NewCount(p, q, k, m),
         q.fns = p.fns, q.histograms = p.histograms, q.starts = p.starts,
         q.made = [p.made EXCEPT ![c] = @ + 1]
  PROVE  /\ ProfBlocks(q) = ProfBlocks(p) /\ Graph(q)
         /\ \A f : FrameSound(p, f) => FrameSound(q, f)
         /\ \A d \in ProfCalls : d # c => Recorded(q, d) = Recorded(p, d)
         /\ Recorded(q, c) = Recorded(p, c) - p.arcs[k].count + m + 1
         /\ k \in DOMAIN p.arcs /\ DOMAIN q.arcs = DOMAIN p.arcs
         /\ \A i \in DOMAIN p.arcs :
              /\ q.arcs[i].block = p.arcs[i].block
              /\ q.arcs[i].count = IF i = k THEN m + 1 ELSE p.arcs[i].count
<1>1. k \in DOMAIN p.arcs
  BY DEF Copies
<1>2. /\ DOMAIN q.arcs = DOMAIN p.arcs /\ Len(q.arcs) = Len(p.arcs)
      /\ \A i \in DOMAIN p.arcs :
           /\ q.arcs[i].block = p.arcs[i].block /\ q.arcs[i].fn = p.arcs[i].fn
           /\ q.arcs[i].from = p.arcs[i].from
           /\ q.arcs[i].count = IF i = k THEN m + 1 ELSE p.arcs[i].count
  <2>1. p.arcs \in [1 .. Len(p.arcs) -> ArcEntry] /\ Len(p.arcs) \in Nat /\ q.arcs \in Seq(ArcEntry)
    <3>1. /\ p.arcs \in Seq(ArcEntry) /\ q.arcs \in Seq(ArcEntry)
          /\ DOMAIN p.arcs = 1 .. Len(p.arcs) /\ Len(p.arcs) \in Nat
          /\ \A i \in DOMAIN p.arcs : p.arcs[i] \in ArcEntry
      BY ProfileTypes
    <3>2. p.arcs \in [1 .. Len(p.arcs) -> ArcEntry]
      BY <3>1, LenProperties
    <3> QED
      BY <3>1, <3>2
  <2>2. k \in 1 .. Len(p.arcs)
    BY <1>1, <2>1
  <2>3. DOMAIN q.arcs = 1 .. Len(p.arcs)
    BY <2>1 DEF NewCount
  <2>4. Len(q.arcs) = Len(p.arcs)
    BY <2>1, <2>3, LenProperties
  <2>5. \A i \in 1 .. Len(p.arcs) : q.arcs[i] = IF i = k THEN [p.arcs[k] EXCEPT !.count = m + 1] ELSE p.arcs[i]
    BY <2>1, <2>2 DEF NewCount
  <2>6. p.arcs[k] \in ArcEntry
    BY <2>1, <2>2
  <2>7. [p.arcs[k] EXCEPT !.count = m + 1].count = m + 1
        /\ [p.arcs[k] EXCEPT !.count = m + 1].block = p.arcs[k].block
        /\ [p.arcs[k] EXCEPT !.count = m + 1].fn = p.arcs[k].fn
        /\ [p.arcs[k] EXCEPT !.count = m + 1].from = p.arcs[k].from
    BY <2>6 DEF ArcEntry
  <2> QED
    BY <2>1, <2>3, <2>4, <2>5, <2>7
<1>3. ProfBlocks(q) = ProfBlocks(p)
  <2>1. {<<"arc", Len(q.arcs) - i, q.arcs[i].block, ENTRY>> : i \in DOMAIN q.arcs} =
        {<<"arc", Len(p.arcs) - i, p.arcs[i].block, ENTRY>> : i \in DOMAIN p.arcs}
    BY <1>2
  <2> QED
    BY <2>1 DEF ProfBlocks, EntryBlocks, DataBlocks
<1>4. \A d : Copies(q, d) = Copies(p, d)
  BY <1>2 DEF Copies
<1> DEFINE b == p.arcs[k].block
           X == {b} \X (1 .. p.arcs[k].count)
           Y == {b} \X (1 .. m + 1)
<1>5. \A d \in ProfCalls : d # c => k \notin Copies(p, d)
  BY Owner
<1>6. \A d : /\ \A x : x \in Marks(p, d) <=>
                   \E i \in Copies(p, d) : \E n \in 1 .. p.arcs[i].count : x = <<p.arcs[i].block, n>>
             /\ \A x : x \in Marks(q, d) <=>
                   \E i \in Copies(p, d) : \E n \in 1 .. q.arcs[i].count : x = <<q.arcs[i].block, n>>
  <2>1. \A d : /\ \A x : x \in Marks(p, d) <=>
                   \E i \in Copies(p, d) : \E n \in 1 .. p.arcs[i].count : x = <<p.arcs[i].block, n>>
               /\ \A x : x \in Marks(q, d) <=>
                   \E i \in Copies(q, d) : \E n \in 1 .. q.arcs[i].count : x = <<q.arcs[i].block, n>>
    BY InMarks
  <2> QED
    BY <1>4, <2>1
<1>7. \A d : \A i \in Copies(p, d) : i \in DOMAIN p.arcs
  BY DEF Copies
<1>8. \A d \in ProfCalls : d # c => Marks(q, d) = Marks(p, d)
  <2> SUFFICES ASSUME NEW d \in ProfCalls, d # c PROVE Marks(q, d) = Marks(p, d)
    OBVIOUS
  <2>1. \A i \in Copies(p, d) : q.arcs[i].count = p.arcs[i].count /\ q.arcs[i].block = p.arcs[i].block
    BY <1>2, <1>5, <1>7
  <2>2. ASSUME NEW x PROVE x \in Marks(q, d) <=> x \in Marks(p, d)
    BY <1>6, <2>1
  <2> QED
    BY <2>2
<1>9. \A i \in DOMAIN p.arcs : i # k => p.arcs[i].block # b
  BY <1>1, OneAddress
<1>10. /\ X \subseteq Marks(p, c)
       /\ (Marks(p, c) \ X) \cap Y = {}
       /\ Marks(q, c) = (Marks(p, c) \ X) \cup Y
  <2>1. ASSUME NEW x, x \in X PROVE x \in Marks(p, c)
    <3>1. \E n \in 1 .. p.arcs[k].count : x = <<b, n>>
      BY <2>1
    <3> QED
      BY <1>6, <3>1
  <2>2. ASSUME NEW x, x \in Marks(p, c), x \notin X
        PROVE  x \notin Y /\ x \in Marks(q, c)
    <3>1. PICK i \in Copies(p, c) : \E n \in 1 .. p.arcs[i].count : x = <<p.arcs[i].block, n>>
      BY <1>6, <2>2
    <3>2. i # k
      BY <2>2, <3>1
    <3>3. p.arcs[i].block # b /\ i \in DOMAIN p.arcs
      BY <1>7, <1>9, <3>2
    <3>4. x \notin Y
      BY <3>1, <3>3
    <3>5. \E n \in 1 .. q.arcs[i].count : x = <<q.arcs[i].block, n>>
      BY <1>2, <3>1, <3>2, <3>3
    <3> QED
      BY <1>6, <3>4, <3>5
  <2>3. ASSUME NEW x, x \in Y PROVE x \in Marks(q, c)
    <3>1. q.arcs[k].count = m + 1 /\ q.arcs[k].block = b
      BY <1>1, <1>2
    <3>2. \E n \in 1 .. m + 1 : x = <<b, n>>
      BY <2>3
    <3>3. \E n \in 1 .. q.arcs[k].count : x = <<q.arcs[k].block, n>>
      BY <3>1, <3>2
    <3> QED
      BY <1>6, <3>3
  <2>4. ASSUME NEW x, x \in Marks(q, c) PROVE x \in Y \/ (x \in Marks(p, c) /\ x \notin X)
    <3>1. PICK i \in Copies(p, c) : \E n \in 1 .. q.arcs[i].count : x = <<q.arcs[i].block, n>>
      BY <1>6, <2>4
    <3>2. CASE i = k
      <4>1. q.arcs[k].count = m + 1 /\ q.arcs[k].block = b
        BY <1>1, <1>2
      <4>2. \E n \in 1 .. m + 1 : x = <<b, n>>
        BY <3>1, <3>2, <4>1
      <4> QED
        BY <4>2
    <3>3. CASE i # k
      <4>1. q.arcs[i].count = p.arcs[i].count /\ q.arcs[i].block = p.arcs[i].block
            /\ p.arcs[i].block # b
        BY <1>2, <1>7, <1>9, <3>3
      <4>2. \E n \in 1 .. p.arcs[i].count : x = <<p.arcs[i].block, n>>
        BY <3>1, <4>1
      <4>3. x \in Marks(p, c)
        BY <1>6, <4>2
      <4>4. x \notin X
        BY <4>1, <4>2
      <4> QED
        BY <4>3, <4>4
    <3> QED
      BY <3>2, <3>3
  <2> QED
    BY <2>1, <2>2, <2>3, <2>4
<1>11. p.arcs[k].count \in Nat
  BY <1>1, ProfileTypes DEF ArcEntry
<1>12. /\ IsFiniteSet(X) /\ Cardinality(X) = p.arcs[k].count
       /\ IsFiniteSet(Y) /\ Cardinality(Y) = m + 1
  <2>1. m + 1 \in Nat
    OBVIOUS
  <2> QED
    BY <1>11, <2>1, MarksOfOne
<1> HIDE DEF X, Y
<1>13. /\ IsFiniteSet(Marks(q, c))
       /\ Recorded(q, c) = Recorded(p, c) - p.arcs[k].count + m + 1
  <2>1. IsFiniteSet(Marks(p, c))
    BY DEF Graph
  <2>2. /\ IsFiniteSet(Marks(p, c) \ X)
        /\ Cardinality(Marks(p, c) \ X) = Cardinality(Marks(p, c)) - Cardinality(Marks(p, c) \cap X)
    BY <2>1, FS_Difference
  <2>3. Marks(p, c) \cap X = X
    BY <1>10
  <2>4. /\ IsFiniteSet((Marks(p, c) \ X) \cup Y)
        /\ Cardinality((Marks(p, c) \ X) \cup Y) =
             Cardinality(Marks(p, c) \ X) + Cardinality(Y) - Cardinality((Marks(p, c) \ X) \cap Y)
    BY <1>12, <2>2, FS_Union
  <2>5. Cardinality((Marks(p, c) \ X) \cap Y) = 0
    BY <1>10, FS_EmptySet
  <2>6. Cardinality(Marks(p, c)) \in Nat
    BY <2>1, FS_CardinalityType
  <2>7. \A x, y, z \in Int : (x - y) + (z + 1) - 0 = x - y + z + 1
    OBVIOUS
  <2> QED
    <3>1. Cardinality(Marks(q, c)) = (Cardinality(Marks(p, c)) - p.arcs[k].count) + (m + 1) - 0
      BY <1>10, <1>12, <2>2, <2>3, <2>4, <2>5
    <3>2. IsFiniteSet(Marks(q, c))
      BY <1>10, <2>4
    <3> QED
      BY <1>11, <2>6, <2>7, <3>1, <3>2 DEF Recorded
<1>14. \A d \in ProfCalls : d # c => Recorded(q, d) = Recorded(p, d)
  BY <1>8 DEF Recorded
<1>15. Graph(q)
  <2>1. \A i \in DOMAIN q.arcs : \E e \in DOMAIN q.fns : q.fns[e].block = q.arcs[i].fn
    BY <1>2 DEF Graph
  <2>2. AtMostTwo(q)
    BY DEF Graph, AtMostTwo
  <2>3. \A d \in ProfCalls : IsFiniteSet(Marks(q, d))
    BY <1>8, <1>13 DEF Graph
  <2>4. \A d \in ProfCalls : q.made[d] > 0 => Copies(q, d) # {}
    <3> SUFFICES ASSUME NEW d \in ProfCalls, q.made[d] > 0 PROVE Copies(p, d) # {}
      BY <1>4
    <3>1. CASE d = c
      BY <3>1
    <3>2. CASE d # c
      <4>1. q.made[d] = p.made[d]
        BY <3>2 DEF Profiles
      <4> QED
        BY <4>1 DEF Graph
    <3> QED
      BY <3>1, <3>2
  <2> QED
    BY <2>1, <2>2, <2>3, <2>4 DEF Graph
<1>16. \A f : FrameSound(p, f) => FrameSound(q, f)
  <2>1. \A x, y : Listed(p, x, y) => Listed(q, x, y)
    BY DEF Listed
  <2>2. \A y : AtMostOne(p, y) => AtMostOne(q, y)
    BY DEF AtMostOne
  <2>3. ASSUME NEW f, \E i \in DOMAIN p.arcs : /\ p.arcs[i].block = f.arc /\ p.arcs[i].fn = f.fn
                                               /\ p.arcs[i].from = f.call[2]
        PROVE  \E i \in DOMAIN q.arcs : /\ q.arcs[i].block = f.arc /\ q.arcs[i].fn = f.fn
                                        /\ q.arcs[i].from = f.call[2]
    BY <1>2, <2>3
  <2> QED
    BY <2>1, <2>2, <2>3, Zenon DEF FrameSound
<1> QED
  BY <1>1, <1>2, <1>3, <1>13, <1>14, <1>15, <1>16

\* Where SelectInSeq finds an entry.
FirstOf(I) == IF I # {} THEN Min(I) ELSE 0

LEMMA FirstIsOne ==
  ASSUME NEW I \in SUBSET Nat
  PROVE  (I = {} => FirstOf(I) = 0) /\ (I # {} => FirstOf(I) \in I)
<1>1. I # {} => \E n \in I : \A m \in I : n <= m
  BY LeastNatural
<1>2. I # {} => Min(I) \in I
  BY <1>1 DEF Min
<1> QED
  BY <1>2 DEF FirstOf

LEMMA FindsFn ==
  ASSUME NEW p \in Profiles, Placed(ProfBlocks(p), p), NEW f
  PROVE  /\ FnOf(p, f) \in Nat
         /\ FnOf(p, f) = 0 => NotListed(p, f.call[1])
         /\ FnOf(p, f) # 0 => Listed(p, FnOf(p, f), f.call[1])
<1> DEFINE I == {i \in 1 .. Len(p.fns) : p.fns[i].self = f.call[1]}
<1>1. FnOf(p, f) = AddressAt(p.fns, FirstOf(I))
  BY DEF FnOf, SelectInSeq, FirstOf
<1>2. /\ I \in SUBSET Nat /\ I \subseteq DOMAIN p.fns
      /\ \A i \in DOMAIN p.fns : p.fns[i].self = f.call[1] => i \in I
  <2>1. DOMAIN p.fns = 1 .. Len(p.fns)
    BY ProfileTypes
  <2> QED
    BY <2>1
<1>3. \A i \in I : p.fns[i].self = f.call[1]
  OBVIOUS
<1> HIDE DEF I
<1>4. CASE I = {}
  BY <1>1, <1>2, <1>4, FirstIsOne DEF AddressAt, NotListed
<1>5. CASE I # {}
  <2>1. FirstOf(I) \in I
    BY <1>2, <1>5, FirstIsOne
  <2>a. \A i \in DOMAIN p.fns : i # 0
    BY ProfileTypes
  <2>2. FirstOf(I) \in DOMAIN p.fns /\ FirstOf(I) # 0
    BY <1>2, <2>1, <2>a
  <2>3. FnOf(p, f) = p.fns[FirstOf(I)].block
    BY <1>1, <2>2 DEF AddressAt
  <2>4. p.fns[FirstOf(I)].block # 0 /\ p.fns[FirstOf(I)].block \in Nat
    BY <2>2, OneAddress, ProfileTypes DEF FnEntry
  <2>5. Listed(p, FnOf(p, f), f.call[1])
    BY <1>3, <2>1, <2>2, <2>3 DEF Listed
  <2> QED
    BY <2>3, <2>4, <2>5
<1> QED
  BY <1>4, <1>5

LEMMA FindsArc ==
  ASSUME NEW p \in Profiles, Placed(ProfBlocks(p), p), NEW f
  PROVE  /\ ArcOf(p, f) \in Nat
         /\ ArcOf(p, f) # 0 =>
              \E i \in DOMAIN p.arcs : /\ p.arcs[i].block = ArcOf(p, f) /\ p.arcs[i].fn = f.fn
                                       /\ p.arcs[i].from = f.call[2]
<1> DEFINE I == {i \in 1 .. Len(p.arcs) : p.arcs[i].fn = f.fn /\ p.arcs[i].from = f.call[2]}
<1>1. ArcOf(p, f) = AddressAt(p.arcs, FirstOf(I))
  BY DEF ArcOf, SelectInSeq, FirstOf
<1>2. I \in SUBSET Nat /\ I \subseteq DOMAIN p.arcs
  <2>1. DOMAIN p.arcs = 1 .. Len(p.arcs)
    BY ProfileTypes
  <2> QED
    BY <2>1
<1>3. \A i \in I : p.arcs[i].fn = f.fn /\ p.arcs[i].from = f.call[2]
  OBVIOUS
<1> HIDE DEF I
<1>4. CASE I = {}
  BY <1>1, <1>2, <1>4, FirstIsOne DEF AddressAt
<1>5. CASE I # {}
  <2>1. FirstOf(I) \in I
    BY <1>2, <1>5, FirstIsOne
  <2>a. \A i \in DOMAIN p.arcs : i # 0
    BY ProfileTypes
  <2>2. FirstOf(I) \in DOMAIN p.arcs /\ FirstOf(I) # 0
    BY <1>2, <2>1, <2>a
  <2>3. ArcOf(p, f) = p.arcs[FirstOf(I)].block
    BY <1>1, <2>2 DEF AddressAt
  <2>4. p.arcs[FirstOf(I)].block \in Nat
    BY <2>2, ProfileTypes DEF ArcEntry
  <2> QED
    BY <1>3, <2>1, <2>2, <2>3, <2>4
<1> QED
  BY <1>4, <1>5

ArcAt(p, b) == SelectInSeq(p.arcs, LAMBDA a : a.block = b)

LEMMA FindsEntry ==
  ASSUME NEW p \in Profiles, NEW b, \E i \in DOMAIN p.arcs : p.arcs[i].block = b
  PROVE  ArcAt(p, b) \in DOMAIN p.arcs /\ p.arcs[ArcAt(p, b)].block = b
<1> DEFINE I == {i \in 1 .. Len(p.arcs) : p.arcs[i].block = b}
<1>1. ArcAt(p, b) = FirstOf(I)
  BY DEF ArcAt, SelectInSeq, FirstOf
<1>2. I \in SUBSET Nat /\ I \subseteq DOMAIN p.arcs /\ I # {}
  <2>1. DOMAIN p.arcs = 1 .. Len(p.arcs)
    BY ProfileTypes
  <2>2. I \subseteq DOMAIN p.arcs /\ I # {}
    BY <2>1
  <2> QED
    BY <2>1, <2>2
<1>3. \A i \in I : p.arcs[i].block = b
  OBVIOUS
<1> HIDE DEF I
<1> QED
  BY <1>1, <1>2, <1>3, FirstIsOne

\* The heap and the lists stay.
Quiet(p, q) ==
  /\ SameEntries(p, q) /\ q.histograms = p.histograms
  /\ q.heap_end = p.heap_end /\ q.stack_limit = p.stack_limit /\ q.slab = p.slab /\ q.fate = p.fate

LEMMA StaysQuiet ==
  ASSUME NEW p, NEW q, Quiet(p, q), ProfSound(p)
  PROVE  ProfSound(q)
<1>1. /\ SameEntries(p, q) /\ q.histograms = p.histograms
      /\ q.heap_end = p.heap_end /\ q.stack_limit = p.stack_limit /\ q.slab = p.slab /\ q.fate = p.fate
  BY DEF Quiet
<1>2. ProfBlocks(q) = ProfBlocks(p)
  BY <1>1, SameGraph DEF ProfBlocks, DataBlocks
<1>3. Placed(ProfBlocks(q), q)
  BY <1>1, <1>2, Zenon DEF ProfSound, Placed
<1>4. LimitFollows(q)
  BY <1>1, Zenon DEF ProfSound, LimitFollows
<1> QED
  BY <1>1, <1>3, <1>4, SameGraph DEF ProfSound

LEMMA BucketsNat ==
  ASSUME text_size \in Texts
  PROVE  Buckets \in Nat
BY ProfConstants DEF Buckets

\* nios2_pcsample_init(): a histogram above everything.
LEMMA Histograms ==
  ASSUME NEW p \in Profiles, p.fate = "runs", ProfSound(p), text_size \in Texts
  PROVE  LET q == nios2_pcsample_init(p)
         IN  /\ q \in Profiles /\ SameEntries(p, q)
             /\ \A i \in DOMAIN p.histograms :
                  i \in DOMAIN q.histograms /\ q.histograms[i] = p.histograms[i]
             /\ q.fate # "wild" => ProfSound(q)
             /\ q.fate = "runs" => q.histograms # << >>
<1> DEFINE h == ALT_SBRK(p, Buckets)
           w == Wild(h.p, h.block)
           q == nios2_pcsample_init(p)
<1>1. q = IF w.fate = "runs" THEN [w EXCEPT !.histograms = Append(@, h.block)] ELSE w
  BY DEF nios2_pcsample_init
<1> HIDE DEF h, q
<1>2. /\ h.p \in Profiles /\ SameLists(p, h.p) /\ h.p.slab = p.slab
      /\ p.heap_end <= h.p.heap_end
      /\ h.block # NoMemory =>
           h.block \in Nat /\ p.heap_end <= h.block /\ h.block + Buckets <= h.p.heap_end
      /\ h.p.fate \in {p.fate, "overflow reported"}
      /\ LimitFollows(h.p)
  <2>1. LimitFollows(p) /\ (WholeWords => Buckets % 2 = 0)
    BY DEF ProfSound, WholeWords
  <2> QED
    BY <2>1, BucketsNat, Sbrk DEF h
<1>3. CASE h.block = NoMemory
  <2>1. w = [h.p EXCEPT !.fate = "wild"] /\ h.p \in Profiles /\ SameLists(p, h.p)
    BY <1>2, <1>3 DEF Wild
  <2> HIDE DEF w
  <2>2. w \in Profiles /\ w.fate = "wild" /\ SameLists(p, w)
    BY <2>1 DEF Profiles, SameLists
  <2>3. q = w
    BY <1>1, <2>2
  <2> QED
    BY <2>2, <2>3 DEF q, SameLists, SameEntries
<1>4. CASE h.block # NoMemory
  <2>1. w = h.p /\ h.p \in Profiles /\ SameLists(p, h.p) /\ h.block \in Nat
    BY <1>2, <1>4 DEF Wild
  <2> HIDE DEF w
  <2>2. SameEntries(p, w) /\ w.histograms = p.histograms
    BY <2>1 DEF SameLists, SameEntries
  <2>3. ProfBlocks(w) = ProfBlocks(p)
    BY <2>2, SameGraph DEF ProfBlocks, DataBlocks
  <2>4. Placed(ProfBlocks(p), w)
    BY <1>2, <2>1, HeapGrows DEF ProfSound
  <2>5. Graph(w) /\ LimitFollows(w)
    BY <1>2, <2>1, <2>2, SameGraph DEF ProfSound
  <2>6. CASE w.fate # "runs"
    <3>1. q = w
      BY <1>1, <2>6
    <3>2. ProfSound(q)
      BY <2>3, <2>4, <2>5, <3>1 DEF ProfSound
    <3> QED
      BY <2>1, <2>2, <2>6, <3>1, <3>2 DEF q
  <2>7. CASE w.fate = "runs"
    <3>1. q = [w EXCEPT !.histograms = Append(@, h.block)]
      BY <1>1, <2>7
    <3>2. w.histograms \in Seq(Nat)
      BY <2>1 DEF Profiles
    <3>3. /\ Append(w.histograms, h.block) \in Seq(Nat) /\ Append(w.histograms, h.block) # << >>
          /\ Len(w.histograms) \in Nat
          /\ Len(Append(w.histograms, h.block)) = Len(w.histograms) + 1
          /\ \A i \in 1 .. Len(w.histograms) : Append(w.histograms, h.block)[i] = w.histograms[i]
          /\ Append(w.histograms, h.block)[Len(w.histograms) + 1] = h.block
      <4>1. h.block \in Nat /\ Len(w.histograms) \in Nat
        BY <2>1, <3>2, LenProperties
      <4> QED
        BY <3>2, <4>1, AppendProperties
    <3> DEFINE a == Append(w.histograms, h.block)
    <3>4. q = [w EXCEPT !.histograms = a]
      BY <3>1
    <3> HIDE DEF a
    <3>5. a \in Seq(Nat) /\ a # << >>
      BY <3>3 DEF a
    <3>6. /\ q \in Profiles /\ q.histograms = a /\ q.fns = w.fns /\ q.arcs = w.arcs /\ q.made = w.made
          /\ q.starts = w.starts /\ q.fate = "runs" /\ q.slab = w.slab
          /\ q.heap_end = w.heap_end /\ q.stack_limit = w.stack_limit
      BY <2>1, <2>7, <3>4, <3>5 DEF Profiles
    <3>7. /\ DOMAIN w.histograms = 1 .. Len(w.histograms)
          /\ DOMAIN a = 1 .. Len(w.histograms) + 1
      BY <3>2, <3>3, LenProperties DEF a
    <3>8. \A i \in DOMAIN w.histograms : i \in DOMAIN a /\ a[i] = w.histograms[i]
      BY <3>3, <3>7 DEF a
    <3>9. SameEntries(p, q) /\ SameEntries(w, q)
      BY <2>2, <3>5, <3>6 DEF SameEntries
    <3> DEFINE t == <<"histogram", Len(w.histograms) + 1, h.block, Buckets>>
    <3>10. ProfBlocks(q) = ProfBlocks(p) \cup {t}
      <4>1. {<<"histogram", i, q.histograms[i], Buckets>> : i \in DOMAIN q.histograms} =
            {<<"histogram", i, w.histograms[i], Buckets>> : i \in DOMAIN w.histograms} \cup {t}
        <5> DEFINE F(i) == <<"histogram", i, w.histograms[i], Buckets>>
                   G(i) == <<"histogram", i, a[i], Buckets>>
        <5>1. \A i \in DOMAIN a : i \in DOMAIN w.histograms \/ i = Len(w.histograms) + 1
          BY <3>3, <3>7
        <5>2. G(Len(w.histograms) + 1) = t /\ Len(w.histograms) + 1 \in DOMAIN a
          BY <3>3, <3>7 DEF a
        <5>3. \A i \in DOMAIN w.histograms : i \in DOMAIN a /\ G(i) = F(i)
          BY <3>8
        <5> HIDE DEF F, G, t
        <5>4. {G(i) : i \in DOMAIN a} = {F(i) : i \in DOMAIN w.histograms} \cup {t}
          BY <5>1, <5>2, <5>3
        <5> QED
          BY <3>6, <5>4 DEF F, G
      <4>2. EntryBlocks(q) = EntryBlocks(w)
        BY <3>9, SameGraph
      <4> HIDE DEF t
      <4>3. ProfBlocks(q) = ProfBlocks(w) \cup {t}
        BY <4>1, <4>2 DEF ProfBlocks, DataBlocks
      <4> QED
        BY <2>3, <4>3
    <3>11. t \in AnyBlock /\ t[3] = h.block /\ t[4] = Buckets
      BY <2>1, <3>3, BucketsNat DEF AnyBlock
    <3> HIDE DEF t
    <3>12. Placed(ProfBlocks(p) \cup {t}, q)
      <4>1. p.heap_end <= t[3] /\ t[3] + t[4] <= q.heap_end /\ q.slab = p.slab
        BY <1>2, <1>4, <2>1, <3>6, <3>11
      <4> QED
        BY <3>6, <3>11, <4>1, HeapAdds DEF ProfSound
    <3>13. Graph(q)
      BY <2>5, <3>9, SameGraph
    <3>14. LimitFollows(q)
      BY <2>5, <2>7, <3>6 DEF LimitFollows
    <3>15. ProfSound(q)
      BY <3>10, <3>12, <3>13, <3>14 DEF ProfSound
    <3> QED
      BY <2>2, <3>5, <3>6, <3>8, <3>9, <3>15 DEF q
  <2> QED
    BY <2>6, <2>7
<1> QED
  BY <1>3, <1>4

LEMMA FnLinks ==
  ASSUME NEW p \in Profiles, p.fate = "runs", ProfSound(p),
         NEW f, f.call \in ProfCalls, AtMostOne(p, f.call[1])
  PROVE  LET e == AddFn(p, f)
         IN  /\ e.p \in Profiles /\ e.p.histograms = p.histograms
             /\ e.p.fate # "wild" => ProfSound(e.p) /\ \A s, n : Counted(p, s, n) => Counted(e.p, s, n)
             /\ e.p.fate # "wild" /\ NotListed(p, f.call[1]) =>
                  \A s : FrameSound(p, s) => FrameSound(e.p, s)
             /\ e.p.fate = "runs" => e.block \in Nat /\ Listed(e.p, e.block, f.call[1])
<1> DEFINE m == mcount_allocate(p, ENTRY)
           e == AddFn(p, f)
           x == [block |-> m.block, self |-> f.call[1]]
<1>1. /\ Got(m) => /\ e.p = [m.p EXCEPT !.fns = <<x>> \o @]
                   /\ e.block = m.block
      /\ ~ Got(m) => e = m
  BY DEF AddFn
<1> HIDE DEF m, e, x
<1>2. /\ m.p \in Profiles /\ SameLists(p, m.p)
      /\ m.p.fate \in {"runs", "wild", "overflow reported"}
      /\ m.p.fate # "wild" =>
           /\ LimitFollows(m.p) /\ m.block \in Nat /\ m.block # 0 /\ Placed(ProfBlocks(p), m.p)
           /\ \A b \in ProfBlocks(p) : b[4] > 0 => b[3] # m.block
           /\ \A t \in AnyBlock : t[3] = m.block /\ t[4] = ENTRY => Placed(ProfBlocks(p) \cup {t}, m.p)
  BY Allocates DEF m, ProfSound
<1>3. SameEntries(p, m.p) /\ m.p.histograms = p.histograms /\ ProfBlocks(m.p) = ProfBlocks(p)
  <2>1. SameEntries(p, m.p) /\ m.p.histograms = p.histograms
    BY <1>2 DEF SameLists, SameEntries
  <2> QED
    BY <2>1, SameGraph DEF ProfBlocks, DataBlocks
<1>4. CASE ~ Got(m)
  <2>1. e.p = m.p /\ m.p.fate # "runs"
    BY <1>1, <1>4 DEF Got
  <2>2. m.p.fate # "wild" => ProfSound(m.p)
    BY <1>2, <1>3, SameGraph DEF ProfSound
  <2>3. /\ \A s, n : Counted(p, s, n) => Counted(m.p, s, n)
        /\ \A s : FrameSound(p, s) => FrameSound(m.p, s)
    BY <1>3, SameGraph
  <2> QED
    BY <1>2, <1>3, <2>1, <2>2, <2>3 DEF e
<1>5. CASE Got(m)
  <2>1. m.p.fate = "runs" /\ e.p = [m.p EXCEPT !.fns = <<x>> \o @] /\ e.block = m.block
    BY <1>1, <1>5 DEF Got
  <2>2. m.block \in Nat /\ f.call[1] \in Selfs
    BY <1>2, <2>1 DEF Selfs
  <2>3. <<x>> \o m.p.fns \in Seq(FnEntry)
    <3>1. x \in FnEntry /\ m.p.fns \in Seq(FnEntry)
      BY <1>2, <2>2, ProfileTypes DEF x, FnEntry
    <3> QED
      BY <3>1, Prepend
  <2> DEFINE l == <<x>> \o m.p.fns
             q == e.p
  <2>4. q = [m.p EXCEPT !.fns = l] /\ l \in Seq(FnEntry)
    BY <2>1, <2>3
  <2>5. l = <<[block |-> m.block, self |-> f.call[1]]>> \o m.p.fns
    BY DEF x
  <2> HIDE DEF l, q
  <2>6. /\ q \in Profiles /\ q.fns = l /\ q.arcs = m.p.arcs /\ q.histograms = m.p.histograms
        /\ q.made = m.p.made /\ q.starts = m.p.starts /\ q.slab = m.p.slab
        /\ q.heap_end = m.p.heap_end /\ q.stack_limit = m.p.stack_limit /\ q.fate = "runs"
    BY <1>2, <2>1, <2>4 DEF Profiles
  <2>7. /\ q.fns = <<[block |-> m.block, self |-> f.call[1]]>> \o p.fns /\ q.arcs = p.arcs
        /\ q.histograms = p.histograms /\ q.made = p.made /\ q.starts = p.starts
    BY <1>2, <2>5, <2>6 DEF SameLists
  <2>8. /\ ProfBlocks(q) = ProfBlocks(p) \cup {<<"fn", Len(p.fns), m.block, ENTRY>>}
        /\ Graph(q) /\ Listed(q, m.block, f.call[1])
        /\ \A s : FrameSound(p, s) /\ NotListed(p, f.call[1]) => FrameSound(q, s)
        /\ \A s, n : Counted(p, s, n) => Counted(q, s, n)
    <3>1. Placed(ProfBlocks(p), p) /\ Graph(p) /\ \A b \in ProfBlocks(p) : b[4] > 0 => b[3] # m.block
      BY <1>2, <2>1 DEF ProfSound
    <3> QED
      BY <2>2, <2>6, <2>7, <3>1, AddsFn, SMTT(30)
  <2>9. Placed(ProfBlocks(q), q)
    <3> DEFINE t == <<"fn", Len(p.fns), m.block, ENTRY>>
    <3>1. t \in AnyBlock /\ t[3] = m.block /\ t[4] = ENTRY
      <4>1. Len(p.fns) \in Nat /\ ENTRY \in Nat
        BY ProfileTypes, Words
      <4> QED
        BY <2>2, <4>1 DEF AnyBlock
    <3> HIDE DEF t
    <3>2. Placed(ProfBlocks(p) \cup {t}, m.p)
      BY <1>2, <2>1, <3>1
    <3>3. Placed(ProfBlocks(p) \cup {t}, q)
      BY <1>2, <2>6, <3>2, HeapStays
    <3> QED
      BY <2>8, <3>3 DEF t
  <2>10. LimitFollows(q)
    BY <1>2, <2>1, <2>6 DEF LimitFollows
  <2>11. ProfSound(q)
    BY <2>8, <2>9, <2>10 DEF ProfSound
  <2> QED
    BY <2>1, <2>2, <2>6, <2>7, <2>8, <2>11 DEF q, e
<1> QED
  BY <1>4, <1>5

LEMMA ArcLinks ==
  ASSUME NEW p \in Profiles, p.fate = "runs", ProfSound(p),
         NEW f, f.call \in ProfCalls, NEW fn \in Nat, Listed(p, fn, f.call[1])
  PROVE  LET q == AddArc(p, f, fn)
         IN  /\ q \in Profiles /\ q.histograms = p.histograms
             /\ q.fate # "wild" =>
                  /\ ProfSound(q) /\ \A s : FrameSound(p, s) => FrameSound(q, s)
                  /\ \A s \in McountFrame, n \in Nat :
                       FrameSound(p, s) /\ Counted(p, s, n) => Counted(q, s, n)
<1> DEFINE m == mcount_allocate(p, ENTRY)
           q == AddArc(p, f, fn)
           x == [block |-> m.block, fn |-> fn, from |-> f.call[2], count |-> 1]
           l == <<x>> \o m.p.arcs
<1>1. /\ Got(m) => q = [[m.p EXCEPT !.made[f.call] = @ + 1] EXCEPT !.arcs = <<x>> \o @]
      /\ ~ Got(m) => q = m.p
  BY DEF AddArc, Count
<1>2. l = <<[block |-> m.block, fn |-> fn, from |-> f.call[2], count |-> 1]>> \o m.p.arcs
  OBVIOUS
<1> HIDE DEF m, q, x
<1>3. /\ m.p \in Profiles /\ SameLists(p, m.p)
      /\ m.p.fate \in {"runs", "wild", "overflow reported"}
      /\ m.p.fate # "wild" =>
           /\ LimitFollows(m.p) /\ m.block \in Nat /\ m.block # 0 /\ Placed(ProfBlocks(p), m.p)
           /\ \A b \in ProfBlocks(p) : b[4] > 0 => b[3] # m.block
           /\ \A t \in AnyBlock : t[3] = m.block /\ t[4] = ENTRY => Placed(ProfBlocks(p) \cup {t}, m.p)
  BY Allocates DEF m, ProfSound
<1>4. SameEntries(p, m.p) /\ m.p.histograms = p.histograms /\ ProfBlocks(m.p) = ProfBlocks(p)
  <2>1. SameEntries(p, m.p) /\ m.p.histograms = p.histograms
    BY <1>3 DEF SameLists, SameEntries
  <2> QED
    BY <2>1, SameGraph DEF ProfBlocks, DataBlocks
<1>5. CASE ~ Got(m)
  <2>1. q = m.p /\ m.p.fate # "runs"
    BY <1>1, <1>5 DEF Got
  <2>2. m.p.fate # "wild" => ProfSound(m.p)
    BY <1>3, <1>4, SameGraph DEF ProfSound
  <2>3. /\ \A s, n : Counted(p, s, n) => Counted(m.p, s, n)
        /\ \A s : FrameSound(p, s) => FrameSound(m.p, s)
    BY <1>4, SameGraph
  <2> QED
    BY <1>3, <1>4, <2>1, <2>2, <2>3 DEF q
<1>6. CASE Got(m)
  <2>1. m.p.fate = "runs" /\ q = [[m.p EXCEPT !.made[f.call] = @ + 1] EXCEPT !.arcs = l]
    <3>1. [m.p EXCEPT !.made[f.call] = @ + 1].arcs = m.p.arcs
      BY <1>3 DEF Profiles
    <3> QED
      BY <1>1, <1>6, <3>1 DEF Got
  <2>2. m.block \in Nat /\ f.call[2] \in Froms
    BY <1>3, <2>1 DEF Froms
  <2>3. l \in Seq(ArcEntry)
    <3>1. x \in ArcEntry /\ m.p.arcs \in Seq(ArcEntry)
      BY <1>3, <2>2, ProfileTypes DEF x, ArcEntry
    <3> QED
      BY <3>1, Prepend
  <2> HIDE DEF l
  <2>4. /\ q \in Profiles /\ q.fns = m.p.fns /\ q.arcs = l /\ q.histograms = m.p.histograms
        /\ q.made = [m.p.made EXCEPT ![f.call] = @ + 1]
        /\ q.starts = m.p.starts /\ q.slab = m.p.slab
        /\ q.heap_end = m.p.heap_end /\ q.stack_limit = m.p.stack_limit /\ q.fate = "runs"
    <3>1. m.p.made \in [ProfCalls -> Nat]
      BY <1>3 DEF Profiles
    <3>2. [m.p.made EXCEPT ![f.call] = @ + 1] \in [ProfCalls -> Nat]
      BY <3>1
    <3> QED
      BY <1>3, <2>1, <2>3, <3>2 DEF Profiles
  <2>5. /\ NewArc(p, q, m.block, fn, f.call) /\ q.fns = p.fns
        /\ q.histograms = p.histograms /\ q.starts = p.starts
        /\ q.made = [p.made EXCEPT ![f.call] = @ + 1]
    BY <1>2, <1>3, <2>4 DEF SameLists, NewArc
  <2>6. /\ ProfBlocks(q) = ProfBlocks(p) \cup {<<"arc", Len(p.arcs), m.block, ENTRY>>}
        /\ Graph(q)
        /\ \A s : FrameSound(p, s) => FrameSound(q, s)
        /\ \A s \in McountFrame, n \in Nat :
             FrameSound(p, s) /\ Counted(p, s, n) => Counted(q, s, n)
    <3>1. Placed(ProfBlocks(p), p) /\ Graph(p) /\ \A b \in ProfBlocks(p) : b[4] > 0 => b[3] # m.block
      BY <1>3, <2>1 DEF ProfSound
    <3> QED
      BY <2>2, <2>4, <2>5, <3>1, AddsArc
  <2>7. Placed(ProfBlocks(q), q)
    <3> DEFINE t == <<"arc", Len(p.arcs), m.block, ENTRY>>
    <3>1. t \in AnyBlock /\ t[3] = m.block /\ t[4] = ENTRY
      <4>1. Len(p.arcs) \in Nat /\ ENTRY \in Nat
        BY ProfileTypes, Words
      <4> QED
        BY <2>2, <4>1 DEF AnyBlock
    <3> HIDE DEF t
    <3>2. Placed(ProfBlocks(p) \cup {t}, m.p)
      BY <1>3, <2>1, <3>1
    <3>3. Placed(ProfBlocks(p) \cup {t}, q)
      BY <1>3, <2>4, <3>2, HeapStays
    <3> QED
      BY <2>6, <3>3 DEF t
  <2>8. LimitFollows(q)
    BY <1>3, <2>1, <2>4 DEF LimitFollows
  <2>9. ProfSound(q)
    BY <2>6, <2>7, <2>8 DEF ProfSound
  <2> QED
    BY <2>4, <2>5, <2>6, <2>9 DEF q
<1> QED
  BY <1>5, <1>6

Kept(p, q) ==
  /\ \A s : FrameSound(p, s) => FrameSound(q, s)
  /\ \A s \in McountFrame, n \in Nat : FrameSound(p, s) /\ Counted(p, s, n) => Counted(q, s, n)

LEMMA NothingPending ==
  ASSUME NEW p
  PROVE  /\ FrameSound(p, Returned) /\ FrameSharp(p, Returned) /\ Returned \in McountFrame
         /\ \A f, g, n : Counted(p, f, n) /\ (g = Returned \/ g.at # "store") => Counted(p, g, n)
BY DEF FrameSound, FrameSharp, McountFrame, Counted

\* The section of __mcount_record() that disables interrupts.
LEMMA Links ==
  ASSUME NEW p \in Profiles, p.fate = "runs", ProfSound(p),
         NEW f \in Entries, f # Returned, f.at = "link", FrameSound(p, f)
  PROVE  LET q == Link(p, f)
         IN  /\ q \in Profiles /\ q.histograms = p.histograms
             /\ q.fate # "wild" =>
                  /\ ProfSound(q)
                  /\ \A n \in Nat : Counted(p, f, n) => Counted(q, Returned, n)
                  /\ FrameSharp(p, f) => Kept(p, q)
<1> DEFINE e == AddFn(p, f)
           q == Link(p, f)
<1>1. /\ f.fn # 0 => q = AddArc(p, f, f.fn)
      /\ f.fn = 0 /\ Got(e) => q = AddArc(e.p, f, e.block)
      /\ f.fn = 0 /\ ~ Got(e) => q = e.p
  BY DEF Link
<1> HIDE DEF e, q
<1>2. f.call \in ProfCalls /\ f.fn \in Nat /\ f.at \in Unlinked
  BY DEF Entries, Unlinked
<1>3. \A n : Counted(p, f, n) => Counted(p, Returned, n)
  BY NothingPending
<1>4. CASE f.fn # 0
  <2>1. Listed(p, f.fn, f.call[1])
    BY <1>4 DEF FrameSound
  <2>2. /\ q \in Profiles /\ q.histograms = p.histograms
        /\ q.fate # "wild" =>
             /\ ProfSound(q) /\ \A s : FrameSound(p, s) => FrameSound(q, s)
             /\ \A s \in McountFrame, n \in Nat :
                  FrameSound(p, s) /\ Counted(p, s, n) => Counted(q, s, n)
    BY <1>1, <1>2, <1>4, <2>1, ArcLinks
  <2> QED
    BY <1>3, <2>2, NothingPending DEF q, Kept
<1>5. CASE f.fn = 0
  <2>1. AtMostOne(p, f.call[1])
    BY <1>2, <1>5 DEF FrameSound
  <2>2. FrameSharp(p, f) => NotListed(p, f.call[1])
    BY <1>2, <1>5 DEF FrameSharp
  <2>3. /\ e.p \in Profiles /\ e.p.histograms = p.histograms
        /\ e.p.fate # "wild" => ProfSound(e.p) /\ \A s, n : Counted(p, s, n) => Counted(e.p, s, n)
        /\ e.p.fate # "wild" /\ NotListed(p, f.call[1]) =>
             \A s : FrameSound(p, s) => FrameSound(e.p, s)
        /\ e.p.fate = "runs" => e.block \in Nat /\ Listed(e.p, e.block, f.call[1])
    BY <1>2, <2>1, FnLinks DEF e
  <2>4. CASE ~ Got(e)
    BY <1>1, <1>3, <1>5, <2>2, <2>3, <2>4 DEF q, Kept
  <2>5. CASE Got(e)
    <3>1. q = AddArc(e.p, f, e.block) /\ e.p.fate = "runs"
      BY <1>1, <1>5, <2>5 DEF Got
    <3>2. e.p \in Profiles /\ ProfSound(e.p) /\ e.block \in Nat /\ Listed(e.p, e.block, f.call[1])
      BY <2>3, <3>1
    <3>3. /\ q \in Profiles /\ q.histograms = e.p.histograms
          /\ q.fate # "wild" =>
               /\ ProfSound(q) /\ \A s : FrameSound(e.p, s) => FrameSound(q, s)
               /\ \A s \in McountFrame, n \in Nat :
                    FrameSound(e.p, s) /\ Counted(e.p, s, n) => Counted(q, s, n)
      BY <1>2, <3>1, <3>2, ArcLinks
    <3>4. \A s, n : Counted(p, s, n) => Counted(e.p, s, n)
      BY <2>3, <3>1
    <3>5. FrameSharp(p, f) => \A s : FrameSound(p, s) => FrameSound(e.p, s)
      BY <2>2, <2>3, <3>1
    <3>6. ASSUME q.fate # "wild" PROVE \A n \in Nat : Counted(p, f, n) => Counted(q, Returned, n)
      BY <1>3, <3>3, <3>4, <3>6, NothingPending
    <3>7. ASSUME q.fate # "wild", FrameSharp(p, f) PROVE Kept(p, q)
      BY <3>3, <3>4, <3>5, <3>7 DEF Kept
    <3> QED
      BY <2>3, <3>3, <3>6, <3>7 DEF q
  <2> QED
    BY <2>4, <2>5
<1> QED
  BY <1>4, <1>5

\* What a step of mcount() does, whosever it is: with the frame of an
\* interrupt, to the frame s that it suspends.
StepIsSound(p, f, q, g) ==
  /\ q \in Profiles /\ g \in McountFrame
  /\ \A i \in DOMAIN p.histograms : i \in DOMAIN q.histograms /\ q.histograms[i] = p.histograms[i]
  /\ q.fate # "wild" =>
       /\ ProfSound(q) /\ (q.fate = "runs" => FrameSound(q, g))
       /\ \A n \in Nat : Counted(p, f, n) => Counted(q, g, n)
       /\ FrameSharp(p, f) =>
            /\ FrameSharp(q, g)
            /\ \A s : FrameSound(p, s) => FrameSound(q, s)
            /\ \A s \in McountFrame, n \in Nat :
                 FrameSound(p, s) /\ Counted(p, s, n) => Counted(q, s, IF g = Returned THEN n + 1 ELSE n)

LEMMA LosesMore ==
  ASSUME NEW p \in Profiles, Graph(p), NEW s \in McountFrame, NEW n \in Nat, Counted(p, s, n)
  PROVE  Counted(p, s, n + 1)
<1>1. \A c \in ProfCalls : p.made[c] \in Nat /\ Recorded(p, c) \in Nat
  BY RecordedNat DEF Profiles
<1>2. \A i \in DOMAIN p.arcs : p.arcs[i].count \in Nat
  BY ProfileTypes DEF ArcEntry
<1>3. s # Returned => s.call \in ProfCalls /\ s.count \in Nat
  BY DEF McountFrame, Entries
<1>4. \A c \in ProfCalls : Recorded(p, c) <= p.made[c] /\ p.made[c] <= Recorded(p, c) + (n + 1)
  <2>1. \A c \in ProfCalls : Recorded(p, c) <= p.made[c] /\ p.made[c] <= Recorded(p, c) + n
    BY DEF Counted
  <2>2. \A r, m \in Nat : m <= r + n => m <= r + (n + 1)
    OBVIOUS
  <2> QED
    BY <1>1, <2>1, <2>2
<1>5. ASSUME s # Returned, s.at = "store", NEW i \in DOMAIN p.arcs, p.arcs[i].block = s.arc
      PROVE  /\ s.count <= p.arcs[i].count
             /\ p.made[s.call] + p.arcs[i].count - s.count <= Recorded(p, s.call) + (n + 1)
  <2>1. /\ s.count <= p.arcs[i].count
        /\ p.made[s.call] + p.arcs[i].count - s.count <= Recorded(p, s.call) + n
    BY <1>5 DEF Counted
  <2>2. \A m, a, x, r \in Nat : m + a - x <= r + n => m + a - x <= r + (n + 1)
    OBVIOUS
  <2> QED
    BY <1>1, <1>2, <1>3, <1>5, <2>1, <2>2
<1> QED
  BY <1>4, <1>5 DEF Counted

LEMMA QuietStep ==
  ASSUME NEW p \in Profiles, NEW q \in Profiles, Quiet(p, q), ProfSound(p),
         NEW f, NEW g \in McountFrame, FrameSound(p, g), FrameSharp(p, f) => FrameSharp(p, g),
         \A n \in Nat : Counted(p, f, n) => Counted(p, g, n)
  PROVE  StepIsSound(p, f, q, g)
<1>1. SameEntries(p, q) /\ q.histograms = p.histograms
  BY DEF Quiet
<1>2. ProfSound(q) /\ Graph(q)
  BY StaysQuiet DEF ProfSound
<1>3. /\ \A s : FrameSound(p, s) => FrameSound(q, s)
      /\ \A s : FrameSharp(p, s) => FrameSharp(q, s)
      /\ \A s, n : Counted(p, s, n) => Counted(q, s, n)
  BY <1>1, SameGraph
<1>4. \A s \in McountFrame, n \in Nat : Counted(q, s, n) => Counted(q, s, n + 1)
  BY <1>2, LosesMore
<1> QED
  BY <1>1, <1>2, <1>3, <1>4 DEF StepIsSound

LEMMA StepForms ==
  ASSUME NEW p, NEW f
  PROVE  /\ f.at = "find fn" => McountStep(p, f) =
              <<p, [f EXCEPT !.fn = FnOf(p, f), !.at = IF FnOf(p, f) = 0 THEN "test" ELSE "find arc"]>>
         /\ f.at = "find arc" => McountStep(p, f) =
              <<p, [f EXCEPT !.arc = ArcOf(p, f), !.at = IF ArcOf(p, f) = 0 THEN "test" ELSE "load"]>>
         /\ f.at = "load" => McountStep(p, f) =
              <<p, [f EXCEPT !.count = p.arcs[ArcAt(p, f.arc)].count, !.at = "store"]>>
         /\ f.at = "store" => McountStep(p, f) =
              <<[[p EXCEPT !.made[f.call] = @ + 1] EXCEPT !.arcs[ArcAt(p, f.arc)].count = f.count + 1],
                Returned>>
         /\ f.at = "test" => McountStep(p, f) =
              <<p, [f EXCEPT !.at = IF p.need_init THEN "clear" ELSE "link"]>>
         /\ f.at = "clear" => McountStep(p, f) =
              <<[p EXCEPT !.need_init = FALSE], [f EXCEPT !.at = "init"]>>
         /\ f.at = "init" /\ rate = 0 => McountStep(p, f) = <<p, [f EXCEPT !.at = "again"]>>
         /\ f.at = "init" /\ rate # 0 => McountStep(p, f) =
              <<nios2_pcsample_init(p), [f EXCEPT !.at = "start"]>>
         /\ f.at = "start" => McountStep(p, f) =
              <<[p EXCEPT !.starts = @ + 1], [f EXCEPT !.at = "set"]>>
         /\ f.at = "set" => McountStep(p, f) =
              <<[p EXCEPT !.need_init = FALSE], [f EXCEPT !.at = "link"]>>
         /\ f.at = "again" => McountStep(p, f) =
              <<[p EXCEPT !.need_init = TRUE], [f EXCEPT !.at = "link"]>>
         /\ f.at = "link" => McountStep(p, f) = <<Link(p, f), Returned>>
<1>1. f.at = "find fn" => McountStep(p, f) =
        <<p, [f EXCEPT !.fn = FnOf(p, f), !.at = IF FnOf(p, f) = 0 THEN "test" ELSE "find arc"]>>
  BY DEF McountStep
<1>2. f.at = "find arc" => McountStep(p, f) =
        <<p, [f EXCEPT !.arc = ArcOf(p, f), !.at = IF ArcOf(p, f) = 0 THEN "test" ELSE "load"]>>
  BY DEF McountStep
<1>3. f.at = "load" => McountStep(p, f) =
        <<p, [f EXCEPT !.count = p.arcs[ArcAt(p, f.arc)].count, !.at = "store"]>>
  BY DEF McountStep, CountOf, ArcAt
<1>4. f.at = "store" => McountStep(p, f) =
        <<[[p EXCEPT !.made[f.call] = @ + 1] EXCEPT !.arcs[ArcAt(p, f.arc)].count = f.count + 1],
          Returned>>
  BY DEF McountStep, Count, ArcAt
<1>5. f.at = "test" => McountStep(p, f) =
        <<p, [f EXCEPT !.at = IF p.need_init THEN "clear" ELSE "link"]>>
  BY DEF McountStep
<1>6. f.at = "clear" => McountStep(p, f) = <<[p EXCEPT !.need_init = FALSE], [f EXCEPT !.at = "init"]>>
  BY DEF McountStep
<1>7. f.at = "init" =>
        /\ rate = 0 => McountStep(p, f) = <<p, [f EXCEPT !.at = "again"]>>
        /\ rate # 0 => McountStep(p, f) = <<nios2_pcsample_init(p), [f EXCEPT !.at = "start"]>>
  BY DEF McountStep
<1>8. f.at = "start" => McountStep(p, f) = <<[p EXCEPT !.starts = @ + 1], [f EXCEPT !.at = "set"]>>
  BY DEF McountStep
<1>9. f.at = "set" => McountStep(p, f) = <<[p EXCEPT !.need_init = FALSE], [f EXCEPT !.at = "link"]>>
  BY DEF McountStep
<1>10. f.at = "again" => McountStep(p, f) = <<[p EXCEPT !.need_init = TRUE], [f EXCEPT !.at = "link"]>>
  BY DEF McountStep
<1>11. f.at = "link" => McountStep(p, f) = <<Link(p, f), Returned>>
  BY DEF McountStep
<1> QED
  BY <1>1, <1>2, <1>3, <1>4, <1>5, <1>6, <1>7, <1>8, <1>9, <1>10, <1>11

LEMMA SameQuiet == ASSUME NEW p PROVE Quiet(p, p)
BY DEF Quiet, SameEntries

\* Moving on from one step to another that promises no more.
LEMMA MovesOn ==
  ASSUME NEW p, NEW f \in Entries, NEW next \in Unlinked, f # Returned, FrameSound(p, f),
         f.at \in Unlinked \ {"start"}, next = "start" => p.histograms # << >>
  PROVE  LET g == [f EXCEPT !.at = next]
         IN  /\ g \in McountFrame /\ FrameSound(p, g) /\ (FrameSharp(p, f) => FrameSharp(p, g))
             /\ \A n \in Nat : Counted(p, f, n) => Counted(p, g, n)
<1> DEFINE g == [f EXCEPT !.at = next]
<1>1. g \in Entries /\ g.at = next /\ g.fn = f.fn /\ g.call = f.call /\ g.arc = f.arc
  BY DEF Entries
<1> HIDE DEF g
<1>2. next \notin {"find arc", "load", "store"}
  BY DEF Unlinked
<1>3. FrameSound(p, g)
  <2>1. g.fn # 0 => Listed(p, g.fn, g.call[1])
    BY <1>1 DEF FrameSound
  <2>2. g.fn = 0 => AtMostOne(p, g.call[1])
    BY <1>1 DEF FrameSound
  <2> QED
    BY <1>1, <1>2, <2>1, <2>2 DEF FrameSound
<1>4. FrameSharp(p, f) => FrameSharp(p, g)
  BY <1>1, <1>2 DEF FrameSharp
<1>5. \A n \in Nat : Counted(p, f, n) => Counted(p, g, n)
  BY <1>1, <1>2, NothingPending
<1> QED
  BY <1>1, <1>3, <1>4, <1>5 DEF g, McountFrame

LEMMA PairParts ==
  \A s, x, y : s = <<x, y>> => s[1] = x /\ s[2] = y
OBVIOUS

LEMMA FindsFnStep ==
  ASSUME NEW p \in Profiles, ProfSound(p), NEW f \in Entries, f # Returned, FrameSound(p, f),
         f.at = "find fn"
  PROVE  LET s == McountStep(p, f) IN StepIsSound(p, f, s[1], s[2])
<1> DEFINE fn == FnOf(p, f)
           next == IF fn = 0 THEN "test" ELSE "find arc"
           g  == [f EXCEPT !.fn = fn, !.at = next]
<1>a. McountStep(p, f)[1] = p /\ McountStep(p, f)[2] = g
  <2>1. McountStep(p, f) = <<p, g>>
    BY DEF McountStep
  <2> QED
    BY <2>1, PairParts, Zenon
<1>2. /\ fn \in Nat
      /\ fn = 0 => NotListed(p, f.call[1])
      /\ fn # 0 => Listed(p, fn, f.call[1])
  BY FindsFn DEF ProfSound
<1> HIDE DEF fn
<1>3. next = "test" \/ next = "find arc"
  OBVIOUS
<1>4. g \in Entries /\ g.fn = fn /\ g.call = f.call /\ g.at = next
  BY <1>2, <1>3 DEF Entries, Unlinked
<1>5. fn = 0 <=> next = "test"
  OBVIOUS
<1> HIDE DEF g, next
<1>6. FrameSound(p, g) /\ FrameSharp(p, g)
  <2>1. fn = 0 => AtMostOne(p, f.call[1])
    BY <1>2 DEF NotListed, AtMostOne
  <2> QED
    BY <1>2, <1>3, <1>4, <1>5, <2>1 DEF FrameSound, FrameSharp, Unlinked
<1>7. \A n \in Nat : Counted(p, f, n) => Counted(p, g, n)
  BY <1>3, <1>4, NothingPending
<1>8. StepIsSound(p, f, p, g)
  BY <1>4, <1>6, <1>7, SameQuiet, QuietStep DEF McountFrame
<1> QED
  BY <1>a, <1>8, Zenon

LEMMA FindsArcStep ==
  ASSUME NEW p \in Profiles, ProfSound(p), NEW f \in Entries, f # Returned, FrameSound(p, f),
         f.at = "find arc"
  PROVE  LET s == McountStep(p, f) IN StepIsSound(p, f, s[1], s[2])
<1> DEFINE arc == ArcOf(p, f)
           next == IF arc = 0 THEN "test" ELSE "load"
           g  == [f EXCEPT !.arc = arc, !.at = next]
<1>a. McountStep(p, f)[1] = p /\ McountStep(p, f)[2] = g
  <2>1. McountStep(p, f) = <<p, g>>
    BY DEF McountStep
  <2> QED
    BY <2>1, PairParts, Zenon
<1>2. /\ arc \in Nat
      /\ arc # 0 => \E i \in DOMAIN p.arcs : /\ p.arcs[i].block = arc /\ p.arcs[i].fn = f.fn
                                             /\ p.arcs[i].from = f.call[2]
  BY FindsArc DEF ProfSound
<1> HIDE DEF arc
<1>3. next = "test" \/ next = "load"
  OBVIOUS
<1>4. g \in Entries /\ g.fn = f.fn /\ g.arc = arc /\ g.call = f.call /\ g.at = next
  BY <1>2, <1>3 DEF Entries, Unlinked
<1>5. arc = 0 <=> next = "test"
  OBVIOUS
<1> HIDE DEF g, next
<1>6. f.fn # 0 /\ Listed(p, f.fn, f.call[1])
  BY DEF FrameSound
<1>7. FrameSound(p, g) /\ FrameSharp(p, g)
  BY <1>2, <1>3, <1>4, <1>5, <1>6 DEF FrameSound, FrameSharp, Unlinked
<1>8. \A n \in Nat : Counted(p, f, n) => Counted(p, g, n)
  BY <1>3, <1>4, NothingPending
<1>9. StepIsSound(p, f, p, g)
  BY <1>4, <1>7, <1>8, SameQuiet, QuietStep DEF McountFrame
<1> QED
  BY <1>a, <1>9, Zenon

LEMMA LoadStep ==
  ASSUME NEW p \in Profiles, ProfSound(p), NEW f \in Entries, f # Returned, FrameSound(p, f),
         f.at = "load"
  PROVE  LET s == McountStep(p, f) IN StepIsSound(p, f, s[1], s[2])
<1> DEFINE k == ArcAt(p, f.arc)
           m == p.arcs[k].count
           g == [f EXCEPT !.count = m, !.at = "store"]
<1>a. McountStep(p, f)[1] = p /\ McountStep(p, f)[2] = g
  <2>1. McountStep(p, f) = <<p, g>>
    BY StepForms, Zenon
  <2> QED
    BY <2>1, PairParts, Zenon
<1>2. f.fn # 0 /\ Listed(p, f.fn, f.call[1])
      /\ \E i \in DOMAIN p.arcs : p.arcs[i].block = f.arc /\ p.arcs[i].fn = f.fn
                                  /\ p.arcs[i].from = f.call[2]
  BY DEF FrameSound
<1>3. k \in DOMAIN p.arcs /\ p.arcs[k].block = f.arc
  BY <1>2, FindsEntry
<1>4. \A i \in DOMAIN p.arcs : p.arcs[i].block = f.arc => i = k
  <2>1. \A i \in DOMAIN p.arcs : p.arcs[i].block = p.arcs[k].block => i = k
    BY <1>3, OneAddress DEF ProfSound
  <2> QED
    BY <1>3, <2>1
<1>5. m \in Nat
  BY <1>3, ProfileTypes DEF ArcEntry
<1> HIDE DEF m
<1>6. /\ g \in Entries /\ g.fn = f.fn /\ g.arc = f.arc /\ g.call = f.call /\ g.at = "store"
      /\ g.count = m
  BY <1>5 DEF Entries
<1> HIDE DEF g, k
<1>7. FrameSound(p, g)
  BY <1>2, <1>6 DEF FrameSound, Unlinked
<1>8. FrameSharp(p, g)
  BY <1>4, <1>6 DEF FrameSharp, Unlinked, m
<1>9. ASSUME NEW n \in Nat, Counted(p, f, n) PROVE Counted(p, g, n)
  <2>1. \A c \in ProfCalls : Recorded(p, c) <= p.made[c] /\ p.made[c] <= Recorded(p, c) + n
    BY <1>9 DEF Counted
  <2>2. ASSUME NEW i \in DOMAIN p.arcs, p.arcs[i].block = g.arc
        PROVE  /\ g.count <= p.arcs[i].count
               /\ p.made[g.call] + p.arcs[i].count - g.count <= Recorded(p, g.call) + n
    <3>1. p.arcs[i].count = m
      BY <1>4, <1>6, <2>2 DEF m
    <3>2. g.call \in ProfCalls
      BY <1>6 DEF Entries
    <3>3. p.made[g.call] \in Nat
      BY <3>2 DEF Profiles
    <3>4. p.made[g.call] + m - m = p.made[g.call] /\ m <= m
      BY <1>5, <3>3
    <3> QED
      BY <1>6, <2>1, <3>1, <3>2, <3>4
  <2> QED
    BY <2>1, <2>2 DEF Counted
<1>10. StepIsSound(p, f, p, g)
  BY <1>6, <1>7, <1>8, <1>9, SameQuiet, QuietStep DEF McountFrame
<1> QED
  BY <1>a, <1>10, Zenon

LEMMA StoreStep ==
  ASSUME NEW p \in Profiles, ProfSound(p), NEW f \in Entries, f # Returned, FrameSound(p, f),
         f.at = "store"
  PROVE  LET s == McountStep(p, f) IN StepIsSound(p, f, s[1], s[2])
<1> DEFINE k == ArcAt(p, f.arc)
           c == f.call
           m == f.count
           q == [[p EXCEPT !.made[c] = @ + 1] EXCEPT !.arcs[k].count = m + 1]
<1>a. McountStep(p, f)[1] = q /\ McountStep(p, f)[2] = Returned
  <2>1. McountStep(p, f) = <<q, Returned>>
    BY StepForms, Zenon
  <2> HIDE DEF q
  <2> QED
    BY <2>1, PairParts, Zenon
<1>1. c \in ProfCalls /\ m \in Nat
  BY DEF Entries
<1>2. /\ f.fn # 0 /\ Listed(p, f.fn, c[1])
      /\ \E i \in DOMAIN p.arcs : p.arcs[i].block = f.arc /\ p.arcs[i].fn = f.fn /\ p.arcs[i].from = c[2]
  BY DEF FrameSound
<1>3. k \in DOMAIN p.arcs /\ p.arcs[k].block = f.arc
  BY <1>2, FindsEntry
<1>4. \A i \in DOMAIN p.arcs : p.arcs[i].block = f.arc => i = k
  <2>1. \A i \in DOMAIN p.arcs : p.arcs[i].block = p.arcs[k].block => i = k
    BY <1>3, OneAddress DEF ProfSound
  <2> QED
    BY <1>3, <2>1
<1>5. k \in Copies(p, c)
  BY <1>2, <1>3, <1>4 DEF Copies, Listed
<1> HIDE DEF k, c, m
<1>6. /\ q \in Profiles /\ NewCount(p, q, k, m) /\ q.fns = p.fns /\ q.histograms = p.histograms
      /\ q.starts = p.starts /\ q.made = [p.made EXCEPT ![c] = @ + 1]
      /\ q.slab = p.slab /\ q.heap_end = p.heap_end /\ q.stack_limit = p.stack_limit
      /\ q.fate = p.fate
  <2> DEFINE l == [p.arcs EXCEPT ![k].count = m + 1]
             d == [p.made EXCEPT ![c] = @ + 1]
  <2>1. q = [p EXCEPT !.made = d, !.arcs = l]
    BY <1>1 DEF Profiles
  <2>2. d \in [ProfCalls -> Nat]
    <3>1. p.made \in [ProfCalls -> Nat]
      BY DEF Profiles
    <3>2. p.made[c] + 1 \in Nat
      BY <1>1, <3>1
    <3> QED
      BY <1>1, <3>1, <3>2
  <2>3. l \in Seq(ArcEntry)
    <3>1. p.arcs \in Seq(ArcEntry) /\ p.arcs[k] \in ArcEntry
      BY <1>3, ProfileTypes
    <3>2. [p.arcs[k] EXCEPT !.count = m + 1] \in ArcEntry
      <4>1. m + 1 \in Nat
        BY <1>1
      <4> QED
        BY <3>1, <4>1 DEF ArcEntry
    <3>3. l = [p.arcs EXCEPT ![k] = [p.arcs[k] EXCEPT !.count = m + 1]]
      OBVIOUS
    <3> QED
      BY <1>3, <3>1, <3>2, <3>3, ExceptSeq
  <2> HIDE DEF q, l, d
  <2>4. /\ q \in Profiles /\ q.fns = p.fns /\ q.histograms = p.histograms
        /\ q.starts = p.starts /\ q.made = d /\ q.arcs = l
        /\ q.slab = p.slab /\ q.heap_end = p.heap_end /\ q.stack_limit = p.stack_limit
        /\ q.fate = p.fate
    BY <2>1, <2>2, <2>3 DEF Profiles
  <2> QED
    BY <2>4 DEF NewCount, l, d
<1> HIDE DEF q
<1>7. /\ ProfBlocks(q) = ProfBlocks(p) /\ Graph(q)
      /\ \A s : FrameSound(p, s) => FrameSound(q, s)
      /\ \A d \in ProfCalls : d # c => Recorded(q, d) = Recorded(p, d)
      /\ Recorded(q, c) = Recorded(p, c) - p.arcs[k].count + m + 1
      /\ k \in DOMAIN p.arcs /\ DOMAIN q.arcs = DOMAIN p.arcs
      /\ \A i \in DOMAIN p.arcs :
           /\ q.arcs[i].block = p.arcs[i].block
           /\ q.arcs[i].count = IF i = k THEN m + 1 ELSE p.arcs[i].count
  <2>1. Placed(ProfBlocks(p), p) /\ Graph(p)
    BY DEF ProfSound
  <2> QED
    BY <1>1, <1>5, <1>6, <2>1, Stores
<1>8. ProfSound(q)
  <2>1. Placed(ProfBlocks(q), q)
    BY <1>6, <1>7, HeapStays DEF ProfSound
  <2>2. LimitFollows(q)
    BY <1>6 DEF ProfSound, LimitFollows
  <2> QED
    BY <1>7, <2>1, <2>2 DEF ProfSound
<1>9. /\ \A d \in ProfCalls : p.made[d] \in Nat /\ Recorded(p, d) \in Nat
      /\ \A d \in ProfCalls : d # c => q.made[d] = p.made[d]
      /\ q.made[c] = p.made[c] + 1
      /\ \A i \in DOMAIN p.arcs : p.arcs[i].count \in Nat
  <2>1. \A d \in ProfCalls : p.made[d] \in Nat /\ Recorded(p, d) \in Nat
    BY RecordedNat DEF Profiles, ProfSound
  <2>2. \A i \in DOMAIN p.arcs : p.arcs[i].count \in Nat
    BY ProfileTypes DEF ArcEntry
  <2>3. (\A d \in ProfCalls : d # c => q.made[d] = p.made[d]) /\ q.made[c] = p.made[c] + 1
    BY <1>1, <1>6 DEF Profiles
  <2> QED
    BY <2>1, <2>2, <2>3
<1>10. ASSUME NEW n \in Nat, Counted(p, f, n) PROVE Counted(q, Returned, n)
  <2>1. /\ m <= p.arcs[k].count
        /\ p.made[c] + p.arcs[k].count - m <= Recorded(p, c) + n
    BY <1>3, <1>10 DEF Counted, c, m
  <2>2. \A d \in ProfCalls : Recorded(p, d) <= p.made[d] /\ p.made[d] <= Recorded(p, d) + n
    BY <1>10 DEF Counted
  <2>3. \A r, a, x, y \in Nat : y <= a /\ x + a - y <= r + n /\ r <= x =>
          r - a + y + 1 <= x + 1 /\ x + 1 <= (r - a + y + 1) + n
    OBVIOUS
  <2>4. Recorded(q, c) <= q.made[c] /\ q.made[c] <= Recorded(q, c) + n
    BY <1>1, <1>3, <1>7, <1>9, <2>1, <2>2, <2>3
  <2>5. \A d \in ProfCalls : Recorded(q, d) <= q.made[d] /\ q.made[d] <= Recorded(q, d) + n
    BY <1>7, <1>9, <2>2, <2>4
  <2> QED
    BY <2>5 DEF Counted
<1>11. ASSUME FrameSharp(p, f), NEW s \in McountFrame, NEW n \in Nat, FrameSound(p, s), Counted(p, s, n)
       PROVE  Counted(q, s, n + 1)
  <2>1. p.arcs[k].count = m
    BY <1>3, <1>11 DEF FrameSharp, m
  <2>2. Recorded(q, c) = Recorded(p, c) + 1
    <3>1. \A r, x \in Nat : r - x + x + 1 = r + 1
      OBVIOUS
    <3> QED
      BY <1>1, <1>7, <1>9, <2>1, <3>1
  <2>3. \A d \in ProfCalls : Recorded(p, d) <= p.made[d] /\ p.made[d] <= Recorded(p, d) + n
    BY <1>11 DEF Counted
  <2>4. ASSUME NEW d \in ProfCalls
        PROVE  Recorded(q, d) <= q.made[d] /\ q.made[d] <= Recorded(q, d) + (n + 1)
    <3>1. Recorded(p, d) <= p.made[d] /\ p.made[d] <= Recorded(p, d) + n
          /\ p.made[d] \in Nat /\ Recorded(p, d) \in Nat
      BY <1>9, <2>3
    <3>2. CASE d = c
      <4>1. Recorded(q, d) = Recorded(p, d) + 1 /\ q.made[d] = p.made[d] + 1
        BY <1>9, <2>2, <3>2
      <4> QED
        BY <3>1, <4>1
    <3>3. CASE d # c
      <4>1. Recorded(q, d) = Recorded(p, d) /\ q.made[d] = p.made[d]
        BY <1>7, <1>9, <3>3
      <4> QED
        BY <3>1, <4>1
    <3> QED
      BY <3>2, <3>3
  <2>5. ASSUME s # Returned, s.at = "store", NEW i \in DOMAIN q.arcs, q.arcs[i].block = s.arc
        PROVE  /\ s.count <= q.arcs[i].count
               /\ q.made[s.call] + q.arcs[i].count - s.count <= Recorded(q, s.call) + (n + 1)
    <3>1. i \in DOMAIN p.arcs /\ p.arcs[i].block = s.arc
      BY <1>7, <2>5
    <3>2. /\ s.count <= p.arcs[i].count
          /\ p.made[s.call] + p.arcs[i].count - s.count <= Recorded(p, s.call) + n
      BY <1>11, <2>5, <3>1 DEF Counted
    <3>3. s.call \in ProfCalls /\ s.count \in Nat
      BY <2>5 DEF McountFrame, Entries
    <3>4. p.made[s.call] \in Nat /\ Recorded(p, s.call) \in Nat /\ p.arcs[i].count \in Nat
      BY <1>9, <3>1, <3>3
    <3>5. q.arcs[i].count = p.arcs[i].count + 1 \/ q.arcs[i].count = p.arcs[i].count
      BY <1>7, <2>1, <3>1
    <3>6. \/ q.made[s.call] = p.made[s.call] /\ Recorded(q, s.call) = Recorded(p, s.call)
          \/ q.made[s.call] = p.made[s.call] + 1 /\ Recorded(q, s.call) = Recorded(p, s.call) + 1
      BY <1>7, <1>9, <2>2, <3>3
    <3>7. \A x, y, r, a \in Nat :
            x <= a /\ y + a - x <= r + n =>
              /\ x <= a + 1 /\ y + a - x <= r + (n + 1) /\ y + (a + 1) - x <= r + (n + 1)
              /\ (y + 1) + a - x <= (r + 1) + (n + 1)
              /\ (y + 1) + (a + 1) - x <= (r + 1) + (n + 1)
      OBVIOUS
    <3> QED
      BY <3>2, <3>3, <3>4, <3>5, <3>6, <3>7
  <2> QED
    BY <2>4, <2>5 DEF Counted
<1>12. StepIsSound(p, f, q, Returned)
  BY <1>6, <1>7, <1>8, <1>10, <1>11, NothingPending DEF StepIsSound
<1> QED
  BY <1>a, <1>12, Zenon

\* The steps around nios2_pcsample_init(), which change no list.
LEMMA StartSteps ==
  ASSUME NEW p \in Profiles, ProfSound(p), NEW f \in Entries, f # Returned, FrameSound(p, f),
         f.at \in {"test", "clear", "start", "set", "again"} \/ (f.at = "init" /\ rate = 0)
  PROVE  LET s == McountStep(p, f) IN StepIsSound(p, f, s[1], s[2])
<1>1. \A q \in Profiles, next \in Unlinked :
        Quiet(p, q) /\ f.at # "start" /\ next # "start" =>
          StepIsSound(p, f, q, [f EXCEPT !.at = next])
  <2> SUFFICES ASSUME NEW q \in Profiles, NEW next \in Unlinked, Quiet(p, q), f.at # "start", next # "start"
               PROVE  StepIsSound(p, f, q, [f EXCEPT !.at = next])
    OBVIOUS
  <2> DEFINE g == [f EXCEPT !.at = next]
  <2>1. f.at \in Unlinked \ {"start"}
    BY DEF Unlinked
  <2>2. /\ g \in McountFrame /\ FrameSound(p, g) /\ (FrameSharp(p, f) => FrameSharp(p, g))
        /\ \A n \in Nat : Counted(p, f, n) => Counted(p, g, n)
    BY <2>1, MovesOn
  <2> HIDE DEF g
  <2>3. StepIsSound(p, f, q, g)
    BY <2>2, QuietStep
  <2> QED
    BY <2>3 DEF g
<1>2. CASE f.at = "test"
  <2> DEFINE next == IF p.need_init THEN "clear" ELSE "link"
             g  == [f EXCEPT !.at = next]
  <2>1. McountStep(p, f) = <<p, g>>
    BY <1>2 DEF McountStep
  <2>2. next \in Unlinked /\ next # "start"
    BY DEF Unlinked
  <2> HIDE DEF next
  <2>3. StepIsSound(p, f, p, g)
    BY <1>1, <1>2, <2>2, SameQuiet
  <2> HIDE DEF g
  <2> QED
    BY <2>1, <2>3, PairParts, Zenon
<1>3. CASE f.at = "clear"
  <2> DEFINE q == [p EXCEPT !.need_init = FALSE]
             g == [f EXCEPT !.at = "init"]
  <2>1. McountStep(p, f) = <<q, g>>
    BY <1>3, StepForms, Zenon
  <2>2. q \in Profiles /\ Quiet(p, q)
    BY DEF Profiles, Quiet, SameEntries
  <2> HIDE DEF q
  <2>3. StepIsSound(p, f, q, g)
    BY <1>1, <1>3, <2>2 DEF Unlinked
  <2> HIDE DEF g
  <2> QED
    BY <2>1, <2>3, PairParts, Zenon
<1>4. CASE f.at = "init" /\ rate = 0
  <2> DEFINE g == [f EXCEPT !.at = "again"]
  <2>1. McountStep(p, f) = <<p, g>>
    BY <1>4, StepForms, Zenon
  <2>2. StepIsSound(p, f, p, g)
    BY <1>1, <1>4, SameQuiet DEF Unlinked
  <2> HIDE DEF g
  <2> QED
    BY <2>1, <2>2, PairParts, Zenon
<1>5. CASE f.at = "set"
  <2> DEFINE q == [p EXCEPT !.need_init = FALSE]
             g == [f EXCEPT !.at = "link"]
  <2>1. McountStep(p, f) = <<q, g>>
    BY <1>5 DEF McountStep
  <2>2. q \in Profiles /\ Quiet(p, q)
    BY DEF Profiles, Quiet, SameEntries
  <2> HIDE DEF q
  <2>3. StepIsSound(p, f, q, g)
    BY <1>1, <1>5, <2>2 DEF Unlinked
  <2> HIDE DEF g
  <2> QED
    BY <2>1, <2>3, PairParts, Zenon
<1>6. CASE f.at = "again"
  <2> DEFINE q == [p EXCEPT !.need_init = TRUE]
             g == [f EXCEPT !.at = "link"]
  <2>1. McountStep(p, f) = <<q, g>>
    BY <1>6 DEF McountStep
  <2>2. q \in Profiles /\ Quiet(p, q)
    BY DEF Profiles, Quiet, SameEntries
  <2> HIDE DEF q
  <2>3. StepIsSound(p, f, q, g)
    BY <1>1, <1>6, <2>2 DEF Unlinked
  <2> HIDE DEF g
  <2> QED
    BY <2>1, <2>3, PairParts, Zenon
<1>7. CASE f.at = "start"
  <2> DEFINE q == [p EXCEPT !.starts = @ + 1]
             g == [f EXCEPT !.at = "set"]
  <2>1. McountStep(p, f) = <<q, g>>
    BY <1>7 DEF McountStep
  <2>2. p.histograms # << >>
    BY <1>7 DEF FrameSound
  <2>3. q \in Profiles /\ Quiet(p, q)
    <3>0. p.starts \in Nat
      BY DEF Profiles
    <3>1. p.starts + 1 \in Nat
      BY <3>0
    <3>2. q \in Profiles
      BY <3>1 DEF Profiles
    <3>3. Quiet(p, q)
      BY <2>2 DEF Profiles, Quiet, SameEntries
    <3> QED
      BY <3>2, <3>3
  <2>4. g \in Entries /\ g.at = "set" /\ g.fn = f.fn /\ g.call = f.call /\ g.arc = f.arc
    BY DEF Entries, Unlinked
  <2> HIDE DEF q, g
  <2>5. FrameSound(p, g)
    <3>1. f.at \in Unlinked
      BY <1>7 DEF Unlinked
    <3>2. g.fn # 0 => Listed(p, g.fn, g.call[1])
      BY <2>4 DEF FrameSound
    <3>3. g.fn = 0 => AtMostOne(p, g.call[1])
      BY <2>4, <3>1 DEF FrameSound
    <3> QED
      BY <2>4, <3>2, <3>3 DEF FrameSound
  <2>6. FrameSharp(p, f) => FrameSharp(p, g)
    BY <1>7, <2>4 DEF FrameSharp, Unlinked
  <2>7. \A n \in Nat : Counted(p, f, n) => Counted(p, g, n)
    BY <2>4, NothingPending
  <2>8. StepIsSound(p, f, q, g)
    BY <2>3, <2>4, <2>5, <2>6, <2>7, QuietStep DEF McountFrame
  <2> QED
    BY <2>1, <2>8, PairParts, Zenon
<1> QED
  BY <1>2, <1>3, <1>4, <1>5, <1>6, <1>7

LEMMA InitStep ==
  ASSUME NEW p \in Profiles, p.fate = "runs", ProfSound(p),
         NEW f \in Entries, f # Returned, FrameSound(p, f),
         f.at = "init", rate # 0, text_size \in Texts
  PROVE  LET s == McountStep(p, f) IN StepIsSound(p, f, s[1], s[2])
<1> DEFINE q == nios2_pcsample_init(p)
           g == [f EXCEPT !.at = "start"]
<1>1. McountStep(p, f)[1] = q /\ McountStep(p, f)[2] = g
  <2>1. McountStep(p, f) = <<q, g>>
    BY StepForms, Zenon
  <2> HIDE DEF q, g
  <2> QED
    BY <2>1, PairParts, Zenon
<1>2. g \in Entries /\ g.at = "start" /\ g.fn = f.fn /\ g.call = f.call /\ g.arc = f.arc
  BY DEF Entries, Unlinked
<1>3. /\ q \in Profiles /\ SameEntries(p, q)
      /\ \A i \in DOMAIN p.histograms : i \in DOMAIN q.histograms /\ q.histograms[i] = p.histograms[i]
      /\ q.fate # "wild" => ProfSound(q)
      /\ q.fate = "runs" => q.histograms # << >>
  BY Histograms
<1> HIDE DEF q, g
<1>4. /\ \A s : FrameSound(p, s) => FrameSound(q, s)
      /\ \A s : FrameSharp(p, s) => FrameSharp(q, s)
      /\ \A s, n : Counted(p, s, n) => Counted(q, s, n)
  BY <1>3, SameGraph
<1>5. FrameSound(q, f)
  BY <1>4
<1>6. f.at \in Unlinked
  BY DEF Unlinked
<1>7. ASSUME q.histograms # << >> PROVE FrameSound(q, g)
  <2>1. g.fn # 0 => Listed(q, g.fn, g.call[1])
    BY <1>2, <1>5 DEF FrameSound
  <2>2. g.fn = 0 => AtMostOne(q, g.call[1])
    BY <1>2, <1>5, <1>6 DEF FrameSound
  <2> QED
    BY <1>2, <1>7, <2>1, <2>2 DEF FrameSound
<1>8. FrameSharp(p, f) => FrameSharp(q, g)
  <2>1. FrameSharp(p, f) => FrameSharp(q, f)
    BY <1>4
  <2> QED
    BY <1>2, <1>6, <2>1 DEF FrameSharp
<1>9. \A n \in Nat : Counted(p, f, n) => Counted(q, g, n)
  BY <1>2, <1>4, NothingPending
<1>10. g # Returned
  BY <1>2 DEF Returned
<1>11. StepIsSound(p, f, q, g)
  BY <1>2, <1>3, <1>4, <1>7, <1>8, <1>9, <1>10 DEF StepIsSound, McountFrame
<1> QED
  BY <1>1, <1>11, Zenon

LEMMA LinkStep ==
  ASSUME NEW p \in Profiles, p.fate = "runs", ProfSound(p),
         NEW f \in Entries, f # Returned, FrameSound(p, f), f.at = "link"
  PROVE  LET s == McountStep(p, f) IN StepIsSound(p, f, s[1], s[2])
<1> DEFINE q == Link(p, f)
<1>1. McountStep(p, f)[1] = q /\ McountStep(p, f)[2] = Returned
  <2>1. McountStep(p, f) = <<q, Returned>>
    BY DEF McountStep
  <2> HIDE DEF q
  <2> QED
    BY <2>1, PairParts, Zenon
<1>2. /\ q \in Profiles /\ q.histograms = p.histograms
      /\ q.fate # "wild" =>
           /\ ProfSound(q)
           /\ \A n \in Nat : Counted(p, f, n) => Counted(q, Returned, n)
           /\ FrameSharp(p, f) => Kept(p, q)
  BY Links
<1> HIDE DEF q
<1>3. q.fate # "wild" => \A s \in McountFrame, n \in Nat : Counted(q, s, n) => Counted(q, s, n + 1)
  BY <1>2, LosesMore DEF ProfSound
<1>4. ASSUME q.fate # "wild", FrameSharp(p, f)
      PROVE  /\ \A s : FrameSound(p, s) => FrameSound(q, s)
             /\ \A s \in McountFrame, n \in Nat :
                  FrameSound(p, s) /\ Counted(p, s, n) => Counted(q, s, n + 1)
  BY <1>2, <1>3, <1>4 DEF Kept
<1>5. StepIsSound(p, f, q, Returned)
  BY <1>2, <1>4, NothingPending DEF StepIsSound
<1> QED
  BY <1>1, <1>5, Zenon

LEMMA EveryStep ==
  ASSUME NEW p \in Profiles, p.fate = "runs", ProfSound(p),
         NEW f \in McountFrame, f # Returned, FrameSound(p, f), text_size \in Texts
  PROVE  LET s == McountStep(p, f) IN StepIsSound(p, f, s[1], s[2])
<1>1. f \in Entries
  BY DEF McountFrame
<1>2. \/ f.at \in {"find fn", "find arc", "load", "store", "link"}
      \/ f.at \in {"test", "clear", "start", "set", "again"} \/ (f.at = "init" /\ rate = 0)
      \/ f.at = "init" /\ rate # 0
  BY <1>1 DEF Entries, Unlinked
<1>3. CASE f.at = "find fn"
  BY <1>1, <1>3, FindsFnStep
<1>4. CASE f.at = "find arc"
  BY <1>1, <1>4, FindsArcStep
<1>5. CASE f.at = "load"
  BY <1>1, <1>5, LoadStep
<1>6. CASE f.at = "store"
  BY <1>1, <1>6, StoreStep
<1>7. CASE f.at = "link"
  BY <1>1, <1>7, LinkStep
<1>8. CASE f.at \in {"test", "clear", "start", "set", "again"} \/ (f.at = "init" /\ rate = 0)
  BY <1>1, <1>8, StartSteps
<1>9. CASE f.at = "init" /\ rate # 0
  BY <1>1, <1>9, InitStep
<1> QED
  BY <1>2, <1>3, <1>4, <1>5, <1>6, <1>7, <1>8, <1>9

\* What an interrupt has made of the profile p when its frame is g, and s is
\* the frame that it suspends.
Interrupted(p, q, g, s, n) ==
  /\ q \in Profiles /\ g \in McountFrame
  /\ \A i \in DOMAIN p.histograms : i \in DOMAIN q.histograms /\ q.histograms[i] = p.histograms[i]
  /\ q.fate # "wild" =>
       /\ ProfSound(q) /\ (q.fate = "runs" => FrameSound(q, g)) /\ FrameSharp(q, g)
       /\ FrameSound(q, s) /\ Counted(q, s, IF g = Returned THEN n + 1 ELSE n)

LEMMA GoesOn ==
  ASSUME text_size \in Texts, NEW p, NEW t, NEW s \in McountFrame, NEW n \in Nat,
         Interrupted(p, t[1], t[2], s, n)
  PROVE  Interrupted(p, Goes(t)[1], Goes(t)[2], s, n)
<1> DEFINE q == t[1]
           g == t[2]
<1>1. CASE q.fate # "runs"
  <2>1. Goes(t) = t
    BY <1>1 DEF Goes
  <2> QED
    BY <2>1
<1>2. CASE q.fate = "runs" /\ g = Returned
  <2>1. Goes(t) = McountStep(q, g)
    BY <1>2 DEF Goes
  <2>2. McountStep(q, Returned) = <<q, Returned>>
    BY DEF McountStep, Returned
  <2>3. Goes(t)[1] = q /\ Goes(t)[2] = g
    <3> HIDE DEF q, g
    <3> QED
      BY <1>2, <2>1, <2>2, PairParts, Zenon
  <2> QED
    BY <2>3
<1>3. CASE q.fate = "runs" /\ g # Returned
  <2> DEFINE r == Goes(t)[1]
             h == Goes(t)[2]
  <2>1. Goes(t) = McountStep(q, g)
    BY <1>3 DEF Goes
  <2>2. /\ q \in Profiles /\ g \in McountFrame
        /\ \A i \in DOMAIN p.histograms : i \in DOMAIN q.histograms /\ q.histograms[i] = p.histograms[i]
        /\ ProfSound(q) /\ FrameSound(q, g) /\ FrameSharp(q, g) /\ FrameSound(q, s) /\ Counted(q, s, n)
    BY <1>3 DEF Interrupted
  <2> HIDE DEF q, g
  <2>3. StepIsSound(q, g, r, h)
    BY <1>3, <2>1, <2>2, EveryStep
  <2> HIDE DEF r, h
  <2>4. \A i \in DOMAIN p.histograms : i \in DOMAIN r.histograms /\ r.histograms[i] = p.histograms[i]
    BY <2>2, <2>3 DEF StepIsSound
  <2>5. Interrupted(p, r, h, s, n)
    BY <2>2, <2>3, <2>4 DEF StepIsSound, Interrupted
  <2> QED
    BY <2>5 DEF r, h
<1> QED
  BY <1>1, <1>2, <1>3

LEMMA InterruptCounts ==
  ASSUME text_size \in Texts, NEW p \in Profiles, p.fate = "runs", ProfSound(p),
         NEW s \in McountFrame, FrameSound(p, s), NEW n \in Nat, Counted(p, s, n), NEW c \in ProfCalls
  PROVE  LET q == mcount(p, c)
         IN  /\ q \in Profiles
             /\ \A i \in DOMAIN p.histograms :
                  i \in DOMAIN q.histograms /\ q.histograms[i] = p.histograms[i]
             /\ q.fate # "wild" => ProfSound(q) /\ FrameSound(q, s) /\ Counted(q, s, n + 1)
<1> DEFINE e == Entered(c)
<1>1. e \in Entries /\ e.at = "find fn" /\ e.fn = 0 /\ e # Returned
  BY DEF Entered, Entries, Returned
<1> HIDE DEF e
<1>2. FrameSound(p, e) /\ FrameSharp(p, e)
  BY <1>1 DEF FrameSound, FrameSharp, Unlinked
<1>3. Interrupted(p, p, e, s, n)
  BY <1>1, <1>2 DEF Interrupted, McountFrame
<1>4. ASSUME NEW t, Interrupted(p, t[1], t[2], s, n)
      PROVE  Interrupted(p, GoesFour(t)[1], GoesFour(t)[2], s, n)
  <2>1. Interrupted(p, Goes(t)[1], Goes(t)[2], s, n)
    BY <1>4, GoesOn
  <2>2. Interrupted(p, Goes(Goes(t))[1], Goes(Goes(t))[2], s, n)
    BY <2>1, GoesOn
  <2>3. Interrupted(p, Goes(Goes(Goes(t)))[1], Goes(Goes(Goes(t)))[2], s, n)
    BY <2>2, GoesOn
  <2>4. Interrupted(p, Goes(Goes(Goes(Goes(t))))[1], Goes(Goes(Goes(Goes(t))))[2], s, n)
    BY <2>3, GoesOn
  <2> QED
    BY <2>4 DEF GoesFour
<1> DEFINE t == GoesFour(GoesFour(<<p, e>>))
<1>5. Interrupted(p, t[1], t[2], s, n)
  <2>1. Interrupted(p, <<p, e>>[1], <<p, e>>[2], s, n)
    BY <1>3
  <2>2. Interrupted(p, GoesFour(<<p, e>>)[1], GoesFour(<<p, e>>)[2], s, n)
    BY <1>4, <2>1
  <2> QED
    BY <1>4, <2>2
<1>6. mcount(p, c) = t[1]
  BY DEF mcount, e
<1> HIDE DEF t
<1> DEFINE q == t[1]
<1> HIDE DEF q
<1>7. Interrupted(p, q, t[2], s, n)
  BY <1>5 DEF q
<1>8. ASSUME q.fate # "wild" PROVE Counted(q, s, n + 1)
  <2>1. q \in Profiles /\ Graph(q) /\ Counted(q, s, IF t[2] = Returned THEN n + 1 ELSE n)
    BY <1>7, <1>8 DEF Interrupted, ProfSound
  <2>2. Counted(q, s, n) => Counted(q, s, n + 1)
    BY <2>1, LosesMore
  <2> QED
    BY <2>1, <2>2
<1> QED
  BY <1>6, <1>7, <1>8 DEF Interrupted, q

-----------------------------------------------------------------------------
LEMMA NextProfile ==
  ASSUME NEW q \in Profiles, Becomes(q)
  PROVE  Profile' = q
<1>1. q = [heap_end |-> q.heap_end, stack_limit |-> q.stack_limit, slab |-> q.slab, fns |-> q.fns,
           arcs |-> q.arcs, need_init |-> q.need_init, histograms |-> q.histograms,
           starts |-> q.starts, fate |-> q.fate, made |-> q.made]
  BY DEF Profiles
<1> QED
  BY <1>1 DEF Becomes, Profile

\* What has been said of a profile q is said of the next state, if it is the
\* profile there and the program has no new block.
LEMMA NextGraph ==
  ASSUME NEW q, Profile' = q
  PROVE  /\ Graph(q) => Graph(Profile)'
         /\ \A s : FrameSound(q, s) /\ s = frame' => FrameSound(Profile, frame)'
         /\ \A s, n : Counted(q, s, n) /\ s = frame' /\ n = samples' => Counted(Profile, frame, samples)'
<1>1. Graph(q) => Graph(Profile)'
  BY DEF Graph, AtMostTwo, Marks, Copies
<1>2. \A s : FrameSound(q, s) /\ s = frame' => FrameSound(Profile, frame)'
  BY DEF FrameSound, Listed, AtMostOne
<1>3. \A s, n : Counted(q, s, n) /\ s = frame' /\ n = samples' => Counted(Profile, frame, samples)'
  <2>1. \A c : Recorded(Profile, c)' = Recorded(q, c)
    BY DEF Recorded, Marks, Copies
  <2> QED
    BY <2>1 DEF Counted
<1> QED
  BY <1>1, <1>2, <1>3

LEMMA NextSound ==
  ASSUME NEW q, Profile' = q, text_size' = text_size, mallocs' = mallocs
  PROVE  /\ ProfSound(q) => ProfSound(Profile)'
         /\ \A s : FrameSound(q, s) /\ s = frame' => FrameSound(Profile, frame)'
         /\ \A s, n : Counted(q, s, n) /\ s = frame' /\ n = samples' => Counted(Profile, frame, samples)'
<1>1. Buckets' = Buckets
  BY DEF Buckets
<1>2. ProfBlocks(Profile)' = ProfBlocks(q)
  BY <1>1 DEF ProfBlocks, EntryBlocks, DataBlocks
<1>3. Placed(ProfBlocks(q), q) => Placed(ProfBlocks(Profile), Profile)'
  BY <1>2 DEF Placed, AnyBlock, Before
<1>4. LimitFollows(q) => LimitFollows(Profile)'
  BY <1>1 DEF LimitFollows, WholeWords
<1>5. ProfSound(q) => ProfSound(Profile)'
  BY <1>3, <1>4, NextGraph DEF ProfSound
<1> QED
  BY <1>5, NextGraph

LEMMA ProfInitHolds == ProfInit => ProfIndInv
<1> SUFFICES ASSUME ProfInit PROVE ProfIndInv
  OBVIOUS
<1> DEFINE p == Profile
<1>1. /\ p.heap_end = HEAP_START /\ p.stack_limit = HEAP_START /\ p.slab = [ptr |-> 0, size |-> 0]
      /\ p.fns = << >> /\ p.arcs = << >> /\ p.need_init = TRUE /\ p.histograms = << >>
      /\ p.starts = 0 /\ p.fate = "runs" /\ p.made = [c \in ProfCalls |-> 0]
      /\ mallocs = << >> /\ frame = Returned /\ samples = 0 /\ sampled = 0 /\ rate = 0
      /\ text_size \in Texts
  BY DEF ProfInit, Profile, ProfCalls
<1>2. ProfTypeOK
  <2>1. p \in Profiles
    <3>1. HEAP_START \in Nat
      BY Words
    <3>2. << >> \in Seq(FnEntry) /\ << >> \in Seq(ArcEntry) /\ << >> \in Seq(Nat)
      OBVIOUS
    <3>3. [c \in ProfCalls |-> 0] \in [ProfCalls -> Nat]
      OBVIOUS
    <3>4. p = [heap_end |-> HEAP_START, stack_limit |-> HEAP_START, slab |-> [ptr |-> 0, size |-> 0],
               fns |-> << >>, arcs |-> << >>, need_init |-> TRUE, histograms |-> << >>,
               starts |-> 0, fate |-> "runs", made |-> [c \in ProfCalls |-> 0]]
      BY DEF ProfInit, Profile, ProfCalls
    <3> HIDE DEF p
    <3> QED
      BY <3>1, <3>2, <3>3, <3>4 DEF Profiles
  <2> QED
    BY <1>1, <2>1 DEF ProfTypeOK, McountFrame
<1> HIDE DEF p
<1>3. ProfBlocks(p) = {}
  BY <1>1 DEF ProfBlocks, EntryBlocks, DataBlocks
<1>4. Placed(ProfBlocks(p), p)
  BY <1>1, <1>3, Words DEF Placed
<1>5. LimitFollows(p)
  BY <1>1, Words, ProfConstants DEF LimitFollows
<1>6. \A c \in ProfCalls : Copies(p, c) = {} /\ Marks(p, c) = {} /\ p.made[c] = 0
  BY <1>1 DEF Copies, Marks
<1>7. \A c \in ProfCalls : IsFiniteSet(Marks(p, c)) /\ Recorded(p, c) = 0
  BY <1>6, FS_EmptySet DEF Recorded
<1>8. Graph(p)
  BY <1>1, <1>6, <1>7 DEF Graph, AtMostTwo
<1>9. Counted(p, Returned, 0)
  BY <1>6, <1>7 DEF Counted
<1>10. SampleInHistogram
  BY <1>1 DEF SampleInHistogram
<1> QED
  BY <1>1, <1>2, <1>4, <1>5, <1>8, <1>9, <1>10, NothingPending DEF ProfIndInv, ProfSound, p

LEMMA CallHolds == ProfIndInv /\ CallFunction => ProfIndInv'
<1> SUFFICES ASSUME ProfIndInv, CallFunction PROVE ProfIndInv'
  OBVIOUS
<1>1. PICK c \in ThreadCalls : frame' = Entered(c)
  BY DEF CallFunction
<1>2. /\ Profile' = Profile /\ text_size' = text_size /\ mallocs' = mallocs /\ rate' = rate
      /\ samples' = samples /\ sampled' = sampled /\ histograms' = histograms /\ fate' = fate
      /\ frame = Returned /\ fate = "runs"
  BY DEF CallFunction, Profile, Live
<1> DEFINE e == Entered(c)
<1>3. e \in Entries /\ e.at = "find fn" /\ e.fn = 0
  BY DEF Entered, Entries, ProfCalls
<1> HIDE DEF e
<1>4. ProfTypeOK'
  BY <1>1, <1>2, <1>3 DEF ProfIndInv, ProfTypeOK, McountFrame, e
<1>5. ProfSound(Profile) /\ Counted(Profile, frame, samples) /\ SampleInHistogram
  BY <1>2 DEF ProfIndInv
<1>6. FrameSound(Profile, e)
  BY <1>3 DEF FrameSound, Unlinked
<1>7. Counted(Profile, e, samples)
  BY <1>3, <1>5, NothingPending
<1>8. ProfSound(Profile)' /\ FrameSound(Profile, frame)' /\ Counted(Profile, frame, samples)'
  BY <1>1, <1>2, <1>5, <1>6, <1>7, NextSound DEF e
<1>9. SampleInHistogram'
  BY <1>2, <1>5 DEF SampleInHistogram, Buckets
<1> QED
  BY <1>4, <1>8, <1>9 DEF ProfIndInv

\* The sample stays in the histogram it was counted in.
LEMMA SampleStays ==
  ASSUME SampleInHistogram, text_size' = text_size, sampled' = sampled,
         \A i \in DOMAIN histograms : i \in DOMAIN histograms' /\ histograms'[i] = histograms[i]
  PROVE  SampleInHistogram'
<1>1. Buckets' = Buckets
  BY DEF Buckets
<1> QED
  BY <1>1 DEF SampleInHistogram, Extent

LEMMA McountHolds == ProfIndInv /\ Mcount => ProfIndInv'
<1> SUFFICES ASSUME ProfIndInv, Mcount PROVE ProfIndInv'
  OBVIOUS
<1> DEFINE p == Profile
           q == McountStep(Profile, frame)[1]
           g == McountStep(Profile, frame)[2]
<1>1. /\ Becomes(q) /\ frame' = g /\ frame # Returned /\ fate = "runs"
      /\ text_size' = text_size /\ mallocs' = mallocs /\ rate' = rate
      /\ samples' = samples /\ sampled' = sampled
  BY DEF Mcount, Live
<1>2. /\ p \in Profiles /\ frame \in McountFrame /\ text_size \in Texts /\ samples \in Nat
      /\ p.fate = "runs" /\ ProfSound(p) /\ FrameSound(p, frame) /\ Counted(p, frame, samples)
      /\ SampleInHistogram
  BY <1>1 DEF ProfIndInv, ProfTypeOK, Profile
<1>3. StepIsSound(p, frame, q, g)
  BY <1>1, <1>2, EveryStep
<1> HIDE DEF q, g
<1>4. q \in Profiles /\ g \in McountFrame
  BY <1>3 DEF StepIsSound
<1>5. Profile' = q
  BY <1>1, <1>4, NextProfile
<1>6. ProfTypeOK'
  BY <1>1, <1>4, <1>5 DEF ProfIndInv, ProfTypeOK
<1>7. fate' = q.fate /\ histograms' = q.histograms /\ p.histograms = histograms
  BY <1>1 DEF Becomes, Profile
<1>8. q.fate # "wild" =>
        /\ ProfSound(q) /\ (q.fate = "runs" => FrameSound(q, g)) /\ Counted(q, g, samples)
  BY <1>2, <1>3 DEF StepIsSound
<1>9. \A i \in DOMAIN histograms : i \in DOMAIN histograms' /\ histograms'[i] = histograms[i]
  BY <1>3, <1>7 DEF StepIsSound
<1>10. SampleInHistogram'
  BY <1>1, <1>2, <1>9, SampleStays
<1> HIDE DEF p
<1>11. fate' # "wild" =>
         /\ ProfSound(Profile)' /\ (fate' = "runs" => FrameSound(Profile, frame)')
         /\ Counted(Profile, frame, samples)'
  BY <1>1, <1>5, <1>7, <1>8, NextSound
<1> QED
  BY <1>6, <1>10, <1>11 DEF ProfIndInv

LEMMA TickHolds == ProfIndInv /\ alt_sysclk_up => ProfIndInv'
<1> SUFFICES ASSUME ProfIndInv, alt_sysclk_up PROVE ProfIndInv'
  OBVIOUS
<1>1. /\ Profile' = Profile /\ text_size' = text_size /\ mallocs' = mallocs /\ rate' = 1
      /\ samples' = samples /\ sampled' = sampled /\ histograms' = histograms /\ fate' = fate
      /\ frame' = frame
  BY DEF alt_sysclk_up, Profile
<1>2. ProfTypeOK'
  BY <1>1 DEF ProfIndInv, ProfTypeOK
<1>3. SampleInHistogram => SampleInHistogram'
  BY <1>1 DEF SampleInHistogram, Buckets
<1>4. /\ ProfSound(Profile) => ProfSound(Profile)'
      /\ FrameSound(Profile, frame) => FrameSound(Profile, frame)'
      /\ Counted(Profile, frame, samples) => Counted(Profile, frame, samples)'
  BY <1>1, NextSound
<1> QED
  BY <1>1, <1>2, <1>3, <1>4 DEF ProfIndInv

LEMMA MallocHolds == ProfIndInv /\ Malloc => ProfIndInv'
<1> SUFFICES ASSUME ProfIndInv, Malloc PROVE ProfIndInv'
  OBVIOUS
<1> DEFINE p == Profile
<1>1. PICK n \in Mallocs :
        LET m == ALT_SBRK(p, n)
        IN  /\ Becomes(m.p)
            /\ mallocs' = IF m.block = NoMemory THEN mallocs
                          ELSE Append(mallocs, [block |-> m.block, size |-> n])
  BY DEF Malloc
<1> DEFINE m == ALT_SBRK(p, n)
           q == m.p
<1>2. /\ Becomes(q)
      /\ mallocs' = IF m.block = NoMemory THEN mallocs
                    ELSE Append(mallocs, [block |-> m.block, size |-> n])
      /\ mallocs = << >> /\ frame' = frame /\ fate = "runs" /\ frame = Returned
      /\ text_size' = text_size /\ rate' = rate /\ samples' = samples /\ sampled' = sampled
  BY <1>1 DEF Malloc, Live
<1>3. /\ p \in Profiles /\ frame \in McountFrame /\ text_size \in Texts /\ samples \in Nat
      /\ p.fate = "runs" /\ ProfSound(p) /\ FrameSound(p, frame) /\ Counted(p, frame, samples)
      /\ SampleInHistogram
  BY <1>2 DEF ProfIndInv, ProfTypeOK, Profile
<1>4. /\ q \in Profiles /\ SameLists(p, q) /\ q.slab = p.slab
      /\ p.heap_end <= q.heap_end
      /\ m.block # NoMemory =>
           m.block \in Nat /\ p.heap_end <= m.block /\ m.block + n <= q.heap_end
      /\ q.fate \in {p.fate, "overflow reported"}
      /\ LimitFollows(q)
  <2>1. n \in Nat
    BY ProfConstants
  <2>2. LimitFollows(p) /\ (WholeWords => n % 2 = 0)
    BY <1>3 DEF ProfSound, WholeWords
  <2> HIDE DEF p
  <2> QED
    BY <1>3, <2>1, <2>2, Sbrk
<1> HIDE DEF m, q
<1>5. Profile' = q /\ fate' = q.fate /\ histograms' = q.histograms /\ p.histograms = histograms
  BY <1>2, <1>4, NextProfile DEF Becomes, Profile
<1>6. SameEntries(p, q) /\ q.histograms = p.histograms
  BY <1>4 DEF SameLists, SameEntries
<1>7. Graph(q) /\ FrameSound(q, frame) /\ Counted(q, frame, samples)
  BY <1>3, <1>6, SameGraph DEF ProfSound
<1>8. SampleInHistogram'
  <2>1. histograms' = histograms
    BY <1>5, <1>6
  <2> QED
    BY <1>2, <1>3, <2>1 DEF SampleInHistogram, Buckets
<1> HIDE DEF p
<1>9. CASE m.block = NoMemory
  <2>1. mallocs' = mallocs
    BY <1>2, <1>9
  <2>2. ProfTypeOK'
    BY <1>2, <1>4, <1>5, <2>1 DEF ProfIndInv, ProfTypeOK
  <2>3. ProfBlocks(q) = ProfBlocks(p)
    BY <1>6, SameGraph DEF ProfBlocks, DataBlocks
  <2>4. Placed(ProfBlocks(q), q)
    BY <1>3, <1>4, <2>3, HeapGrows DEF ProfSound
  <2>5. ProfSound(q)
    BY <1>4, <1>7, <2>4 DEF ProfSound
  <2>6. ProfSound(Profile)' /\ FrameSound(Profile, frame)' /\ Counted(Profile, frame, samples)'
    BY <1>2, <1>5, <1>7, <2>1, <2>5, NextSound
  <2> QED
    BY <1>8, <2>2, <2>6 DEF ProfIndInv
<1>10. CASE m.block # NoMemory
  <2> DEFINE b == [block |-> m.block, size |-> n]
             t == <<"malloc", 1, m.block, n>>
  <2>1. mallocs' = <<b>>
    BY <1>2, <1>10
  <2>2. /\ m.block \in Nat /\ p.heap_end <= m.block /\ m.block + n <= q.heap_end /\ n \in Nat
    BY <1>4, <1>10, ProfConstants
  <2>3. mallocs' \in Seq([block : Nat, size : Mallocs])
    BY <2>1, <2>2
  <2>4. ProfTypeOK'
    BY <1>2, <1>4, <1>5, <2>3 DEF ProfIndInv, ProfTypeOK
  <2>5. ProfBlocks(Profile)' = ProfBlocks(p) \cup {t}
    <3>1. /\ EntryBlocks(q) = EntryBlocks(p) /\ q.histograms = p.histograms /\ Buckets' = Buckets
      BY <1>2, <1>6, SameGraph DEF Buckets
    <3>2. EntryBlocks(Profile)' = EntryBlocks(p)
      BY <1>5, <3>1 DEF EntryBlocks
    <3>3. {<<"malloc", i, mallocs'[i].block, mallocs'[i].size>> : i \in DOMAIN mallocs'} = {t}
      <4>1. DOMAIN mallocs' = {1} /\ mallocs'[1].block = m.block /\ mallocs'[1].size = n
        BY <2>1
      <4> QED
        BY <4>1
    <3>4. DataBlocks(Profile)' =
            {<<"histogram", i, p.histograms[i], Buckets>> : i \in DOMAIN p.histograms} \cup {t}
      BY <1>5, <3>1, <3>3 DEF DataBlocks
    <3>5. DataBlocks(p) = {<<"histogram", i, p.histograms[i], Buckets>> : i \in DOMAIN p.histograms}
      BY <1>2 DEF DataBlocks
    <3> HIDE DEF t
    <3> QED
      BY <3>2, <3>4, <3>5 DEF ProfBlocks
  <2>6. t \in AnyBlock /\ t[3] = m.block /\ t[4] = n
    BY <2>2 DEF AnyBlock
  <2> HIDE DEF t
  <2>7. Placed(ProfBlocks(p) \cup {t}, q)
    BY <1>3, <1>4, <2>2, <2>6, HeapAdds DEF ProfSound
  <2>8. Placed(ProfBlocks(Profile), Profile)'
    BY <1>5, <2>5, <2>7 DEF Placed, AnyBlock, Before
  <2>9. LimitFollows(Profile)'
    BY <1>2, <1>4, <1>5 DEF LimitFollows, WholeWords, Buckets
  <2>10. Graph(Profile)' /\ FrameSound(Profile, frame)' /\ Counted(Profile, frame, samples)'
    BY <1>2, <1>5, <1>7, NextGraph
  <2> QED
    BY <1>8, <2>4, <2>8, <2>9, <2>10 DEF ProfIndInv, ProfSound
<1> QED
  BY <1>9, <1>10

LEMMA BucketOf ==
  ASSUME NEW t \in Nat, NEW b \in Nat \ {0}, t % b = 0, NEW k \in 0 .. t - 1
  PROVE  k \div b \in 0 .. (t \div b) - 1
<1> DEFINE u == t \div b
           v == k \div b
           r == k % b
<1>1. u \in Nat /\ t = b * u + (t % b)
  BY Division
<1>2. k \in Nat /\ v \in Nat /\ r \in Nat /\ k = b * v + r
  <2>1. k \in Nat
    OBVIOUS
  <2>2. v \in Nat /\ r \in 0 .. b - 1 /\ k = b * v + r
    BY <2>1, Division
  <2> QED
    BY <2>1, <2>2
<1> HIDE DEF u, v, r
<1>3. b * u \in Nat /\ b * v \in Nat
  BY <1>1, <1>2
<1>4. \A x, y, z \in Nat : z = x + 0 /\ k = y + r /\ k < z => y < x
  BY <1>2
<1>5. b * v < b * u
  BY <1>1, <1>2, <1>3, <1>4
<1>6. \A x, y \in Nat : b * x < b * y => x < y
  <2> SUFFICES ASSUME NEW x \in Nat, NEW y \in Nat, ~ (x < y) PROVE ~ (b * x < b * y)
    OBVIOUS
  <2>1. x - y \in Nat /\ x = y + (x - y)
    OBVIOUS
  <2> DEFINE d == x - y
  <2> HIDE DEF d
  <2>2. b * (y + d) = b * y + b * d /\ b * d \in Nat /\ b * y \in Nat
    BY <2>1, Z3 DEF d
  <2>3. x = y + d
    BY <2>1 DEF d
  <2> QED
    BY <2>2, <2>3
<1>7. v < u
  BY <1>1, <1>2, <1>5, <1>6
<1> QED
  BY <1>1, <1>2, <1>7 DEF u, v

\* The sample of a text that divides into buckets goes into the histogram.
LEMMA SampleCounted ==
  ASSUME text_size \in Texts, NEW h \in Seq(Nat), h # << >>, histograms' = h, text_size' = text_size,
         NEW k \in 0 .. text_size - 1, sampled' = Last(h) + k \div BUCKET
  PROVE  SampleInHistogram' /\ sampled' \in Int
<1>1. text_size \in Nat /\ BUCKET \in Nat \ {0}
  BY ProfConstants
<1> DEFINE l == Len(h)
           b == h[l]
           v == k \div BUCKET
<1>2. l \in DOMAIN h /\ Last(h) = b /\ b \in Nat
  BY DEF Last
<1>3. k \in Nat
  OBVIOUS
<1>4. v \in Nat
  BY <1>1, <1>3, Division
<1>5. Buckets' = Buckets /\ Buckets \in Nat
  BY BucketsNat DEF Buckets
<1>6. ASSUME text_size % BUCKET = 0 PROVE v \in 0 .. Buckets - 1
  BY <1>1, <1>6, BucketOf DEF Buckets
<1> HIDE DEF b, l, v
<1>7. sampled' = b + v /\ sampled' \in Int
  BY <1>2, <1>4 DEF v
<1>8. text_size % BUCKET = 0 => sampled' \in b .. b + Buckets - 1
  BY <1>2, <1>4, <1>5, <1>6, <1>7
<1>9. (text_size % BUCKET = 0)' => text_size % BUCKET = 0
  OBVIOUS
<1>10. (text_size % BUCKET = 0)' => (sampled \in Extent(histograms[l], Buckets))'
  BY <1>5, <1>8, <1>9 DEF Extent, b
<1>11. l \in DOMAIN histograms'
  BY <1>2
<1> QED
  BY <1>7, <1>10, <1>11 DEF SampleInHistogram

LEMMA IrqHolds == ProfIndInv /\ ProfIrq => ProfIndInv'
<1> SUFFICES ASSUME ProfIndInv, ProfIrq PROVE ProfIndInv'
  OBVIOUS
<1>1. PICK c \in IrqCalls :
        LET p == mcount(Profile, c)
        IN  \/ Becomes(p) /\ UNCHANGED sampled
            \/ p.fate = "runs" /\ nios2_pcsample(p)
  BY DEF ProfIrq
<1> DEFINE p == Profile
           q == mcount(p, c)
<1>2. /\ fate = "runs" /\ samples' = samples + 1 /\ text_size' = text_size /\ rate' = rate
      /\ mallocs' = mallocs /\ frame' = frame
  BY DEF ProfIrq, Live
<1>3. /\ p \in Profiles /\ frame \in McountFrame /\ text_size \in Texts /\ samples \in Nat
      /\ p.fate = "runs" /\ ProfSound(p) /\ FrameSound(p, frame) /\ Counted(p, frame, samples)
      /\ SampleInHistogram /\ p.histograms = histograms /\ p.starts = starts /\ sampled \in Int
  BY <1>2 DEF ProfIndInv, ProfTypeOK, Profile
<1>4. \/ Becomes(q) /\ sampled' = sampled
      \/ q.fate = "runs" /\ nios2_pcsample(q)
  BY <1>1
<1> HIDE DEF q
<1>5. /\ q \in Profiles
      /\ \A i \in DOMAIN p.histograms : i \in DOMAIN q.histograms /\ q.histograms[i] = p.histograms[i]
      /\ q.fate # "wild" =>
           ProfSound(q) /\ FrameSound(q, frame) /\ Counted(q, frame, samples + 1)
  BY <1>3, InterruptCounts DEF q, ProfCalls
<1>6. ASSUME Becomes(q), sampled' \in Int, fate' # "wild" => SampleInHistogram'
      PROVE  ProfIndInv'
  <2>1. Profile' = q /\ fate' = q.fate
    BY <1>5, <1>6, NextProfile DEF Becomes
  <2>2. ProfTypeOK'
    BY <1>2, <1>5, <1>6, <2>1 DEF ProfIndInv, ProfTypeOK
  <2>3. fate' # "wild" =>
          ProfSound(Profile)' /\ FrameSound(Profile, frame)' /\ Counted(Profile, frame, samples)'
    BY <1>2, <1>5, <2>1, NextSound
  <2> QED
    BY <1>6, <2>2, <2>3 DEF ProfIndInv
<1>7. CASE Becomes(q) /\ sampled' = sampled
  <2>1. histograms' = q.histograms
    BY <1>7 DEF Becomes
  <2>2. \A i \in DOMAIN histograms : i \in DOMAIN histograms' /\ histograms'[i] = histograms[i]
    BY <1>3, <1>5, <2>1
  <2>3. SampleInHistogram'
    BY <1>2, <1>3, <1>7, <2>2, SampleStays
  <2> QED
    BY <1>3, <1>6, <1>7, <2>3
<1>8. CASE q.fate = "runs" /\ starts = 1 /\ Becomes(q)
           /\ \E k \in 0 .. text_size - 1 : sampled' = Last(q.histograms) + k \div BUCKET
  <2>1. PICK k \in 0 .. text_size - 1 : sampled' = Last(q.histograms) + k \div BUCKET
    BY <1>8
  <2>2. p.histograms # << >> /\ p.histograms \in Seq(Nat) /\ q.histograms \in Seq(Nat)
    <3>1. p.starts > 0
      BY <1>3, <1>8
    <3>2. p.histograms # << >>
      BY <1>3, <3>1 DEF ProfSound, Graph
    <3> QED
      BY <1>3, <1>5, <3>2, ProfileTypes
  <2>3. q.histograms # << >>
    <3>1. 1 \in DOMAIN p.histograms
      BY <2>2
    <3> QED
      BY <1>5, <3>1
  <2>4. histograms' = q.histograms
    BY <1>8 DEF Becomes
  <2>5. SampleInHistogram' /\ sampled' \in Int
    BY <1>2, <1>3, <2>1, <2>2, <2>3, <2>4, SampleCounted
  <2> QED
    BY <1>6, <1>8, <2>5
<1>9. CASE q.fate = "runs" /\ Becomes([q EXCEPT !.fate = "loops"]) /\ sampled' = sampled
  <2> DEFINE r == [q EXCEPT !.fate = "loops"]
  <2>1. /\ r \in Profiles /\ r.fate = "loops" /\ SameEntries(q, r) /\ r.histograms = q.histograms
        /\ r.heap_end = q.heap_end /\ r.stack_limit = q.stack_limit /\ r.slab = q.slab
    BY <1>5 DEF Profiles, SameEntries
  <2>2. Becomes(r)
    BY <1>9
  <2> HIDE DEF r
  <2>3. ProfSound(q) /\ Counted(q, frame, samples + 1)
    BY <1>5, <1>9
  <2>4. ProfBlocks(r) = ProfBlocks(q)
    BY <2>1, SameGraph DEF ProfBlocks, DataBlocks
  <2>5. Placed(ProfBlocks(r), r)
    BY <2>1, <2>3, <2>4, HeapStays DEF ProfSound
  <2>6. LimitFollows(r)
    <3>1. r.fate # "runs"
      BY <2>1
    <3> QED
      BY <2>1, <2>3, <3>1 DEF ProfSound, LimitFollows
  <2>7. ProfSound(r) /\ Counted(r, frame, samples + 1)
    BY <2>1, <2>3, <2>5, <2>6, SameGraph DEF ProfSound
  <2>8. Profile' = r /\ fate' = "loops" /\ histograms' = q.histograms
    BY <2>1, <2>2, NextProfile DEF Becomes
  <2>9. \A i \in DOMAIN histograms : i \in DOMAIN histograms' /\ histograms'[i] = histograms[i]
    BY <1>3, <1>5, <2>8
  <2>10. SampleInHistogram'
    BY <1>2, <1>3, <1>9, <2>9, SampleStays
  <2>11. ProfTypeOK'
    BY <1>2, <1>3, <1>9, <2>1, <2>8 DEF ProfIndInv, ProfTypeOK
  <2>12. ProfSound(Profile)' /\ Counted(Profile, frame, samples)'
    BY <1>2, <2>7, <2>8, NextSound
  <2> QED
    BY <2>8, <2>10, <2>11, <2>12 DEF ProfIndInv
<1> QED
  BY <1>4, <1>7, <1>8, <1>9 DEF nios2_pcsample

LEMMA ProfStepHolds == ProfIndInv /\ [ProfStep \/ ProfIrq]_profVars => ProfIndInv'
<1> SUFFICES ASSUME ProfIndInv, [ProfStep \/ ProfIrq]_profVars PROVE ProfIndInv'
  OBVIOUS
<1>1. CASE UNCHANGED profVars
  <2>1. /\ Profile' = Profile /\ text_size' = text_size /\ mallocs' = mallocs /\ rate' = rate
        /\ samples' = samples /\ sampled' = sampled /\ histograms' = histograms /\ fate' = fate
        /\ frame' = frame
    BY <1>1 DEF profVars, Profile
  <2>2. ProfTypeOK'
    BY <2>1 DEF ProfIndInv, ProfTypeOK
  <2>3. SampleInHistogram => SampleInHistogram'
    BY <2>1 DEF SampleInHistogram, Buckets
  <2>4. /\ ProfSound(Profile) => ProfSound(Profile)'
        /\ FrameSound(Profile, frame) => FrameSound(Profile, frame)'
        /\ Counted(Profile, frame, samples) => Counted(Profile, frame, samples)'
    BY <2>1, NextSound
  <2> QED
    BY <2>1, <2>2, <2>3, <2>4 DEF ProfIndInv
<1> QED
  BY <1>1, CallHolds, McountHolds, MallocHolds, TickHolds, IrqHolds DEF ProfStep

-----------------------------------------------------------------------------
LEMMA BlocksApart ==
  ASSUME NEW p \in Profiles, Placed(ProfBlocks(p), p)
  PROVE  Apart(p)
<1>1. \A b \in ProfBlocks(p) : b[3] \in Nat /\ b[4] \in Nat
  BY BlockTypes DEF Placed
<1>2. p.heap_end \in Nat
  BY DEF Profiles
<1>3. \A x, y \in Nat : HEAP_START <= x /\ x + y <= p.heap_end =>
                          Extent(x, y) \subseteq HEAP_START .. p.heap_end - 1
  BY <1>2, Words DEF Extent
<1>4. \A x, y, u, v \in Nat : x + y <= u \/ u + v <= x => Extent(x, y) \cap Extent(u, v) = {}
  BY DEF Extent
<1> SUFFICES ASSUME NEW b \in ProfBlocks(p)
             PROVE  /\ Extent(b[3], b[4]) \subseteq HEAP_START .. p.heap_end - 1
                    /\ \A d \in ProfBlocks(p) : b # d => Extent(b[3], b[4]) \cap Extent(d[3], d[4]) = {}
  BY DEF Apart, ProfBlocks
<1>5. HEAP_START <= b[3] /\ b[3] + b[4] <= p.heap_end
  BY DEF Placed
<1>6. \A d \in ProfBlocks(p) : b # d => b[3] + b[4] <= d[3] \/ d[3] + d[4] <= b[3]
  BY DEF Placed, Before
<1> QED
  BY <1>1, <1>3, <1>4, <1>5, <1>6

LEMMA ProfFollows == ProfIndInv => ProfileInv
<1> SUFFICES ASSUME ProfIndInv, fate # "wild" PROVE ProfileInv
  BY DEF ProfileInv
<1> DEFINE p == Profile
<1>1. /\ p \in Profiles /\ Placed(ProfBlocks(p), p) /\ LimitFollows(p) /\ Graph(p)
      /\ Counted(p, frame, samples) /\ SampleInHistogram
      /\ text_size \in Texts /\ sampled \in Int
      /\ p.fns = fns /\ p.made = made /\ p.stack_limit = stack_limit /\ p.heap_end = heap_end
      /\ p.fate = fate /\ p.histograms = histograms
  BY DEF ProfIndInv, ProfTypeOK, ProfSound, Profile
<1> HIDE DEF p
<1>2. Apart(p)
  BY <1>1, BlocksApart
<1>3. DOMAIN made = ProfCalls
  BY <1>1 DEF Profiles
<1>4. \A c \in DOMAIN made :
        /\ Recorded(p, c) <= made[c] /\ made[c] <= Recorded(p, c) + samples
        /\ made[c] > 0 => Copies(p, c) # {}
  BY <1>1, <1>3 DEF Counted, Graph
<1>5. \A i, j, k \in DOMAIN fns : fns[i].self = fns[j].self /\ fns[j].self = fns[k].self =>
                                    i = j \/ j = k \/ i = k
  BY <1>1 DEF Graph, AtMostTwo
<1>6. ASSUME text_size % BUCKET = 0, NEW b \in EntryBlocks(p), sampled \in Extent(b[3], b[4])
      PROVE  FALSE
  <2>1. Extent(b[3], b[4]) \subseteq HEAP_START .. p.heap_end - 1
    BY <1>2, <1>6 DEF Apart
  <2>2. sampled # 0
    BY <1>6, <2>1, Words
  <2>3. PICK i \in DOMAIN histograms : sampled \in Extent(histograms[i], Buckets)
    BY <1>1, <1>6, <2>2 DEF SampleInHistogram
  <2> DEFINE d == <<"histogram", i, p.histograms[i], Buckets>>
  <2>4. d \in DataBlocks(p) /\ d[3] = histograms[i] /\ d[4] = Buckets /\ d[1] = "histogram"
    BY <1>1 DEF DataBlocks
  <2>5. b[1] # "histogram"
    BY <1>6 DEF EntryBlocks
  <2> HIDE DEF d
  <2>6. Extent(b[3], b[4]) \cap Extent(d[3], d[4]) = {}
    BY <1>2, <1>6, <2>4, <2>5 DEF Apart
  <2> QED
    BY <1>6, <2>3, <2>4, <2>6
<1>7. Buckets % 2 = 0 /\ (\A n \in Mallocs : n % 2 = 0) =>
        stack_limit = heap_end /\ (fate = "runs" => heap_end < STACK)
  BY <1>1 DEF LimitFollows, WholeWords
<1> QED
  BY <1>2, <1>4, <1>5, <1>6, <1>7 DEF ProfileInv, p

-----------------------------------------------------------------------------
(* The program.  A step of it is a step of the boot or leaves it alone; so *)
(* for the table, for the memory and for the busy loop.                    *)
LEMMA StepOfBoot == [Next]_vars => [BootNext]_bootVars
<1> SUFFICES ASSUME [Next]_vars PROVE [BootNext]_bootVars
  OBVIOUS
<1>1. CASE UNCHANGED vars
  BY <1>1 DEF vars
<1>2. CASE Loads \/ Types \/ Takes \/ Spins \/ Interrupts
  BY <1>2 DEF Loads, Types, Takes, Spins, Interrupts, Runs, vars, BootNext, BootStep
<1>3. CASE Boots \/ Finishes
  BY <1>3 DEF Boots, Registers, Redirects, Finishes, BootNext, BootStep
<1>4. CASE RunsRadio \/ RunsLogging \/ RunsMemory \/ RunsProfiled \/ RunsSleeping \/ RunsFiles
  BY <1>4 DEF RunsRadio, RunsLogging, RunsMemory, RunsProfiled, RunsSleeping, RunsFiles, Runs
<1> QED
  BY <1>1, <1>2, <1>3, <1>4 DEF Next, Progress

LEMMA StepOfTable == [Next]_vars => [FdNext]_fdVars
<1> SUFFICES ASSUME [Next]_vars PROVE [FdNext]_fdVars
  OBVIOUS
<1>1. CASE UNCHANGED vars
  BY <1>1 DEF vars, fdVars
<1>2. CASE Loads \/ Finishes \/ Types \/ Takes \/ Spins \/ Interrupts
  BY <1>2 DEF Loads, Finishes, Types, Takes, Spins, Interrupts, AllButBoot, fdVars, vars
<1>3. CASE Boots
  BY <1>3 DEF Boots, AllButBoot, Registers, Redirects, FdNext, fdVars
<1>4. CASE RunsRadio \/ RunsLogging \/ RunsMemory \/ RunsProfiled \/ RunsSleeping \/ RunsFiles
  BY <1>4 DEF RunsRadio, RunsLogging, RunsMemory, RunsProfiled, RunsSleeping, RunsFiles, FdNext, fdVars
<1> QED
  BY <1>1, <1>2, <1>3, <1>4 DEF Next, Progress

LEMMA StepOfMemory == [Next]_vars => [MemLoad \/ MemMain]_memVars
<1> SUFFICES ASSUME [Next]_vars PROVE [MemLoad \/ MemMain]_memVars
  OBVIOUS
<1>1. CASE UNCHANGED vars
  BY <1>1 DEF vars
<1>2. CASE Loads \/ Finishes \/ Types \/ Takes \/ Spins \/ Interrupts
  BY <1>2 DEF Loads, Finishes, Types, Takes, Spins, Interrupts, AllButBoot, ButFiles, vars
<1>3. CASE Boots
  BY <1>3 DEF Boots, AllButBoot, Registers, Redirects, ButFiles
<1>4. CASE RunsRadio \/ RunsLogging \/ RunsMemory \/ RunsProfiled \/ RunsSleeping \/ RunsFiles
  BY <1>4 DEF RunsRadio, RunsLogging, RunsMemory, RunsProfiled, RunsSleeping, RunsFiles, ButFiles
<1> QED
  BY <1>1, <1>2, <1>3, <1>4 DEF Next, Progress

LEMMA StepOfProfiler == [Next]_vars => [ProfStep \/ ProfIrq]_profVars
<1> SUFFICES ASSUME [Next]_vars PROVE [ProfStep \/ ProfIrq]_profVars
  OBVIOUS
<1>1. CASE UNCHANGED vars
  BY <1>1 DEF vars
<1>2. CASE Loads \/ Finishes \/ Types \/ Takes \/ Spins \/ Interrupts
  BY <1>2 DEF Loads, Finishes, Types, Takes, Spins, Interrupts, AllButBoot, ButFiles, vars
<1>3. CASE Boots
  BY <1>3 DEF Boots, AllButBoot, Registers, Redirects, ButFiles
<1>4. CASE RunsRadio \/ RunsLogging \/ RunsMemory \/ RunsProfiled \/ RunsSleeping \/ RunsFiles
  BY <1>4 DEF RunsRadio, RunsLogging, RunsMemory, RunsProfiled, RunsSleeping, RunsFiles, ButFiles
<1> QED
  BY <1>1, <1>2, <1>3, <1>4 DEF Next, Progress

LEMMA StepOfSleep == [Next]_vars => [ALT_USLEEP]_sleepVars
<1> SUFFICES ASSUME [Next]_vars PROVE [ALT_USLEEP]_sleepVars
  OBVIOUS
<1>1. CASE UNCHANGED vars
  BY <1>1 DEF vars
<1>2. CASE Loads \/ Finishes \/ Types \/ Takes \/ Spins \/ Interrupts
  BY <1>2 DEF Loads, Finishes, Types, Takes, Spins, Interrupts, AllButBoot, ButFiles, vars
<1>3. CASE Boots
  BY <1>3 DEF Boots, AllButBoot, Registers, Redirects, ButFiles
<1>4. CASE RunsRadio \/ RunsLogging \/ RunsMemory \/ RunsProfiled \/ RunsSleeping \/ RunsFiles
  BY <1>4 DEF RunsRadio, RunsLogging, RunsMemory, RunsProfiled, RunsSleeping, RunsFiles, ButFiles
<1> QED
  BY <1>1, <1>2, <1>3, <1>4 DEF Next, Progress

(* What main() is stays what it is.                                        *)
LEMMA StepOfImage == [Next]_vars => image' = image
BY DEF Next, Progress, Loads, Boots, Registers, Redirects, Finishes, Interrupts, Types, Takes,
       Spins, Runs, RunsRadio, RunsLogging, RunsMemory, RunsProfiled, RunsSleeping, RunsFiles,
       AllButBoot, vars

LEMMA StepOfRadio ==
  image = "radio" /\ [Next]_vars => [SdrStep \/ SdrHostType \/ SdrHostTake]_<<jtagVars, sdrVars>>
<1> SUFFICES ASSUME image = "radio", [Next]_vars
             PROVE  [SdrStep \/ SdrHostType \/ SdrHostTake]_<<jtagVars, sdrVars>>
  OBVIOUS
<1>1. CASE UNCHANGED vars
  BY <1>1 DEF vars
<1>2. CASE Loads \/ Finishes \/ Types \/ Spins
  BY <1>2 DEF Loads, Finishes, Types, Spins, Runs, AllButBoot, ButFiles, vars
<1>3. CASE Boots
  BY <1>3 DEF Boots, AllButBoot, Registers, Redirects, ButFiles
<1>4. CASE RunsRadio \/ RunsLogging \/ RunsMemory \/ RunsProfiled \/ RunsSleeping \/ RunsFiles
  BY <1>4 DEF RunsRadio, RunsLogging, RunsMemory, RunsProfiled, RunsSleeping, RunsFiles, Runs, ButFiles
<1>5. CASE Interrupts \/ Takes
  BY <1>5 DEF Interrupts, Takes, Runs
<1> QED
  BY <1>1, <1>2, <1>3, <1>4, <1>5 DEF Next, Progress

LEMMA StepOfLogging ==
  image = "logging" /\ [Next]_vars => [LogStep \/ LogIrq \/ LogHostTake]_<<jtagVars, logVars>>
<1> SUFFICES ASSUME image = "logging", [Next]_vars
             PROVE  [LogStep \/ LogIrq \/ LogHostTake]_<<jtagVars, logVars>>
  OBVIOUS
<1>1. CASE UNCHANGED vars
  BY <1>1 DEF vars
<1>2. CASE Loads \/ Finishes \/ Types \/ Spins
  BY <1>2 DEF Loads, Finishes, Types, Spins, Runs, AllButBoot, ButFiles, vars
<1>3. CASE Boots
  BY <1>3 DEF Boots, AllButBoot, Registers, Redirects, ButFiles
<1>4. CASE RunsRadio \/ RunsLogging \/ RunsMemory \/ RunsProfiled \/ RunsSleeping \/ RunsFiles
  BY <1>4 DEF RunsRadio, RunsLogging, RunsMemory, RunsProfiled, RunsSleeping, RunsFiles, Runs, ButFiles
<1>5. CASE Interrupts \/ Takes
  BY <1>5 DEF Interrupts, Takes, Runs
<1> QED
  BY <1>1, <1>2, <1>3, <1>4, <1>5 DEF Next, Progress

(* Any image boots and ends as the boot alone does (Boot), and uses the    *)
(* descriptors as the table alone is used (FdTable).                       *)
THEOREM ProgramBoots == Spec => BootSpec
<1>1. Init => BootInit
  BY DEF Init
<1> QED
  BY <1>1, StepOfBoot, PTL DEF Spec, BootSpec

THEOREM ProgramHasTable == Spec => FdSpec
<1>1. Init => FdInit
  BY DEF Init
<1> QED
  BY <1>1, StepOfTable, PTL DEF Spec, FdSpec

(* alt_main.c, alt_do_ctors.c and alt_do_dtors.c, in every image and build *)
(* and for any number of static objects: main() runs when everything is    *)
(* up, and no object is constructed or destroyed twice or destroyed        *)
(* unconstructed, whatever ends the program.                               *)
THEOREM BootIsSound == Spec => []BootInv
  BY ProgramBoots, BootInitHolds, BootStepHolds, BootImplied, PTL DEF BootSpec

(* alt_get_fd.c, alt_release_fd.c, open(), close() and the other calls,    *)
(* for a table of any size and any devices: an entry is in use exactly     *)
(* when the table says so, and alt_max_fd covers what is in use.           *)
THEOREM PoolConsistent == Spec => []PoolInv
  BY ProgramHasTable, InitPool, StepPool, PoolFollows, PTL DEF FdSpec

(* alt_fd_lock.c against open(): while a descriptor has a device locked, no *)
(* other comes to refer to it, although the two look for the lock in       *)
(* different ranges of the table.                                          *)
THEOREM LockHolds == Spec => LockKeepsOthersOut
  BY ProgramHasTable, InitPool, StepPool, StepLock, PTL DEF FdSpec, LockKeepsOthersOut

(* alt_load.c, the flushes of the caches, the uncached heap and the flash, *)
(* for every size of the caches and of their lines and every layout of the *)
(* sections: see MemInv.                                                   *)
THEOREM MemorySound == Spec => []MemInv
<1>1. Init => MemIndInv
  BY MemInitHolds DEF Init
<1> QED
  BY <1>1, StepOfMemory, MemStepHolds, MemFollows, PTL DEF Spec

(* alt_remap_uncached.c and alt_uncached_malloc.c: no line of a block that *)
(* is handed out uncached is left in the data cache.                       *)
THEOREM UncachedAtOnce == Spec => BlockLeavesCache
<1>1. Init => MemIndInv
  BY MemInitHolds DEF Init
<1> QED
  BY <1>1, StepOfMemory, MemStepHolds, MemStepLeaves, PTL DEF Spec, BlockLeavesCache

(* alt_gmon.c, alt_mcount.S and alt_sbrk.c, for any arcs of the program    *)
(* and of its interrupts, any heap, slab and text, and interrupts between  *)
(* any two steps of mcount(): see ProfileInv.                              *)
THEOREM ProfilerSound == Spec => []ProfileInv
<1>1. Init => ProfIndInv
  BY ProfInitHolds DEF Init
<1> QED
  BY <1>1, StepOfProfiler, ProfStepHolds, ProfFollows, PTL DEF Spec

(* sdr.c, for any settings, any keys and any depth of the FIFO: whenever   *)
(* main() waits for a key the registers hold the settings, and the console *)
(* and what is on its way there read back as those settings, digit by      *)
(* digit: see SdrInv.                                                      *)
THEOREM RadioSound == Spec => []RadioInv
<1> DEFINE Inv == image = "radio" => RadioIndInv
<1>1. Init => Inv
  BY RadioInitHolds DEF Init
<1>2. Inv /\ [Next]_vars => Inv'
  BY StepOfRadio, StepOfImage, RadioStepHolds, Zenon
<1>3. Inv => RadioInv
  BY RadioFollows DEF RadioInv
<1> QED
  BY <1>1, <1>2, <1>3, PTL DEF Spec

(* alt_log_printf.c, for any formats with one conversion and any arguments *)
(* that fit a word: a macro's line goes out as the format with its number, *)
(* the number reads back as the argument, the two printf functions agree   *)
(* on "%x", and what goes out is, line by line, what the sources wrote     *)
(* (see LoggingInv).                                                       *)
THEOREM LoggingSound == Spec => []LoggingInv
<1> DEFINE Inv == image = "logging" => LogIndInv
<1>1. Init => Inv
  BY LogStarts DEF Init
<1>2. Inv /\ [Next]_vars => Inv'
  BY StepOfLogging, StepOfImage, LogStepHolds, Zenon
<1>3. Inv => LoggingInv
  BY LogFollows, FormatsAreRendered, PrintfsDoAgree DEF LoggingInv, LogInv
<1> QED
  BY <1>1, <1>2, <1>3, PTL DEF Spec

(* alt_busy_sleep.c, for a processor of any speed whose loop counter the   *)
(* compiler loads again for every big loop: usleep() turns its loop as     *)
(* often as it should.                                                     *)
THEOREM SleepLongEnough == RELOADS => (Spec => []SleepsAsAsked)
<1> SUFFICES ASSUME RELOADS PROVE Spec => []SleepsAsAsked
  OBVIOUS
<1>1. Init => SleepsAsAsked
  BY SleepInitHolds DEF Init
<1>2. SleepsAsAsked /\ [Next]_vars => SleepsAsAsked'
  BY StepOfSleep, SleepStepHolds
<1> QED
  BY <1>1, <1>2, PTL DEF Spec
=============================================================================
