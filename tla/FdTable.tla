------------------------------ MODULE FdTable -------------------------------
(***************************************************************************)
(* The file descriptors of the HAL (HAL/src/alt_dev.c, alt_open.c,         *)
(* alt_close.c, alt_get_fd.c, alt_fd_lock.c, alt_io_redirect.c and the     *)
(* calls that take a descriptor): a pool of ALT_MAX_FD entries, the first  *)
(* three of them reserved, over lists of registered devices and file       *)
(* systems.                                                                *)
(*                                                                         *)
(* The BSP has one thread (its semaphores are empty macros) and no         *)
(* interrupt handler calls these functions, so a call is one step.  What   *)
(* a call does to the table is a function on records, because the calls    *)
(* use each other: stat() opens and closes, the redirection opens.  The    *)
(* drivers are external: a callback a node provides may succeed or fail.   *)
(***************************************************************************)
EXTENDS Integers, FiniteSets, SequencesExt

CONSTANTS ALT_MAX_FD,   \* 4 in system.h
          Nodes,        \* what drivers register: devices, file systems, channels
          List,         \* the list a node is registered in
          Name,         \* its name as a sequence of path components, or NoName
          NoName,
          SysInit,      \* the order in which alt_sys_init registers the nodes
          Provides,     \* the callbacks a node implements
          Paths,        \* the names the program opens
          OpenFlags,    \* the flag sets it passes
          StdPath,      \* the names of stdin, stdout and stderr in system.h
          NoDev         \* a null device pointer

ASSUME SizeAssumption == ALT_MAX_FD \in Nat /\ ALT_MAX_FD >= 3
ASSUME SysInitAssumption == SysInit \in Seq(Nodes)
ASSUME NodesAssumption ==
  /\ NoDev \notin Nodes
  /\ List \in [Nodes -> {"dev", "fs", "txchan", "rxchan"}]
  /\ \E d \in Nodes : Name[d] = <<"dev", "null">>   \* linked in by alt_dev.c
  /\ \A d \in Nodes : Name[d] = <<"dev", "null">> => List[d] = "dev"
ASSUME FlagsAssumption ==
  OpenFlags \subseteq SUBSET {"O_WRONLY", "O_RDWR", "O_NONBLOCK", "O_APPEND", "EXCL", "DEV"}

VARIABLES alt_fd_list,
          alt_max_fd,   \* the highest descriptor ever allocated
          lists,        \* the registered nodes of each kind, newest first
          registered,   \* how many of SysInit are
          booted,       \* alt_sys_init and the redirection are done
          opened        \* history: the descriptors a driver has been asked to
                        \* open and not to close

fdVars == <<alt_fd_list, alt_max_fd, lists, registered, booted, opened>>

Fd       == 0 .. ALT_MAX_FD - 1
Std      == 0 .. 2
Kinds    == {"dev", "fs", "txchan", "rxchan"}
Flag     == {"O_WRONLY", "O_RDWR", "O_NONBLOCK", "O_APPEND", "EXCL", "DEV"}
ALT_FD_FLAGS_MASK == {"EXCL", "DEV"}
ALT_FCNTL_FLAGS_MASK == {"O_NONBLOCK", "O_APPEND"}

alt_dev_null == CHOOSE d \in Nodes : Name[d] = <<"dev", "null">>

FdInit ==
  /\ alt_fd_list = [f \in Fd |-> [dev |-> IF f \in Std THEN alt_dev_null ELSE NoDev,
                                  fd_flags |-> {}]]
  /\ alt_max_fd = -1
  /\ lists = [k \in Kinds |-> IF k = "dev" THEN <<alt_dev_null>> ELSE << >>]
  /\ registered = 0
  /\ booted = FALSE
  /\ opened = {}

-----------------------------------------------------------------------------
(* Lookup by name.  The first match wins, so the newest node does.         *)
FirstMatch(kind, named) ==
  LET hits == {i \in DOMAIN lists[kind] : lists[kind][i] \in named}
  IN  IF hits = {} THEN NoDev ELSE lists[kind][CHOOSE i \in hits : \A j \in hits : i <= j]

alt_find_dev(path, kind) == FirstMatch(kind, {d \in Nodes : Name[d] = path})
alt_find_file(path)      == FirstMatch("fs", {d \in Nodes : IsPrefix(Name[d], path)})

-----------------------------------------------------------------------------
(* The calls on a table s, a record of the variables they change and of    *)
(* what the program is told: the result of the call and errno, which no    *)
(* call reads.                                                             *)
Table == [list |-> alt_fd_list, max |-> alt_max_fd, opened |-> opened,
          rc |-> -1, errno |-> "none"]

Update(s) ==
  /\ alt_fd_list' = s.list
  /\ alt_max_fd' = s.max
  /\ opened' = s.opened

Fail(s, e) == [s EXCEPT !.errno = e, !.rc = -1]

FreeFds(s) == {f \in Fd : s.list[f].dev = NoDev}
Lowest(S) == CHOOSE f \in S : \A g \in S : f <= g

alt_release_fd_dirty(s, f) ==   \* mutant: leaves the flags, a lock among them
  IF f > 2 THEN [s EXCEPT !.list[f].dev = NoDev] ELSE s

alt_release_fd(s, f) ==
  IF f > 2 THEN [s EXCEPT !.list[f] = [dev |-> NoDev, fd_flags |-> {}]] ELSE s

alt_get_fd(s, d) ==
  LET f == Lowest(FreeFds(s))
  IN  [s EXCEPT !.list[f].dev = d, !.max = IF f > @ THEN f ELSE @]

alt_file_locked_short(s, f) ==   \* mutant: stops one short, as alt_fd_lock does
  \E i \in 0 .. s.max - 1 :
    s.list[i].dev = s.list[f].dev /\ "EXCL" \in s.list[i].fd_flags /\ i # f

alt_file_locked(s, f) ==
  \E i \in 0 .. s.max :
    s.list[i].dev = s.list[f].dev /\ "EXCL" \in s.list[i].fd_flags /\ i # f

\* ok: whether the driver's open callback succeeds.
ALT_OPEN(s, path, flags, ok) ==
  LET device == alt_find_dev(path, "dev")
      d      == IF device # NoDev THEN device ELSE alt_find_file(path)
      f      == Lowest(FreeFds(s))
      got    == [alt_get_fd(s, d) EXCEPT
                   !.list[f].fd_flags = (flags \ ALT_FD_FLAGS_MASK)
                     \cup IF device # NoDev THEN {"DEV"} ELSE {}]
  IN  IF d = NoDev THEN Fail(s, "ENODEV")
      ELSE IF FreeFds(s) = {} THEN Fail(s, "EMFILE")
      ELSE IF device # NoDev /\ alt_file_locked(got, f)
        THEN Fail(alt_release_fd(got, f), "EACCES")
      ELSE IF "open" \in Provides[d] /\ ~ ok
        THEN Fail(alt_release_fd(got, f), "EIO")
      ELSE [got EXCEPT !.opened = @ \cup {f}, !.rc = f]

ALT_CLOSE(s, f, ok) ==
  LET closed == alt_release_fd([s EXCEPT !.opened = @ \ {f}, !.rc = 0], f)
  IN  IF f < 0 THEN Fail(s, "EBADFD")
      ELSE IF "close" \in Provides[s.list[f].dev] /\ ~ ok THEN Fail(closed, "EIO")
      ELSE closed

\* The copy takes the place of the descriptor the driver was asked to open.
alt_open_fd(s, f, path, flags, ok) ==
  LET o == ALT_OPEN(s, path, flags, ok)
  IN  IF o.rc < 0 THEN o
      ELSE alt_release_fd([o EXCEPT !.list[f] = o.list[o.rc],
                                    !.opened = (@ \ {o.rc}) \cup {f}], o.rc)

ALT_FSTAT(s, f) == IF f < 0 THEN Fail(s, "EBADFD") ELSE [s EXCEPT !.rc = 0]

ALT_STAT(s, path, ok) ==
  LET o == ALT_OPEN(s, path, {}, ok[1])
  IN  ALT_CLOSE(ALT_FSTAT(o, o.rc), o.rc, ok[2])

\* Neither the caller nor, one short, the highest descriptor is looked at.
alt_fd_lock(s, f) ==
  IF \E i \in 0 .. s.max - 1 : i # f /\ s.list[i].dev = s.list[f].dev
    THEN Fail(s, "EACCES")
    ELSE [s EXCEPT !.list[f].fd_flags = @ \cup {"EXCL"}, !.rc = 0]

alt_fd_unlock(s, f) == [s EXCEPT !.list[f].fd_flags = @ \ {"EXCL"}, !.rc = 0]

Driver(s, f, op, ok, missing) ==   \* vector a call to the driver
  IF op \notin Provides[s.list[f].dev] THEN Fail(s, missing)
  ELSE IF ok THEN [s EXCEPT !.rc = 0] ELSE Fail(s, "EIO")

ALT_READ(s, f, ok) ==
  IF f < 0 THEN Fail(s, "EBADFD")
  ELSE IF "O_WRONLY" \in s.list[f].fd_flags THEN Fail(s, "EACCES")
  ELSE Driver(s, f, "read", ok, "EACCES")

ALT_WRITE(s, f, ok) ==
  IF f < 0 THEN Fail(s, "EBADFD")
  ELSE IF s.list[f].fd_flags \cap {"O_WRONLY", "O_RDWR"} = {} THEN Fail(s, "EACCES")
  ELSE Driver(s, f, "write", ok, "EACCES")

ALT_LSEEK(s, f, ok) ==
  IF f < 0 THEN Fail(s, "EBADFD") ELSE Driver(s, f, "lseek", ok, "ENOTSUP")

ALT_IOCTL(s, f, req, ok) ==
  IF f < 0 THEN Fail(s, "EBADFD")
  ELSE IF "DEV" \in s.list[f].fd_flags /\ req = "TIOCEXCL" THEN alt_fd_lock(s, f)
  ELSE IF "DEV" \in s.list[f].fd_flags /\ req = "TIOCNXCL" THEN alt_fd_unlock(s, f)
  ELSE Driver(s, f, "ioctl", ok, "ENOTTY")

\* cmd: "F_GETFL", "F_SETFL" with the flags, or one it does not know.
ALT_FCNTL(s, f, cmd, flags) ==
  IF f < 0 THEN Fail(s, "EBADFD")
  ELSE CASE cmd = "F_GETFL" -> [s EXCEPT !.rc = 0]
         [] cmd = "F_SETFL" ->
              [s EXCEPT !.list[f].fd_flags = (@ \ ALT_FCNTL_FLAGS_MASK)
                          \cup (flags \cap ALT_FCNTL_FLAGS_MASK), !.rc = 0]
         [] OTHER -> Fail(s, "EINVAL")

ALT_ISATTY(s, f) == IF f < 0 THEN Fail(s, "EBADFD") ELSE [s EXCEPT !.rc = 0]

-----------------------------------------------------------------------------
(* alt_sys_init: drivers register their nodes, in the generated order; a   *)
(* node without a name is refused.                                         *)
alt_dev_llist_insert(d) ==
  lists' = IF Name[d] = NoName THEN lists ELSE [lists EXCEPT ![List[d]] = <<d>> \o @]

alt_fs_reg(d) ==
  lists' = IF Name[d] = NoName THEN lists ELSE [lists EXCEPT !["fs"] = <<d>> \o @]

Reg ==
  /\ registered < Len(SysInit)
  /\ registered' = registered + 1
  /\ LET d == SysInit[registered + 1]
     IN  IF List[d] = "fs" THEN alt_fs_reg(d) ELSE alt_dev_llist_insert(d)
  /\ UNCHANGED <<alt_fd_list, alt_max_fd, booted, opened>>

OneOpened(s, f, flags) == {alt_open_fd(s, f, StdPath[f], flags, ok) : ok \in BOOLEAN}

Redirect ==   \* alt_main: the redirection, then main()
  /\ registered = Len(SysInit)
  /\ ~ booted
  /\ booted' = TRUE
  /\ \E o \in OneOpened(Table, 1, {"O_WRONLY"}) :
       \E i \in OneOpened(o, 0, {}) :
         \E e \in OneOpened(i, 2, {"O_WRONLY"}) : Update(e)
  /\ UNCHANGED <<lists, registered>>

\* A channel is not a descriptor: the node itself is what the caller gets.
alt_dma_txchan_open(s, path) ==
  IF alt_find_dev(path, "txchan") = NoDev THEN Fail(s, "ENODEV") ELSE s

alt_dma_rxchan_open(s, path) ==
  IF alt_find_dev(path, "rxchan") = NoDev THEN Fail(s, "ENODEV") ELSE s

\* What a program may pass: a descriptor in use, or the -1 of a failed open().
Held == {-1} \cup {f \in Fd : alt_fd_list[f].dev # NoDev}

(* What each call of the program may make of the table.                    *)
Opens  == {ALT_OPEN(Table, p, fl, ok) : p \in Paths, fl \in OpenFlags, ok \in BOOLEAN}
Closes == {ALT_CLOSE(Table, f, ok) : f \in Held, ok \in BOOLEAN}
Stats  == {ALT_STAT(Table, p, ok) : p \in Paths, ok \in [{1, 2} -> BOOLEAN]}
Ioctls == {ALT_IOCTL(Table, f, req, ok) :
             f \in Held, req \in {"TIOCEXCL", "TIOCNXCL", "other"}, ok \in BOOLEAN}
Fcntls == {ALT_FCNTL(Table, f, cmd, fl) :
             f \in Held, cmd \in {"F_GETFL", "F_SETFL", "other"}, fl \in OpenFlags}
Fstats == {ALT_FSTAT(Table, f) : f \in Held} \cup {ALT_ISATTY(Table, f) : f \in Held}
Transfers == UNION {{ALT_READ(Table, f, ok), ALT_WRITE(Table, f, ok), ALT_LSEEK(Table, f, ok)} :
                      f \in Held, ok \in BOOLEAN}
ChannelOpens == UNION {{alt_dma_txchan_open(Table, p), alt_dma_rxchan_open(Table, p)} :
                         p \in Paths}

Outcomes == UNION {Opens, Closes, Stats, Ioctls, Fcntls, Fstats, Transfers, ChannelOpens}

\* Of a call's outcome the result is the caller's; the rest is kept.
FileCall ==
  /\ booted
  /\ \E s \in {[o EXCEPT !.rc = 0, !.errno = "none"] : o \in Outcomes} : Update(s)
  /\ UNCHANGED <<lists, registered, booted>>

FdNext == Reg \/ Redirect \/ FileCall
FdSpec == FdInit /\ [][FdNext]_fdVars

-----------------------------------------------------------------------------
FdTypeOK ==
  /\ alt_fd_list \in [Fd -> [dev : Nodes \cup {NoDev}, fd_flags : SUBSET Flag]]
  /\ alt_max_fd \in {-1} \cup (Fd \ Std)
  /\ booted \in BOOLEAN
  /\ opened \subseteq Fd

Locked(f) == "EXCL" \in alt_fd_list[f].fd_flags
Users(d)  == {f \in Fd : alt_fd_list[f].dev = d}

(* The pool is consistent: a free entry is clean, a reserved one is never  *)
(* free, and the highest descriptor covers every one allocated, so that a  *)
(* search that ends there misses none; only devices are ever locked, and a *)
(* device by one descriptor at most.  A driver has been asked to open, and *)
(* not to close, exactly the allocated descriptors that are not reserved:  *)
(* no path of open(), stat() or the redirection leaks one.                 *)
PoolInv ==
  /\ FdTypeOK
  /\ \A f \in Std : alt_fd_list[f].dev # NoDev
  /\ \A f \in Users(NoDev) : alt_fd_list[f].fd_flags = {}
  /\ \A f \in Fd \ Std : alt_fd_list[f].dev # NoDev => f <= alt_max_fd
  /\ opened \ Std = (Fd \ Std) \ Users(NoDev)
  /\ \A f \in Fd : Locked(f) => "DEV" \in alt_fd_list[f].fd_flags
  /\ \A f, g \in Fd : Locked(f) /\ Locked(g) /\ alt_fd_list[f].dev = alt_fd_list[g].dev => f = g

(* The inductive invariant behind both, on a table s: a node reached as a  *)
(* device is none that is reached as a file, so the lock, which only       *)
(* devices have, covers every way to a node; the search of alt_fd_lock     *)
(* ends one short, so a lock may share its node with the highest           *)
(* descriptor, which can then not be locked itself; and a search up to the *)
(* highest descriptor meets every lock.                                    *)
EntryOK(s, f) ==
  LET e == s.list[f]
  IN  /\ f \in Std => e.dev # NoDev
      /\ e.dev = NoDev => e.fd_flags = {}
      /\ f \notin Std => (f \in s.opened <=> e.dev # NoDev)
      /\ f \notin Std /\ e.dev # NoDev => f <= s.max
      /\ "EXCL" \in e.fd_flags => "DEV" \in e.fd_flags
      /\ "DEV" \in e.fd_flags => f <= s.max /\ List[e.dev] # "fs"
      /\ "EXCL" \in e.fd_flags =>
           \A g \in Fd \ {f} : s.list[g].dev = e.dev =>
              f < s.max /\ "EXCL" \notin s.list[g].fd_flags

TableOK(s) ==
  /\ s.list \in [Fd -> [dev : Nodes \cup {NoDev}, fd_flags : SUBSET Flag]]
  /\ s.max \in {-1} \cup (Fd \ Std)
  /\ s.opened \subseteq Fd
  /\ \A f \in Fd : EntryOK(s, f)

ListsOK ==
  /\ lists \in [Kinds -> Seq(Nodes)]
  /\ \A k \in Kinds : \A i \in DOMAIN lists[k] : List[lists[k][i]] = k

PoolIndInv ==
  /\ TableOK(Table)
  /\ ListsOK
  /\ registered \in Nat /\ booted \in BOOLEAN
  /\ ~ booted => /\ alt_max_fd = -1 /\ opened = {}
                 /\ \A f \in Fd : alt_fd_list[f].fd_flags = {}

(* "Further calls to open() for this device will fail until the lock is    *)
(* released" (alt_fd_lock.c): while a descriptor keeps the lock, no other  *)
(* one comes to refer to its device.                                       *)
LockKeepsOthersOut ==
  [][\A f \in Fd : Locked(f) /\ Locked(f)' =>
       \A g \in Fd : (alt_fd_list[g].dev)' = alt_fd_list[f].dev
                       => alt_fd_list[g].dev = alt_fd_list[f].dev]_fdVars

=============================================================================
