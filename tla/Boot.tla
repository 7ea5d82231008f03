-------------------------------- MODULE Boot ---------------------------------
(***************************************************************************)
(* From reset to main() and from its return to the end: alt_main.c, the    *)
(* constructors and destructors of C++ (alt_do_ctors.c, alt_do_dtors.c),   *)
(* exit and kill (alt_exit.c, alt_kill.c), in every build the options of   *)
(* the BSP select.  The BSP of this repository is built with ALT_NO_EXIT   *)
(* and ALT_NO_CLEAN_EXIT.                                                  *)
(*                                                                         *)
(* atexit and exit are newlib's: exit calls what was registered, and then  *)
(* _exit.                                                                  *)
(***************************************************************************)
EXTENDS Integers, Sequences

CONSTANT OBJECTS   \* the static objects, in the order of the linker's lists
ASSUME ObjectsAssumption == OBJECTS \in Nat

Builds == [no_exit : BOOLEAN, no_clean_exit : BOOLEAN, direct_drivers : BOOLEAN]

VARIABLES build,        \* how the BSP was built
          at,           \* the call alt_main is at
          interrupts,   \* the processor takes them
          devices,      \* alt_sys_init has run
          stdio,        \* where stdout goes: "null", "device" or "closed"
          constructed,  \* the objects, in the order their constructors ran
          atexit,       \* _do_dtors is registered
          destructed    \* the objects, in the order their destructors ran

bootVars == <<build, at, interrupts, devices, stdio, constructed, atexit, destructed>>

BootInit ==
  /\ build \in Builds
  /\ at = "alt_load"
  /\ interrupts = FALSE /\ devices = FALSE
  /\ stdio = IF build.direct_drivers THEN "device" ELSE "null"
  /\ constructed = << >> /\ atexit = FALSE /\ destructed = << >>

\* crt0 calls alt_main when alt_load has returned.
alt_load_returns ==
  /\ at = "alt_load" /\ at' = "alt_irq_init"
  /\ UNCHANGED <<build, interrupts, devices, stdio, constructed, atexit, destructed>>

alt_irq_init ==
  /\ at = "alt_irq_init" /\ at' = "alt_sys_init"
  /\ interrupts' = TRUE
  /\ UNCHANGED <<build, devices, stdio, constructed, atexit, destructed>>

alt_sys_init ==
  /\ at = "alt_sys_init"
  /\ at' = IF build.direct_drivers THEN "_do_ctors" ELSE "alt_io_redirect"
  /\ devices' = TRUE
  /\ UNCHANGED <<build, interrupts, stdio, constructed, atexit, destructed>>

alt_io_redirect ==
  /\ at = "alt_io_redirect" /\ at' = "_do_ctors"
  /\ stdio' = "device"
  /\ UNCHANGED <<build, interrupts, devices, constructed, atexit, destructed>>

AfterCtors == IF build.no_clean_exit \/ build.no_exit THEN "main" ELSE "atexit"

\* The list of constructors, from its end to its start.
_do_ctors ==
  /\ at = "_do_ctors"
  /\ IF Len(constructed) = OBJECTS
       THEN at' = AfterCtors /\ UNCHANGED constructed
       ELSE constructed' = Append(constructed, OBJECTS - Len(constructed)) /\ at' = at
  /\ UNCHANGED <<build, interrupts, devices, stdio, atexit, destructed>>

RegisterDtors ==
  /\ at = "atexit" /\ at' = "main"
  /\ atexit' = TRUE
  /\ UNCHANGED <<build, interrupts, devices, stdio, constructed, destructed>>

\* Without an exit alt_main returns to crt0, which spins.
MainReturns ==
  /\ at = "main"
  /\ IF build.no_exit THEN at' = "spin" /\ UNCHANGED stdio
     ELSE at' = "exit" /\ stdio' = "closed"   \* close(STDOUT_FILENO)
  /\ UNCHANGED <<build, interrupts, devices, constructed, atexit, destructed>>

\* A constructor or main() calls exit(), which is _exit() in a build without
\* a clean exit.
CallsExit ==
  /\ at \in {"_do_ctors", "main"} /\ at' = "exit"
  /\ UNCHANGED <<build, interrupts, devices, stdio, constructed, atexit, destructed>>

\* exit(): the destructors, in the order of the constructors; then _exit().
Exit_past ==   \* mutant: goes one past the start of the list
  /\ at = "exit"
  /\ IF atexit /\ Len(destructed) <= OBJECTS
       THEN at' = at /\ destructed' = Append(destructed, OBJECTS - Len(destructed))
       ELSE at' = "spin" /\ UNCHANGED destructed
  /\ UNCHANGED <<build, interrupts, devices, stdio, constructed, atexit>>

Exit ==
  /\ at = "exit"
  /\ IF atexit /\ Len(destructed) < OBJECTS
       THEN at' = at /\ destructed' = Append(destructed, OBJECTS - Len(destructed))
       ELSE at' = "spin" /\ UNCHANGED destructed
  /\ UNCHANGED <<build, interrupts, devices, stdio, constructed, atexit>>

\* kill(): to a pid that is positive nobody (ESRCH), and to the own process
\* nothing (0, SIGCHLD, SIGURG), an unknown signal (EINVAL), or _exit(0).
Kill(pid, sig) ==
  /\ at \in {"_do_ctors", "main"}
  /\ at' = IF pid <= 0 /\ sig = "fatal" THEN "spin" ELSE at
  /\ UNCHANGED <<build, interrupts, devices, stdio, constructed, atexit, destructed>>

BootStep == alt_irq_init \/ alt_sys_init \/ alt_io_redirect \/ _do_ctors
            \/ RegisterDtors \/ Exit
Stops == CallsExit \/ \E pid \in -1 .. 1, sig \in {"fatal", "ignored", "unknown"} : Kill(pid, sig)

\* The boot alone, whatever main() does and however it ends.
BootNext == alt_load_returns \/ BootStep \/ MainReturns \/ Stops
BootSpec == BootInit /\ [][BootNext]_bootVars

-----------------------------------------------------------------------------
Distinct(s) == \A i, j \in DOMAIN s : i # j => s[i] # s[j]

\* main() runs with the interrupts on, the drivers initialised, stdout on its
\* device and every object constructed once.  Whatever ends the program and
\* whenever it does, a constructor that exits included, no object is destroyed
\* that was not constructed, none twice, and none while the program runs; a
\* build without a clean exit destroys none.
BootInv ==
  /\ at = "main" => /\ interrupts /\ devices /\ stdio = "device"
                    /\ Len(constructed) = OBJECTS
  /\ Distinct(constructed) /\ Distinct(destructed)
  /\ \A i \in DOMAIN destructed : \E j \in DOMAIN constructed : destructed[i] = constructed[j]
  /\ destructed # << >> => at \in {"exit", "spin"} /\ ~ build.no_exit /\ ~ build.no_clean_exit

\* The inductive invariant behind it: how far the boot has come, and that the
\* lists of constructors and destructors are gone through from the end.
BootTypeOK ==
  /\ build \in Builds
  /\ at \in {"alt_load", "alt_irq_init", "alt_sys_init", "alt_io_redirect", "_do_ctors",
            "atexit", "main", "exit", "spin"}
  /\ constructed \in Seq(Int) /\ destructed \in Seq(Int)

FromTheEnd(s) == Len(s) <= OBJECTS /\ \A i \in DOMAIN s : s[i] = OBJECTS - (i - 1)

BootIndInv ==
  /\ BootTypeOK
  /\ FromTheEnd(constructed) /\ FromTheEnd(destructed)
  /\ at \in {"alt_sys_init", "alt_io_redirect", "_do_ctors", "atexit", "main"} => interrupts
  /\ at \in {"alt_io_redirect", "_do_ctors", "atexit", "main"} => devices
  /\ build.direct_drivers /\ at \notin {"exit", "spin"} => stdio = "device"
  /\ at \in {"_do_ctors", "atexit", "main"} => stdio = "device"
  /\ at \in {"atexit", "main"} => Len(constructed) = OBJECTS
  /\ at = "atexit" => ~ build.no_exit /\ ~ build.no_clean_exit
  /\ atexit = TRUE => ~ build.no_exit /\ ~ build.no_clean_exit /\ Len(constructed) = OBJECTS
                     /\ at \in {"main", "exit", "spin"}
  /\ destructed # << >> => atexit = TRUE /\ at \in {"exit", "spin"}

===============================================================================
