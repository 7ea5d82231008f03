------------------------------- MODULE Program -------------------------------
(***************************************************************************)
(* A program over the HAL, from reset on: crt0 has alt_load copy it, then  *)
(* alt_main brings the system up and calls main().  What main() does is    *)
(* the choice of the image: the radio's control program (sdr.c), one that  *)
(* logs, one that works on memory behind caches, one that is profiled, one *)
(* that sleeps, one that uses files, or one that only ends.                *)
(*                                                                         *)
(* The images have the boot and the JTAG UART in common; an image leaves   *)
(* the variables of the others as they were.  The one that ends is built   *)
(* in every way the BSP can be, the one with files without the direct      *)
(* drivers, which need no descriptors, the others as this BSP is.          *)
(***************************************************************************)
EXTENDS Boot, SdrMain, Log, Memory, Profiler, BusySleep, FdTable

CONSTANT Images   \* radio, logging, memory, profiled, sleeping, files, ending

VARIABLE image

vars == <<image, bootVars, jtagVars, sdrVars, logVars, memVars, profVars, sleepVars, fdVars>>

\* ALT_NO_EXIT, ALT_NO_CLEAN_EXIT, ALT_USE_DIRECT_DRIVERS.
BspBuild == [no_exit |-> TRUE, no_clean_exit |-> TRUE, direct_drivers |-> TRUE]

BuildOf(i) ==
  IF i = "files" THEN [BspBuild EXCEPT !.direct_drivers = FALSE] ELSE BspBuild

Init ==
  /\ image \in Images
  /\ BootInit
  /\ image # "ending" => build = BuildOf(image)
  /\ JtagInit /\ SdrInit /\ LogInit /\ MemInit /\ ProfInit /\ SleepInit /\ FdInit
  /\ image # "profiled" => text_size = CHOOSE t \in Texts : TRUE

\* What the other images have.
ButFiles   == UNCHANGED <<jtagVars, sdrVars, logVars, memVars, profVars, sleepVars>>
AllButBoot == UNCHANGED <<image, fdVars>> /\ ButFiles

Loads ==
  \/ /\ MemLoad
     /\ UNCHANGED <<image, bootVars, jtagVars, sdrVars, logVars, profVars, sleepVars, fdVars>>
  \/ mpc = "main" /\ alt_load_returns /\ AllButBoot

\* alt_sys_init registers the devices, the redirection opens the standard ones.
Registers ==
  /\ image = "files" /\ at = "alt_sys_init"
  /\ Reg
  /\ UNCHANGED <<image, bootVars>> /\ ButFiles

Redirects ==
  /\ image = "files"
  /\ alt_io_redirect /\ Redirect
  /\ UNCHANGED image /\ ButFiles

Boots ==
  \/ /\ BootStep
     /\ image = "files" => /\ at # "alt_io_redirect"
                           /\ at = "alt_sys_init" => registered = Len(SysInit)
     /\ AllButBoot
  \/ Registers \/ Redirects

Finishes == image = "ending" /\ (MainReturns \/ Stops) /\ AllButBoot

Runs(i) == at = "main" /\ image = i /\ UNCHANGED <<image, bootVars>>

RunsRadio ==
  Runs("radio") /\ SdrStep /\ UNCHANGED <<logVars, memVars, profVars, sleepVars, fdVars>>
RunsLogging ==
  Runs("logging") /\ LogStep /\ UNCHANGED <<sdrVars, memVars, profVars, sleepVars, fdVars>>
RunsMemory ==
  Runs("memory") /\ MemMain
    /\ UNCHANGED <<jtagVars, sdrVars, logVars, profVars, sleepVars, fdVars>>
RunsProfiled ==
  Runs("profiled") /\ ProfStep
    /\ UNCHANGED <<jtagVars, sdrVars, logVars, memVars, sleepVars, fdVars>>
RunsSleeping ==
  Runs("sleeping") /\ ALT_USLEEP
    /\ UNCHANGED <<jtagVars, sdrVars, logVars, memVars, profVars, fdVars>>
RunsFiles == Runs("files") /\ FileCall /\ ButFiles

Interrupts ==
  \/ Runs("logging") /\ LogIrq /\ UNCHANGED <<sdrVars, memVars, profVars, sleepVars, fdVars>>
  \/ Runs("profiled") /\ ProfIrq
     /\ UNCHANGED <<jtagVars, sdrVars, logVars, memVars, sleepVars, fdVars>>

Types ==
  Runs("radio") /\ SdrHostType /\ UNCHANGED <<logVars, memVars, profVars, sleepVars, fdVars>>

Takes ==
  /\ UNCHANGED <<image, bootVars, memVars, profVars, sleepVars, fdVars>>
  /\ \/ image = "radio" /\ SdrHostTake /\ UNCHANGED logVars
     \/ image = "logging" /\ LogHostTake /\ UNCHANGED sdrVars

\* alt_exit and crt0: while (1);
Spins == at = "spin" /\ UNCHANGED vars

Progress == Loads \/ Boots \/ RunsRadio \/ RunsLogging
Next ==
  \/ Progress \/ RunsMemory \/ RunsProfiled \/ RunsSleeping \/ RunsFiles
  \/ Finishes \/ Interrupts \/ Types \/ Takes \/ Spins

Spec == Init /\ [][Next]_vars

\* The processor goes on; the host, when one is there, reads what is printed.
FairSpec == Spec /\ WF_vars(Progress)
HostReads == WF_vars(Takes)

-----------------------------------------------------------------------------
\* The radio, whenever it waits for a key: see SdrInv.
RadioInv == image = "radio" => SdrInv

\* The log, and the printf the log competes with: see LogInv.
LoggingInv == image = "logging" => LogInv /\ PrintfsAgree

\* If the host reads, a radio that has come up returns to wait for a key for
\* ever, and after every key its registers and the screen settle on what the
\* key asked for.
KeysTakeEffect ==
  HostReads /\ image = "radio" =>
    []<>(at = "main" /\ pc = "getchar") /\
    (rxfifo # << >> ~> rxfifo = << >> /\ pc = "getchar" /\ txfifo = << >> /\ Settled(console))

\* If the host reads, all that the thread and the interrupts log comes out.
LogComesOut ==
  HostReads /\ image = "logging" =>
    <>[](message = << >> /\ isr = NoIsr /\ txfifo = << >>)

===============================================================================
