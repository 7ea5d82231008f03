--------------------------- MODULE MCTunerControl ---------------------------
(***************************************************************************)
(* Phase words modulo 41; steps and stations are distinct so that a wrong  *)
(* key, a missed one or a repeated one shows.  The keys are one of each    *)
(* kind of command, every step, and r, which no arm of the case knows.     *)
(***************************************************************************)
EXTENDS TunerControl, TLC

Stations == (97 :> 7) @@ (98 :> 11) @@ (102 :> 30) @@ (103 :> 29)
SomeKeys == {49, 50, 98, 103, 104, 109, 110, 111, 112, 113, 114}
=============================================================================
