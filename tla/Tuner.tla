------------------------------- MODULE Tuner --------------------------------
(***************************************************************************)
(* The tuning commands of the MachXO2 radio, as a user understands them:   *)
(* the terminal sends a key, and the receiver gain or the oscillator's     *)
(* phase increment changes accordingly, once per key.                      *)
(***************************************************************************)
EXTENDS KeyTable

VARIABLES waiting,   \* a key has been received and not yet acted on
          key,       \* the last key received
          CICGain,
          phase_inc_carrGen

tunerVars == <<waiting, key, CICGain, phase_inc_carrGen>>

TunerInit ==
  /\ waiting = FALSE
  /\ key \in Keys
  /\ CICGain \in 0 .. 3
  /\ phase_inc_carrGen \in Phase

Receive ==
  /\ ~ waiting
  /\ waiting' = TRUE
  /\ key' \in Keys
  /\ UNCHANGED <<CICGain, phase_inc_carrGen>>

Execute ==
  /\ waiting
  /\ waiting' = FALSE
  /\ CICGain' = GainAfter(key, CICGain)
  /\ phase_inc_carrGen' = PhaseAfter(key, phase_inc_carrGen)
  /\ UNCHANGED key

TunerNext   == Receive \/ Execute
TunerSafety == TunerInit /\ [][TunerNext]_tunerVars
TunerSpec   == TunerSafety /\ WF_tunerVars(Execute)
=============================================================================
