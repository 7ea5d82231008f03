---------------------------- MODULE ByteChannel -----------------------------
(***************************************************************************)
(* What a serial link promises its two ends: a place for one byte.  A byte *)
(* goes in when the place is empty and comes out unchanged, once, before   *)
(* the next one goes in.                                                   *)
(***************************************************************************)
CONSTANT Value

VARIABLES full,   \* a byte is on its way
          slot,   \* the last byte that was sent
          out     \* the last byte that was delivered

chVars == <<full, slot, out>>

ChTypeOK == full \in BOOLEAN /\ slot \in Value /\ out \in Value

ChInit ==
  /\ full = FALSE
  /\ slot \in Value
  /\ out \in Value

Send ==
  /\ ~full
  /\ full' = TRUE
  /\ slot' \in Value
  /\ UNCHANGED out

Deliver ==
  /\ full
  /\ full' = FALSE
  /\ out' = slot
  /\ UNCHANGED slot

ChNext   == Send \/ Deliver
ChSafety == ChInit /\ [][ChNext]_chVars
ChSpec   == ChSafety /\ WF_chVars(Deliver)
=============================================================================
