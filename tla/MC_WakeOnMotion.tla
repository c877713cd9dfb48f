-------------------------- MODULE MC_WakeOnMotion --------------------------
(* A small instance of the node for TLC. *)
EXTENDS WakeOnMotion

\* ACC_CFG_HIPASS_THRESHOLD and ACC_CFG_FREEFALL_THRESHOLD.
BootDef == [p \in Pin |-> IF p = "HPF" THEN 500 ELSE 350]
=============================================================================
