---------------------------- MODULE MC_AccDriver ----------------------------
(* A small instance of the accelerometer driver for TLC. *)
EXTENDS AccDriver

\* ACC_CFG_HIPASS_THRESHOLD and ACC_CFG_FREEFALL_THRESHOLD.
BootDef == [p \in Pin |-> IF p = "HPF" THEN 500 ELSE 350]
=============================================================================
