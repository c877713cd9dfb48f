------------------------------ MODULE MC_Pairing ------------------------------
(* Instances of the pairing button for TLC. *)
EXTENDS Pairing

\* ctrl and hmi are the only clients of this firmware.
NoRequests == {}
=============================================================================
