------------------------------- MODULE MC_Nrf51 -------------------------------
(* Instances of the nRF51 port for TLC. *)
EXTENDS Nrf51
=============================================================================
