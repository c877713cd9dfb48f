-------------------------- MODULE MC_BlePeripheral --------------------------
(* Instances of the connection state machine for TLC. *)
EXTENDS BlePeripheral

\* ctrl and hmi are the only clients of this firmware.
NoRequests == {}

\* Every call the header offers.
AllRequests == {"DISCONNECT", "ADVERTISE", "BOND", "UNBOND"}
=============================================================================
