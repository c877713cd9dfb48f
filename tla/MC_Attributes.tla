---------------------------- MODULE MC_Attributes ----------------------------
(* A small instance of the attributes for TLC: the clients of this firmware. *)
EXTENDS Attributes

CONSTANTS t1, t2

NoRequests == {}

ThValuesDef == {t1, t2}
=============================================================================
