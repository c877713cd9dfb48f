--------------------------- MODULE MC_CircularBuf ---------------------------
(* A ring of four commands of two bytes for TLC. *)
EXTENDS CircularBuf

ByteDef == 0 .. 4

\* Two commands that share no byte, so that a torn one is neither.
ElementDef == {[i \in 0 .. 1 |-> 1 + i], [i \in 0 .. 1 |-> 3 + i]}
=============================================================================
