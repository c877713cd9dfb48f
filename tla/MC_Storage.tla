----------------------------- MODULE MC_Storage -----------------------------
(* A small instance of the storage for TLC. *)
EXTENDS Storage, TLC

CONSTANTS k1, k2, v1, v2, v3

KeysDef == {k1, k2}

ValuesDef == {v1, v2, v3}

Symmetry == Permutations(KeysDef) \cup Permutations(ValuesDef)
=============================================================================
