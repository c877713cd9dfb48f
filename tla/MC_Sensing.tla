---------------------------- MODULE MC_Sensing ----------------------------
(* A small instance of the sensing chain for TLC.  The readings are those of *)
(* a coin cell (2.99 V, 2.5 V) and of a sensor that leaves nearly all or     *)
(* little of it: the lower supply turns the verdict of one reflection.       *)
EXTENDS Sensing

ReflectionsDef == {-1, 176}

SuppliesDef == {213, 178}

ThresholdsDef == {256}
=============================================================================
