--------------------------- MODULE MCSerialCommand ---------------------------
(* SerialCommand with two callers and two of its commands. *)
EXTENDS SerialCommand, TLC

CONSTANTS c1, c2, getvolume, setvolume

Symmetry == Permutations(Callers) \cup Permutations(Commands)
=============================================================================
