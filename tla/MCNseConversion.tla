------------------------- MODULE MCNseConversion --------------------------
(* Instances of NseConversion for TLC.                                     *)
EXTENDS NseConversion, TLC

CONSTANTS winos, vvas, n520

(* One of the two modes sends, but no property of the run with symmetry    *)
(* looks at which.                                                         *)
ModeSymmetry == Permutations(Mode)
=============================================================================
