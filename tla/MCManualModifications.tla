------------------------ MODULE MCManualModifications ------------------------
(***************************************************************************)
(* Instances of ManualModifications for TLC.                               *)
(***************************************************************************)
EXTENDS ManualModifications, TLC

CONSTANTS a, b

Symmetry == Permutations(Names)

==============================================================================
