------------------------------- MODULE MCDumps -------------------------------
(***************************************************************************)
(* The dump files for TLC.                                                 *)
(***************************************************************************)
EXTENDS Dumps, TLC

Symmetry == Permutations(Own)
==============================================================================
