------------------------------- MODULE MCLegacy -------------------------------
(***************************************************************************)
(* Opening and migrating for TLC.                                          *)
(***************************************************************************)
EXTENDS Legacy, TLC

CONSTANTS p1, p2

Symmetry == Permutations(Procs)
==============================================================================
