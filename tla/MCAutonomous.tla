----------------------------- MODULE MCAutonomous -----------------------------
(***************************************************************************)
(* The scheduler for TLC: every schedule selects every item; one of them   *)
(* uploads, and in some runs one names an item the config lacks.           *)
(***************************************************************************)
EXTENDS Autonomous, TLC

CONSTANTS i1, i2, nightly, often, typo

Everything == [s \in Schedules |-> Items]
Symmetry == Permutations(Jobs)
===============================================================================
