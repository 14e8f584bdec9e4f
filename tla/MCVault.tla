------------------------------- MODULE MCVault -------------------------------
(***************************************************************************)
(* The vault for TLC: processes, keys and passwords are interchangeable.   *)
(***************************************************************************)
EXTENDS Vault, TLC

Symmetry == Permutations(Procs) \cup Permutations(Keys) \cup Permutations(Passwords)
==============================================================================
