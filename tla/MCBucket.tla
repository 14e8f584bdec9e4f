------------------------------- MODULE MCBucket -------------------------------
(***************************************************************************)
(* A dump with every kind of file there is of it, for TLC.                 *)
(***************************************************************************)
EXTENDS Bucket, TLC

CONSTANT d

FilesOfOne == {[dump |-> d, kind |-> k] : k \in Kinds}

Symmetry == Permutations(Clients)
===============================================================================
