------------------------------ MODULE MCRestore ------------------------------
(***************************************************************************)
(* Restores for TLC: a parent and two nested databases, one of which has   *)
(* the parent's role and the other a role of its own.                      *)
(***************************************************************************)
EXTENDS Restore, TLC

CONSTANTS parent, same, other, admin, guest, d1, d2, d3, p1, p2

Below == [i \in Nested |-> parent]
Roles == [i \in Items |-> IF i = other THEN guest ELSE admin]
Places == [i \in Items |-> CASE i = parent -> d1 [] i = same -> d2 [] i = other -> d3]
Symmetry == Permutations(Passwords)
==============================================================================
