------------------------------ MODULE DumpStore ------------------------------
(***************************************************************************)
(* What dumpmgr promises about the dumps of a vault, with no files, keys   *)
(* or phases in sight: a dump is taken once, can be restored until it is   *)
(* removed on the user's word, and encrypting it or changing the master    *)
(* is invisible here.  What fails on the way may lose dumps; none comes    *)
(* back, and none goes without being counted as removed or lost.           *)
(***************************************************************************)

CONSTANT Dumps

VARIABLE status     \* of each dump: "none", "kept", "removed" or "lost"

Init == status = [d \in Dumps |-> "none"]

Take(d) ==
    /\ status[d] = "none"
    /\ status' = [status EXCEPT ![d] = "kept"]

\* A dump that was lost may still be removed.
Remove(d) ==
    /\ status[d] \in {"kept", "lost"}
    /\ status' = [status EXCEPT ![d] = "removed"]

\* Several at once: a change of master that stops leaves all it has not rewritten,
\* and one that goes on those it could not see.
Lose(S) ==
    /\ \A d \in S : status[d] = "kept"
    /\ status' = [d \in Dumps |-> IF d \in S THEN "lost" ELSE status[d]]

Next ==
    \/ \E d \in Dumps : Take(d) \/ Remove(d)
    \/ \E S \in SUBSET Dumps : Lose(S)

Spec == Init /\ [][Next]_status
==============================================================================
