------------------------------ MODULE SecretMap ------------------------------
(***************************************************************************)
(* What the vault promises about saved database passwords, with no         *)
(* ciphertexts, salts or sessions in sight: a map from secret keys to      *)
(* passwords that only an explicit save or wipe changes.  Rotating the     *)
(* master password is invisible here.  A process that dies, or a statement *)
(* that fails, may lose passwords; nothing else may.                       *)
(***************************************************************************)
EXTENDS Naturals

CONSTANTS Keys, Passwords, None, Lost

VARIABLES
    stored,     \* Keys -> the password that can be read back, None, or Lost
    failures    \* how many operations were cut short so far

Init ==
    /\ stored = [k \in Keys |-> None]
    /\ failures = 0

Save(k, v) ==
    /\ stored' = [stored EXCEPT ![k] = v]
    /\ UNCHANGED failures

Wipe(k) ==
    /\ stored' = [stored EXCEPT ![k] = None]
    /\ UNCHANGED failures

\* Only passwords that exist can be lost, and each loss costs a failure.
Lose(S) ==
    /\ \A k \in S : stored[k] # None
    /\ stored' = [k \in Keys |-> IF k \in S THEN Lost ELSE stored[k]]
    /\ failures' = failures + 1

Next ==
    \/ \E k \in Keys : Wipe(k) \/ \E v \in Passwords : Save(k, v)
    \/ \E S \in SUBSET Keys : Lose(S)

Spec == Init /\ [][Next]_<<stored, failures>>
==============================================================================
