----------------------------- MODULE VaultProofs -----------------------------
(***************************************************************************)
(* Theorems about the vault, for any number of processes, keys, passwords, *)
(* salts and failures.                                                     *)
(***************************************************************************)
EXTENDS Vault, TLAPS

-----------------------------------------------------------------------------
(* Type correctness, every interleaving                                    *)

\* An aborted change leaves its process idle, without a session or a map.
LEMMA AbortType ==
    ASSUME TypeOK, NEW p \in Procs, Abort(p)
    PROVE  /\ session' \in [Procs -> Nat \cup {None}]
           /\ phase' \in [Procs -> Phases]
           /\ todo' \in [Procs -> SUBSET Keys]
           /\ plain' \in [Procs -> [Keys -> Passwords \cup {None}]]
           /\ newKey' \in [Procs -> Nat]
           /\ metaCopy' \in [Procs -> [enc : Nat, s3 : Cipher \cup {None}]]
  BY DEF TypeOK, Abort, Phases, NoPlain, NoCopy

\* Encrypting with a key gives a ciphertext.
LEMMA EncryptType ==
    ASSUME NEW n \in Nat, NEW v \in Passwords
    PROVE  Encrypt(n, v) \in Cipher
  BY DEF Encrypt, Cipher

\* Every step of a process keeps the types.
LEMMA StepType ==
    ASSUME TypeOK, TodoInMap, NEW p \in Procs, Step(p)
    PROVE  TypeOK'
<1> USE DEF history, meta, tables, locals
<1>1. CASE InitCheck(p)
  BY <1>1 DEF TypeOK, InitCheck, Phases
<1>2. CASE CreateWithMaster(p)
  BY <1>2 DEF TypeOK, CreateWithMaster, Phases
<1>3. CASE Unlock(p)
  BY <1>3 DEF TypeOK, Unlock
<1>4. CASE Close(p)
  BY <1>4 DEF TypeOK, Close
<1>5. ASSUME NEW k \in Keys, NEW v \in Passwords, SetDBPassword(p, k, v)
      PROVE  TypeOK'
  <2>1. session[p] \in Nat
    BY <1>5 DEF TypeOK, SetDBPassword, Working
  <2>2. Encrypt(session[p], v) \in Cipher
    BY <2>1, EncryptType
  <2> QED
    BY <1>5, <2>2 DEF TypeOK, SetDBPassword, UpsertSecret, Rotations
<1>6. ASSUME NEW k \in Keys, DeleteDBPassword(p, k)
      PROVE  TypeOK'
  BY <1>6 DEF TypeOK, DeleteDBPassword, Rotations
<1>7. ASSUME NEW k \in Keys, SkipSecret(p, k)
      PROVE  TypeOK'
  BY <1>7 DEF TypeOK, SkipSecret
<1>8. ASSUME NEW k \in Keys, ReadSecret(p, k)
      PROVE  TypeOK'
  <2>1. secrets[k].plain \in Passwords
    BY <1>8 DEF TypeOK, ReadSecret, Cipher
  <2> QED
    BY <1>8, <2>1 DEF TypeOK, ReadSecret
<1>9. ASSUME NEW k \in Keys, RefuseSecret(p, k)
      PROVE  TypeOK'
  BY <1>9, AbortType DEF TypeOK, RefuseSecret
<1>10. ASSUME NEW k \in Keys, WriteSecret(p, k)
       PROVE  TypeOK'
  <2>1. plain[p][k] \in Passwords
    BY <1>10 DEF TypeOK, TodoInMap, WriteSecret
  <2>2. Encrypt(newKey[p], plain[p][k]) \in Cipher
    BY <2>1, EncryptType DEF TypeOK
  <2> QED
    BY <1>10, <2>2 DEF TypeOK, WriteSecret, UpsertSecret, Rotations
<1>11. ASSUME NEW v \in Passwords, SetS3SecretKey(p, v)
       PROVE  TypeOK'
  <2>1. session[p] \in Nat
    BY <1>11 DEF TypeOK, SetS3SecretKey, Working
  <2> QED
    BY <1>11, <2>1, EncryptType DEF TypeOK, SetS3SecretKey
<1>12. CASE ListSecrets(p)
  BY <1>12 DEF TypeOK, ListSecrets, Phases
<1>13. CASE ReadMeta(p)
  BY <1>13 DEF TypeOK, ReadMeta, Phases
<1>14. CASE RefuseMeta(p)
  BY <1>14, AbortType DEF TypeOK, RefuseMeta
<1>15. CASE PublishMeta(p)
  <2>1. metaCopy[p].enc \in Nat /\ metaCopy[p].s3 \in Cipher \cup {None}
    BY DEF TypeOK
  <2>2. s3Secret' \in Cipher \cup {None}
    <3>1. CASE metaCopy[p].s3 = None
      BY <1>15, <3>1 DEF PublishMeta
    <3>2. CASE metaCopy[p].s3 # None
      <4>1. metaCopy[p].s3.plain \in Passwords
        BY <2>1, <3>2 DEF Cipher
      <4>2. salt + 1 \in Nat
        BY DEF TypeOK
      <4> QED
        BY <1>15, <3>2, <4>1, <4>2, EncryptType DEF PublishMeta
    <3> QED
      BY <3>1, <3>2
  <2> QED
    BY <1>15, <2>1, <2>2 DEF TypeOK, PublishMeta, Phases
<1>16. CASE FinishChange(p)
  BY <1>16 DEF TypeOK, FinishChange, Phases, NoPlain, NoCopy
<1> QED
  BY <1>1, <1>2, <1>3, <1>4, <1>5, <1>6, <1>7, <1>8, <1>9, <1>10, <1>11, <1>12,
     <1>13, <1>14, <1>15, <1>16 DEF Step

\* A failure keeps the types.
LEMMA FailType ==
    ASSUME TypeOK, NEW p \in Procs, Trouble(p)
    PROVE  TypeOK'
<1>1. CASE Fail(p)
  BY <1>1, AbortType DEF TypeOK, Fail, meta, tables
<1>2. ASSUME NEW k \in Keys, MissSecret(p, k)
      PROVE  TypeOK'
  BY <1>2 DEF TypeOK, MissSecret, meta, tables
<1> QED
  BY <1>1, <1>2 DEF Trouble

-----------------------------------------------------------------------------
(* Every interleaving and failure                                          *)

\* Each action keeps SharedInv; the unnamed conjuncts are those it leaves alone.
LEMMA SharedStep ==
    ASSUME TypeOK, SharedInv, NEW p \in Procs, Step(p)
    PROVE  SharedInv'
<1> USE DEF history, meta, tables, locals, SharedInv, TodoInMap, NoUnpublishedKey,
            RotationTellsRow, RowsHoldSavedPasswords
<1>1. CASE InitCheck(p)
  BY <1>1 DEF TypeOK, InitCheck
<1>2. CASE CreateWithMaster(p)
  BY <1>2 DEF TypeOK, CreateWithMaster, Cipher
<1>3. CASE Unlock(p)
  BY <1>3 DEF TypeOK, Unlock
<1>4. CASE Close(p)
  BY <1>4 DEF TypeOK, Close
<1>5. ASSUME NEW k \in Keys, NEW v \in Passwords, SetDBPassword(p, k, v)
      PROVE  SharedInv'
  <2>1. /\ Encrypt(session[p], v) \in Cipher
        /\ Encrypt(session[p], v).key \in 1..salt
        /\ Encrypt(session[p], v).plain = v
    BY <1>5, EncryptType DEF TypeOK, SetDBPassword, Working, Encrypt
  <2>2. Encrypt(session[p], v) # None
    BY <2>1, VaultAssumption
  <2>3. /\ secrets' = [secrets EXCEPT ![k] = Encrypt(session[p], v)]
        /\ lastRotation'[k] \in {"created", "updated"}
        /\ \A j \in Keys \ {k} : lastRotation'[j] = lastRotation[j]
    BY <1>5 DEF TypeOK, SetDBPassword, UpsertSecret
  <2>4. NoUnpublishedKey'
    BY <1>5, <2>1, <2>3 DEF TypeOK, SetDBPassword
  <2>5. RotationTellsRow'
    BY <2>2, <2>3 DEF TypeOK
  <2>6. RowsHoldSavedPasswords'
    BY <1>5, <2>1, <2>3 DEF TypeOK, SetDBPassword
  <2>7. \A q \in Procs : \A j \in Keys :
            plain'[q][j] # None => plain'[q][j] \in everSaved'[j]
    BY <1>5 DEF TypeOK, SetDBPassword
  <2>8. UNCHANGED <<salt, phase, todo, plain, newKey>>
    BY <1>5 DEF SetDBPassword
  <2> QED
    BY <2>4, <2>5, <2>6, <2>7, <2>8
<1>6. ASSUME NEW k \in Keys, DeleteDBPassword(p, k)
      PROVE  SharedInv'
  BY <1>6 DEF TypeOK, DeleteDBPassword
<1>7. ASSUME NEW k \in Keys, SkipSecret(p, k)
      PROVE  SharedInv'
  BY <1>7 DEF TypeOK, SkipSecret
<1>8. ASSUME NEW k \in Keys, ReadSecret(p, k)
      PROVE  SharedInv'
  BY <1>8 DEF TypeOK, ReadSecret
<1>9. ASSUME NEW k \in Keys, RefuseSecret(p, k)
      PROVE  SharedInv'
  BY <1>9 DEF TypeOK, RefuseSecret, Abort, NoPlain
<1>10. ASSUME NEW k \in Keys, WriteSecret(p, k)
       PROVE  SharedInv'
  <2>1. plain[p][k] \in Passwords /\ plain[p][k] \in everSaved[k] /\ newKey[p] \in 1..salt
    BY <1>10 DEF TypeOK, WriteSecret
  <2>2. /\ Encrypt(newKey[p], plain[p][k]) \in Cipher
        /\ Encrypt(newKey[p], plain[p][k]).key \in 1..salt
        /\ Encrypt(newKey[p], plain[p][k]).plain \in everSaved[k]
    BY <2>1, EncryptType DEF TypeOK, Encrypt
  <2>3. Encrypt(newKey[p], plain[p][k]) # None
    BY <2>2, VaultAssumption
  <2>4. /\ secrets' = [secrets EXCEPT ![k] = Encrypt(newKey[p], plain[p][k])]
        /\ lastRotation' = [lastRotation EXCEPT ![k] = "master_reencrypt"]
    BY <1>10 DEF WriteSecret, UpsertSecret
  <2>5. NoUnpublishedKey'
    BY <1>10, <2>2, <2>4 DEF TypeOK, WriteSecret
  <2>6. RotationTellsRow'
    BY <2>3, <2>4 DEF TypeOK
  <2>7. RowsHoldSavedPasswords'
    BY <1>10, <2>2, <2>4 DEF TypeOK, WriteSecret
  <2> QED
    BY <1>10, <2>5, <2>6, <2>7 DEF TypeOK, WriteSecret
<1>11. ASSUME NEW v \in Passwords, SetS3SecretKey(p, v)
       PROVE  SharedInv'
  BY <1>11 DEF TypeOK, SetS3SecretKey, Working, Encrypt
<1>12. CASE ListSecrets(p)
  BY <1>12 DEF TypeOK, ListSecrets
<1>13. CASE ReadMeta(p)
  BY <1>13 DEF TypeOK, ReadMeta
<1>14. CASE RefuseMeta(p)
  BY <1>14 DEF TypeOK, RefuseMeta, Abort, NoPlain
<1>15. CASE PublishMeta(p)
  <2>1. s3Secret' # None => s3Secret'.key = salt'
    BY <1>15 DEF PublishMeta, Encrypt
  <2>2. 1..salt \subseteq 1..salt' /\ salt' \in 1..salt'
    BY <1>15 DEF TypeOK, PublishMeta
  <2>3. NoUnpublishedKey'
    BY <1>15, <2>1, <2>2 DEF TypeOK, PublishMeta
  <2>4. TodoInMap'
    BY <1>15 DEF TypeOK, PublishMeta
  <2> QED
    BY <1>15, <2>2, <2>3, <2>4 DEF TypeOK, PublishMeta
<1>16. CASE FinishChange(p)
  BY <1>16 DEF TypeOK, FinishChange, NoPlain
<1> QED
  BY <1>1, <1>2, <1>3, <1>4, <1>5, <1>6, <1>7, <1>8, <1>9, <1>10, <1>11, <1>12,
     <1>13, <1>14, <1>15, <1>16 DEF Step

\* A process that is cut short leaves nothing on disk that breaks SharedInv.
LEMMA SharedFail ==
    ASSUME TypeOK, SharedInv, NEW p \in Procs, Trouble(p)
    PROVE  SharedInv'
<1> USE DEF TypeOK, SharedInv, TodoInMap, NoUnpublishedKey, RotationTellsRow,
            RowsHoldSavedPasswords, meta, tables
<1>1. CASE Fail(p)
  BY <1>1 DEF Fail, Abort, NoPlain
<1>2. ASSUME NEW k \in Keys, MissSecret(p, k)
      PROVE  SharedInv'
  BY <1>2 DEF MissSecret
<1> QED
  BY <1>1, <1>2 DEF Trouble

\* The vault that vault.Open has just made satisfies both.
LEMMA InitShared == Init => TypeOK /\ SharedInv
  BY VaultAssumption
     DEF Init, TypeOK, Phases, Rotations, NoPlain, NoCopy, SharedInv, TodoInMap,
         NoUnpublishedKey, RotationTellsRow, RowsHoldSavedPasswords

\* A stuttering step changes neither.
LEMMA StutterShared ==
    ASSUME TypeOK, SharedInv, UNCHANGED vars
    PROVE  TypeOK' /\ SharedInv'
  BY DEF TypeOK, SharedInv, TodoInMap, NoUnpublishedKey, RotationTellsRow,
         RowsHoldSavedPasswords, vars, meta, tables, locals, history

\* TypeOK and SharedInv hold in every state of the full specification.
THEOREM SharedInvariant == Spec => [](TypeOK /\ SharedInv)
<1>1. TypeOK /\ SharedInv /\ [Next]_vars => (TypeOK /\ SharedInv)'
  <2> SUFFICES ASSUME TypeOK, SharedInv, [Next]_vars
               PROVE  TypeOK' /\ SharedInv'
    OBVIOUS
  <2>1. CASE UNCHANGED vars
    BY <2>1, StutterShared
  <2>2. ASSUME NEW p \in Procs, Step(p)
        PROVE  TypeOK' /\ SharedInv'
    BY <2>2, StepType, SharedStep DEF SharedInv
  <2>3. ASSUME NEW p \in Procs, Trouble(p)
        PROVE  TypeOK' /\ SharedInv'
    BY <2>3, FailType, SharedFail
  <2> QED
    BY <2>1, <2>2, <2>3 DEF Next
<1> QED
  BY <1>1, InitShared, PTL DEF Spec

\* The variables of the vault keep their types under every interleaving.
THEOREM TypeCorrect == Spec => []TypeOK
  BY SharedInvariant, PTL

\* No row, S3 secret or session is under a key that was never published.
THEOREM KeysPublished == Spec => []NoUnpublishedKey
<1>1. SharedInv => NoUnpublishedKey
  BY DEF SharedInv
<1> QED
  BY <1>1, SharedInvariant, PTL

\* The rotation history and the table of secrets never drift apart.
THEOREM RotationsAgree == Spec => []RotationTellsRow
<1>1. SharedInv => RotationTellsRow
  BY DEF SharedInv
<1> QED
  BY <1>1, SharedInvariant, PTL

\* Every row decrypts to a password that was saved under its own key.
THEOREM RowsAreSaved == Spec => []RowsHoldSavedPasswords
<1>1. SharedInv => RowsHoldSavedPasswords
  BY DEF SharedInv
<1> QED
  BY <1>1, SharedInvariant, PTL

-----------------------------------------------------------------------------
(* One process at a time                                                   *)

\* Each action of the one process that has the vault open keeps SoloInv; the
\* cases follow the disjuncts of Step and Trouble.
LEMMA SoloStep ==
    ASSUME TypeOK, SoloInv, NEW p \in Procs, Alone(p), Step(p) \/ Trouble(p)
    PROVE  SoloInv'
<1> USE DEF history, meta, tables, locals, SoloInv, OneAtATime, FreshVault, SessionsCurrent,
            ChangeHoldsSecrets, SecretsReadable, S3Readable, Busy, Idle, Alone
<1>1. CASE InitCheck(p)
  BY <1>1, VaultAssumption DEF TypeOK, InitCheck, NoPlain, Pending
<1>2. CASE CreateWithMaster(p)
  BY <1>2, VaultAssumption DEF TypeOK, CreateWithMaster, NoPlain, Pending
<1>3. CASE Unlock(p)
  BY <1>3, VaultAssumption DEF TypeOK, Unlock, NoPlain, Pending
<1>4. CASE Close(p)
  BY <1>4, VaultAssumption DEF TypeOK, Close, Working, NoPlain, Pending
<1>5. ASSUME NEW k \in Keys, NEW v \in Passwords, SetDBPassword(p, k, v)
      PROVE  SoloInv'
  BY <1>5, VaultAssumption DEF TypeOK, SetDBPassword, UpsertSecret, Encrypt, Working, Cipher, NoPlain, Pending
<1>6. ASSUME NEW k \in Keys, DeleteDBPassword(p, k)
      PROVE  SoloInv'
  BY <1>6, VaultAssumption DEF TypeOK, DeleteDBPassword, Working, NoPlain, Pending
<1>7. ASSUME NEW k \in Keys, SkipSecret(p, k)
      PROVE  SoloInv'
  BY <1>7, VaultAssumption DEF TypeOK, SkipSecret, NoPlain, Pending
<1>8. ASSUME NEW k \in Keys, ReadSecret(p, k)
      PROVE  SoloInv'
  BY <1>8, VaultAssumption DEF TypeOK, ReadSecret, CanDecrypt, NoPlain, Pending
<1>9. ASSUME NEW k \in Keys, RefuseSecret(p, k)
      PROVE  SoloInv'
  BY <1>9, VaultAssumption DEF TypeOK, RefuseSecret, Abort, NoPlain, Pending
<1>10. ASSUME NEW k \in Keys, WriteSecret(p, k)
      PROVE  SoloInv'
  BY <1>10, VaultAssumption DEF TypeOK, WriteSecret, UpsertSecret, Encrypt, Cipher, NoPlain, Pending
<1>11. ASSUME NEW v \in Passwords, SetS3SecretKey(p, v)
      PROVE  SoloInv'
  BY <1>11, VaultAssumption DEF TypeOK, SetS3SecretKey, Encrypt, Working, NoPlain, Pending
<1>12. CASE ListSecrets(p)
  BY <1>12, VaultAssumption DEF TypeOK, ListSecrets, Working, NoPlain, Pending
<1>13. CASE ReadMeta(p)
  BY <1>13, VaultAssumption DEF TypeOK, ReadMeta, NoPlain, Pending
<1>14. CASE RefuseMeta(p)
  BY <1>14, VaultAssumption DEF TypeOK, RefuseMeta, Abort, NoPlain, Pending
<1>15. CASE PublishMeta(p)
  <2>1. \A k \in Keys :
           /\ secrets[k] = None => plain[p][k] = None
           /\ secrets[k] # None => \/ plain[p][k] = secrets[k].plain /\ plain[p][k] # None
                                   \/ plain[p][k] = None /\ k \in orphaned
    BY <1>15, VaultAssumption DEF TypeOK, PublishMeta, Cipher
  <2>2. todo'[p] = {k \in Keys : plain[p][k] # None} /\ phase'[p] = "write"
    BY <1>15 DEF TypeOK, PublishMeta
  <2>3. UNCHANGED <<secrets, session, plain, orphaned>>
    BY <1>15 DEF PublishMeta
  <2>4. SecretsReadable'
    BY <2>1, <2>2, <2>3 DEF Pending
  <2>5. ChangeHoldsSecrets'
    BY <1>15, <2>1, <2>2, <2>3 DEF TypeOK, PublishMeta
  <2>6. SessionsCurrent'
    BY <1>15, <2>3 DEF TypeOK, PublishMeta
  <2>7. S3Readable'
    BY <1>15 DEF PublishMeta, Encrypt
  <2>8. FreshVault' /\ OneAtATime'
    BY <1>15, <2>3 DEF TypeOK, PublishMeta
  <2> QED
    BY <2>4, <2>5, <2>6, <2>7, <2>8
<1>16. CASE FinishChange(p)
  BY <1>16, VaultAssumption DEF TypeOK, FinishChange, NoPlain, Pending
<1>17. CASE Fail(p)
  BY <1>17, VaultAssumption DEF TypeOK, Fail, Abort, NoPlain, Pending
<1>18. ASSUME NEW k \in Keys, MissSecret(p, k)
      PROVE  SoloInv'
  BY <1>18, VaultAssumption DEF TypeOK, MissSecret, NoPlain, Pending
<1> QED
  BY <1>1, <1>2, <1>3, <1>4, <1>5, <1>6, <1>7, <1>8, <1>9, <1>10, <1>11, <1>12, <1>13,
     <1>14, <1>15, <1>16, <1>17, <1>18 DEF Step, Trouble

\* The new vault satisfies SoloInv.
LEMMA InitSolo == Init => SoloInv
  BY DEF Init, SoloInv, OneAtATime, FreshVault, SessionsCurrent, ChangeHoldsSecrets,
         SecretsReadable, S3Readable, Busy, Idle, NoPlain

\* A stuttering step keeps SoloInv.
LEMMA StutterSolo ==
    ASSUME SoloInv, UNCHANGED vars
    PROVE  SoloInv'
  BY DEF SoloInv, OneAtATime, FreshVault, SessionsCurrent, ChangeHoldsSecrets,
         SecretsReadable, S3Readable, Busy, Idle, Pending, NoPlain,
         vars, meta, tables, locals, history

\* With one process at a time, types, SharedInv and SoloInv are kept together.
LEMMA SoloInductive == SoloSpec => [](TypeOK /\ SharedInv /\ SoloInv)
<1>1. TypeOK /\ SharedInv /\ SoloInv /\ [SoloNext]_vars
      => (TypeOK /\ SharedInv /\ SoloInv)'
  <2> SUFFICES ASSUME TypeOK, SharedInv, SoloInv, [SoloNext]_vars
               PROVE  TypeOK' /\ SharedInv' /\ SoloInv'
    OBVIOUS
  <2>1. CASE UNCHANGED vars
    BY <2>1, StutterShared, StutterSolo
  <2>2. ASSUME NEW p \in Procs, Alone(p), Step(p)
        PROVE  TypeOK' /\ SharedInv' /\ SoloInv'
    BY <2>2, StepType, SharedStep, SoloStep DEF SharedInv
  <2>3. ASSUME NEW p \in Procs, Alone(p), Trouble(p)
        PROVE  TypeOK' /\ SharedInv' /\ SoloInv'
    BY <2>3, FailType, SharedFail, SoloStep
  <2> QED
    BY <2>1, <2>2, <2>3 DEF SoloNext
<1> QED
  BY <1>1, InitShared, InitSolo, PTL DEF SoloSpec

\* With one process at a time in the vault, session.go keeps in the database and
\* in that process's memory, together, every password no failure has lost.
THEOREM SoloInvariant == SoloSpec => []SoloVault
<1>1. TypeOK /\ SharedInv /\ SoloInv => SoloVault
  BY DEF SoloVault
<1> QED
  BY <1>1, SoloInductive, PTL

\* A password is unreadable only if a change failed to read it or to write it.
THEOREM SecretsStayReadable == SoloSpec => []SecretsReadable
<1>1. SoloInv => SecretsReadable
  BY DEF SoloInv
<1> QED
  BY <1>1, SoloInductive, PTL

\* The S3 secret is readable always, failures included.
THEOREM S3StaysReadable == SoloSpec => []S3Readable
<1>1. SoloInv => S3Readable
  BY DEF SoloInv
<1> QED
  BY <1>1, SoloInductive, PTL

\* A change publishes its new salt only over rows that it read or skipped.
THEOREM UnreadableStopsChange == SoloSpec => ChangeRefusesUnreadable
<1>1. ASSUME TypeOK, SoloInv, SoloNext, salt' # salt, NEW k \in Keys, secrets[k] # None
      PROVE  secrets[k].key = salt \/ SkippedByAll(k)
  <2>1. PICK p \in Procs : Alone(p) /\ (Step(p) \/ Trouble(p))
    BY <1>1 DEF SoloNext
  <2>2. CreateWithMaster(p) \/ PublishMeta(p)
    BY <1>1, <2>1
       DEF Step, Trouble, MissSecret, Fail, InitCheck, Unlock, Close, SetDBPassword, DeleteDBPassword, SkipSecret,
           ReadSecret, RefuseSecret, WriteSecret, SetS3SecretKey, ListSecrets, ReadMeta,
           RefuseMeta, FinishChange, meta
  <2>3. CASE CreateWithMaster(p)
    BY <1>1, <2>3 DEF CreateWithMaster, SoloInv, FreshVault
  <2>4. CASE PublishMeta(p)
    <3>1. secrets[k].key = salt \/ plain[p][k] = None
      BY <1>1, <2>4 DEF PublishMeta, SoloInv, ChangeHoldsSecrets
    <3>2. \A q \in Procs \ {p} : plain[q][k] = None
      BY <1>1, <2>1 DEF Alone, Idle, SoloInv, ChangeHoldsSecrets, NoPlain
    <3> QED
      BY <3>1, <3>2 DEF SkippedByAll
  <2> QED
    BY <2>2, <2>3, <2>4
<1>2. TypeOK /\ SoloInv /\ [SoloNext]_vars
      => [salt' # salt => \A k \in Keys :
             secrets[k] # None => secrets[k].key = salt \/ SkippedByAll(k)]_vars
  BY <1>1
<1> QED
  BY <1>2, SoloInductive, PTL DEF SoloSpec, ChangeRefusesUnreadable

\* The id in the names of encrypted dumps survives every change of master.
THEOREM EncIdKept == SoloSpec => EncIdStable
<1>1. ASSUME TypeOK, SoloInv, SoloNext, encId # 0
      PROVE  encId' = encId
  <2>1. PICK p \in Procs : Alone(p) /\ (Step(p) \/ Trouble(p))
    BY <1>1 DEF SoloNext
  <2>2. CASE CreateWithMaster(p)
    BY <1>1, <2>2 DEF CreateWithMaster, SoloInv, FreshVault
  <2>3. CASE PublishMeta(p)
    BY <1>1, <2>3 DEF PublishMeta, SoloInv, ChangeHoldsSecrets
  <2>4. CASE ~CreateWithMaster(p) /\ ~PublishMeta(p)
    BY <1>1, <2>1, <2>4
       DEF Step, Trouble, MissSecret, Fail, InitCheck, Unlock, Close, SetDBPassword, DeleteDBPassword, SkipSecret,
           ReadSecret, RefuseSecret, WriteSecret, SetS3SecretKey, ListSecrets, ReadMeta,
           RefuseMeta, FinishChange, meta
  <2> QED
    BY <2>2, <2>3, <2>4
<1>2. TypeOK /\ SoloInv /\ [SoloNext]_vars => [encId # 0 => encId' = encId]_vars
  BY <1>1 DEF vars, meta
<1> QED
  BY <1>2, SoloInductive, PTL DEF SoloSpec, EncIdStable

-----------------------------------------------------------------------------
(* The vault implements SecretMap                                          *)

\* What each kind of step does to the map of readable passwords.
LEMMA StoredKept ==
    ASSUME TypeOK, SoloInv, NEW p \in Procs, Alone(p),
           \/ InitCheck(p) \/ CreateWithMaster(p) \/ Unlock(p) \/ Close(p)
           \/ \E k \in Keys : SkipSecret(p, k) \/ ReadSecret(p, k) \/ RefuseSecret(p, k)
           \/ \E v \in Passwords : SetS3SecretKey(p, v)
           \/ ListSecrets(p) \/ ReadMeta(p) \/ RefuseMeta(p) \/ FinishChange(p)
    PROVE  UNCHANGED <<Stored, failures>>
<1> USE DEF TypeOK, SoloInv, OneAtATime, FreshVault, SessionsCurrent, ChangeHoldsSecrets, Busy,
            Idle, Alone, meta, tables, locals, history
<1>1. UNCHANGED <<secrets, failures, orphaned>>
  BY DEF InitCheck, CreateWithMaster, Unlock, Close, SkipSecret, ReadSecret, RefuseSecret,
         SetS3SecretKey, ListSecrets, ReadMeta, RefuseMeta, FinishChange
<1>2. ASSUME NEW k \in Keys, secrets[k] # None
      PROVE  (secrets[k].key = salt \/ Pending(k)) <=> (secrets[k].key = salt \/ Pending(k))'
  <2>1. salt' = salt
    BY <1>2 DEF InitCheck, CreateWithMaster, Unlock, Close, SkipSecret, ReadSecret, RefuseSecret,
         SetS3SecretKey, ListSecrets, ReadMeta, RefuseMeta, FinishChange
  <2>2. (\A q \in Procs : phase[q] = "write" => todo[q] = {})
        /\ \A q \in Procs : phase'[q] # "write"
    BY <1>2 DEF InitCheck, CreateWithMaster, Unlock, Close, SkipSecret, ReadSecret, RefuseSecret,
         SetS3SecretKey, ListSecrets, ReadMeta, RefuseMeta, FinishChange, Abort, Working
  <2>3. ~Pending(k) /\ ~Pending(k)'
    BY <2>2 DEF Pending
  <2> QED
    BY <1>1, <2>1, <2>3
<1> QED
  BY <1>1, <1>2 DEF Stored

\* Saving changes the map at its key only, and to what was saved.
LEMMA StoredSaved ==
    ASSUME TypeOK, SoloInv, NEW p \in Procs, Alone(p), NEW k \in Keys, NEW v \in Passwords,
           SetDBPassword(p, k, v)
    PROVE  Stored' = [Stored EXCEPT ![k] = v] /\ failures' = failures
<1>1. /\ secrets' = [secrets EXCEPT ![k] = Encrypt(salt, v)]
      /\ UNCHANGED <<salt, phase, todo, plain, failures>>
      /\ orphaned' = orphaned \ {k}
      /\ salt \in Nat
  BY DEF TypeOK, SoloInv, SessionsCurrent, SetDBPassword, Working, Idle, UpsertSecret, meta, locals
<1>2. \A q \in Procs : phase[q] # "write"
  BY DEF TypeOK, Alone, SetDBPassword, Working, Idle
<1>3. \A j \in Keys : ~Pending(j) /\ ~Pending(j)'
  BY <1>1, <1>2 DEF Pending
<1>4. Encrypt(salt, v) # None /\ Encrypt(salt, v).key = salt /\ Encrypt(salt, v).plain = v
  BY <1>1, VaultAssumption DEF Encrypt, Cipher
<1> QED
  BY <1>1, <1>3, <1>4 DEF TypeOK, Stored

\* Wiping empties the map at its key only.
LEMMA StoredWiped ==
    ASSUME TypeOK, SoloInv, NEW p \in Procs, Alone(p), NEW k \in Keys, DeleteDBPassword(p, k)
    PROVE  Stored' = [Stored EXCEPT ![k] = None] /\ failures' = failures
<1>1. /\ secrets' = [secrets EXCEPT ![k] = None]
      /\ UNCHANGED <<salt, phase, todo, plain, failures>>
      /\ orphaned' = orphaned \ {k}
  BY DEF DeleteDBPassword, meta, locals
<1>2. \A q \in Procs : phase[q] # "write"
  BY DEF TypeOK, Alone, DeleteDBPassword, Working, Idle
<1>3. \A j \in Keys : ~Pending(j) /\ ~Pending(j)'
  BY <1>1, <1>2 DEF Pending
<1> QED
  BY <1>1, <1>3 DEF TypeOK, Stored

\* Publishing the new salt leaves every password in the memory of the change.
LEMMA StoredPublished ==
    ASSUME TypeOK, SoloInv, NEW p \in Procs, Alone(p), PublishMeta(p)
    PROVE  UNCHANGED <<Stored, failures>>
<1>1. \A k \in Keys : secrets[k] # None /\ k \notin orphaned =>
         secrets[k].key = salt /\ plain[p][k] = secrets[k].plain /\ plain[p][k] # None
  BY VaultAssumption DEF TypeOK, Cipher, SoloInv, ChangeHoldsSecrets, PublishMeta
<1>2. /\ UNCHANGED <<secrets, plain, failures, orphaned>>
      /\ phase'[p] = "write" /\ todo'[p] = {k \in Keys : plain[p][k] # None}
  BY DEF TypeOK, PublishMeta, tables, history
<1>3. \A k \in Keys : secrets[k] # None /\ k \notin orphaned => Pending(k)'
  BY <1>1, <1>2 DEF Pending
<1> QED
  BY <1>1, <1>2, <1>3 DEF Stored

\* Writing one row back keeps it readable and leaves the others in memory.
LEMMA StoredWritten ==
    ASSUME TypeOK, SoloInv, NEW p \in Procs, Alone(p), NEW k \in Keys, WriteSecret(p, k)
    PROVE  UNCHANGED <<Stored, failures>>
<1>1. /\ secrets[k] # None /\ plain[p][k] = secrets[k].plain /\ newKey[p] = salt
      /\ Pending(k)
  BY DEF SoloInv, SessionsCurrent, ChangeHoldsSecrets, WriteSecret, Pending
<1>2. /\ secrets' = [secrets EXCEPT ![k] = Encrypt(salt, secrets[k].plain)]
      /\ todo' = [todo EXCEPT ![p] = @ \ {k}]
      /\ UNCHANGED <<salt, phase, plain, failures, orphaned>>
  BY <1>1 DEF WriteSecret, UpsertSecret, meta, history
<1>3. secrets[k].plain \in Passwords /\ salt \in Nat
  BY <1>1 DEF TypeOK, Cipher
<1>4. /\ Encrypt(salt, secrets[k].plain) # None
      /\ Encrypt(salt, secrets[k].plain).key = salt
      /\ Encrypt(salt, secrets[k].plain).plain = secrets[k].plain
  BY <1>3, VaultAssumption DEF Encrypt, Cipher
<1>5. \A j \in Keys \ {k} : secrets'[j] = secrets[j] /\ (Pending(j)' <=> Pending(j))
  BY <1>2 DEF TypeOK, Pending
<1> QED
  BY <1>1, <1>2, <1>4, <1>5 DEF TypeOK, Stored

\* A failure loses at most rows that exist.
LEMMA StoredLost ==
    ASSUME TypeOK, SoloInv, NEW p \in Procs, Alone(p), Trouble(p)
    PROVE  Abstract!Next
<1>1. UNCHANGED <<secrets, salt>> /\ failures' = failures + 1 /\ orphaned \subseteq orphaned'
  BY DEF Trouble, Fail, MissSecret, tables, meta
<1>2. (\A q \in Procs : phase'[q] # "write") \/ UNCHANGED phase
  BY DEF TypeOK, Trouble, Fail, MissSecret, Abort, Alone, Idle
<1>3. \A k \in Keys : Pending(k)' => Pending(k)
  BY <1>1, <1>2 DEF TypeOK, Pending, Trouble, Fail, MissSecret, Abort, Alone, Idle
<1> DEFINE S == {k \in Keys : Stored'[k] = Lost}
<1>4. \A k \in Keys : Stored[k] = None <=> secrets[k] = None
  BY VaultAssumption DEF TypeOK, Cipher, Stored
<1>5. \A k \in S : Stored[k] # None
  BY <1>1, <1>4, VaultAssumption DEF Stored
<1>6. ASSUME NEW k \in Keys, k \notin S
      PROVE  Stored'[k] = Stored[k]
  BY <1>1, <1>3, <1>6 DEF Stored
<1>7. Stored' = [k \in Keys |-> IF k \in S THEN Lost ELSE Stored[k]]
  BY <1>6 DEF Stored
<1>8. Abstract!Lose(S)
  BY <1>1, <1>5, <1>7 DEF Abstract!Lose
<1> QED
  BY <1>8 DEF Abstract!Next

\* The vault implements the map of passwords: see ImplementsSecretMap.
THEOREM VaultImplementsSecretMap == SoloSpec => ImplementsSecretMap
<1>1. Init => Abstract!Init
  BY DEF Init, Abstract!Init, Stored
<1>2. TypeOK /\ SoloInv /\ [SoloNext]_vars => [Abstract!Next]_<<Stored, failures>>
  <2> SUFFICES ASSUME TypeOK, SoloInv, [SoloNext]_vars
               PROVE  [Abstract!Next]_<<Stored, failures>>
    OBVIOUS
  <2>1. CASE UNCHANGED vars
    BY <2>1 DEF vars, meta, tables, locals, history, Stored, Pending
  <2>2. ASSUME NEW p \in Procs, Alone(p), Step(p)
        PROVE  [Abstract!Next]_<<Stored, failures>>
    <3>1. ASSUME NEW k \in Keys, NEW v \in Passwords, SetDBPassword(p, k, v)
          PROVE  Abstract!Next
      BY <2>2, <3>1, StoredSaved DEF Abstract!Next, Abstract!Save
    <3>2. ASSUME NEW k \in Keys, DeleteDBPassword(p, k)
          PROVE  Abstract!Next
      BY <2>2, <3>2, StoredWiped DEF Abstract!Next, Abstract!Wipe
    <3>3. CASE PublishMeta(p)
      BY <2>2, <3>3, StoredPublished
    <3>4. ASSUME NEW k \in Keys, WriteSecret(p, k)
          PROVE  UNCHANGED <<Stored, failures>>
      BY <2>2, <3>4, StoredWritten
    <3> QED
      BY <2>2, <3>1, <3>2, <3>3, <3>4, StoredKept DEF Step
  <2>3. ASSUME NEW p \in Procs, Alone(p), Trouble(p)
        PROVE  [Abstract!Next]_<<Stored, failures>>
    BY <2>3, StoredLost
  <2> QED
    BY <2>1, <2>2, <2>3 DEF SoloNext
<1> QED
  BY <1>1, <1>2, SoloInductive, PTL DEF SoloSpec, ImplementsSecretMap, Abstract!Spec
==============================================================================
