---------------------------- MODULE DumpsProofs ----------------------------
(***************************************************************************)
(* Theorems about the dump files of one program, for any number of dumps,  *)
(* of this vault and of others, and of changes of master; and that they    *)
(* implement DumpStore.                                                    *)
(***************************************************************************)
EXTENDS Dumps, TLAPS

-----------------------------------------------------------------------------
(* The inductive invariant                                                 *)

\* What a phase works on: a dump it has begun, a decrypted copy, the dumps a change
\* has left; and no session between two runs.
WorksOn ==
    /\ pc \in DumpPhases \cup {"rewrite"} => cur \in Own
    /\ pc = "restore" => cur \in Dumps
    /\ pc \in {"off", "menu", "choose", "delete", "reencrypt"} => cur = None
    /\ temp # None => pc = "restore" /\ temp = cur
    /\ todo \subseteq Own
    /\ pc = "off" => session = None
    /\ pc \in DumpPhases => cur \in begun

\* While a dump is taken its plain file is whole from pg_dump's end to its removal,
\* and it is removed when the encrypted one can be read.
PlainUntilEncrypted ==
    /\ dumped \subseteq begun /\ encrypted \subseteq begun
    /\ pc = "pg_dump" => cur \notin dumped
    /\ pc \in {"sync_restore", "encrypt", "enc_write", "remove"} => plainFile[cur] = Whole
    /\ pc = "enc_write" => session \in Nat
    /\ pc = "remove" => encFile[cur] \in Nat

\* A dump taken with encryptedDump set is encrypted by its own operation, or exposed,
\* and so is one of which a decrypted copy is left.
PlainWhileTaken ==
    /\ pc \in DumpPhases => (cur \in encrypted <=> encryptedDump = TRUE)
    /\ \A d \in encrypted : plainFile[d] = Whole =>
           \/ d \in exposed
           \/ cur = d /\ pc \in {"sync_restore", "encrypt", "enc_write", "remove"}
    /\ leftover \subseteq exposed

DumpsInv ==
    /\ DumpKept /\ EncryptedUnderCurrentKey /\ PlaintextConfined /\ SessionNeverStale
    /\ WorksOn /\ PlainUntilEncrypted /\ PlainWhileTaken

-----------------------------------------------------------------------------
(* Every step keeps it                                                     *)

\* Every step keeps the types.
LEMMA TypeStep ==
    ASSUME TypeOK, WorksOn, Next
    PROVE  TypeOK'
<1> USE DumpsAssumption DEF disk, program, history, Own, ForeignKey
<1>1. ASSUME NEW b \in BOOLEAN, Start(b)
      PROVE  TypeOK'
  BY <1>1 DEF TypeOK, Start
<1>2. ASSUME NEW d \in Dumps, NEW b \in BOOLEAN, StartDump(d, b)
      PROVE  TypeOK'
  BY <1>2 DEF TypeOK, DumpPhases, StartDump
<1>3. ASSUME NEW phase \in {"delete", "reencrypt"}, Choose(phase)
      PROVE  TypeOK'
  BY <1>3 DEF TypeOK, ChangePhases, Choose
<1>4. CASE Exit
  BY <1>4 DEF TypeOK, Exit
<1>5. CASE PgDumpOk
  BY <1>5 DEF TypeOK, WorksOn, DumpPhases, PgDumpOk
<1>6. CASE PgDumpFails
  BY <1>6 DEF TypeOK, PgDumpFails, Return
<1>7. CASE SyncRestoreOk
  BY <1>7 DEF TypeOK, DumpPhases, SyncRestoreOk
<1>8. CASE SyncRestoreFails
  BY <1>8 DEF TypeOK, WorksOn, DumpPhases, SyncRestoreFails, Return
<1>9. CASE KeepPlain
  BY <1>9 DEF TypeOK, DumpPhases, KeepPlain
<1>10. CASE NoKey
  BY <1>10 DEF TypeOK, WorksOn, DumpPhases, NoKey, Return
<1>11. CASE EncryptBegins
  BY <1>11 DEF TypeOK, DumpPhases, EncryptBegins
<1>12. CASE EncryptWritten
  BY <1>12 DEF TypeOK, DumpPhases, EncryptWritten
<1>13. CASE EncryptFails
  BY <1>13 DEF TypeOK, WorksOn, DumpPhases, EncryptFails, Return
<1>14. CASE RemovePlain
  BY <1>14 DEF TypeOK, DumpPhases, RemovePlain
<1>15. CASE RemoveFails
  BY <1>15 DEF TypeOK, WorksOn, DumpPhases, RemoveFails
<1>16. CASE RecordDump
  <2>1. <<cur, IF encryptedDump THEN "encrypted" ELSE "plain">> \in Dumps \X {"plain", "encrypted"}
    BY <1>16 DEF WorksOn, DumpPhases, RecordDump
  <2>2. registry' \in SUBSET (Dumps \X {"plain", "encrypted"})
    BY <1>16, <2>1 DEF TypeOK, RecordDump
  <2> QED
    BY <1>16, <2>2 DEF TypeOK, RecordDump, Return
<1>17. CASE RecordFails
  BY <1>17 DEF TypeOK, RecordFails, Return
<1>18. CASE RestoreEnds
  BY <1>18 DEF TypeOK, RestoreEnds, Return
<1>19. CASE Mismatch
  BY <1>19 DEF TypeOK, Mismatch, DropSession, Return
<1>20. CASE ChangeVault
  BY <1>20 DEF TypeOK, ChangePhases, ChangeVault, EncryptedNames, Unreadable
<1>21. CASE ChangeVaultFails
  BY <1>21 DEF TypeOK, ChangeVaultFails, DropSession, Return, Unreadable
<1>22. CASE CancelChoice
  BY <1>22 DEF TypeOK, CancelChoice, Unreadable
<1>23. CASE RewriteDone
  BY <1>23 DEF TypeOK, ChangePhases, RewriteDone
<1>24. CASE DumpsStepFails
  BY <1>24 DEF TypeOK, WorksOn, DumpsStepFails, DropSession, Return, Unreadable
<1>25. CASE ChangeDone
  BY <1>25 DEF TypeOK, ChangeDone, Return
<1>26. CASE InitChangeMaster
  BY <1>26 DEF TypeOK, InitChangeMaster, Unreadable
<1>27. CASE Crash
  BY <1>27 DEF TypeOK, WorksOn, Crash, Unreadable
<1>28. ASSUME NEW d \in Dumps, ScanFile(d)
      PROVE  TypeOK'
  BY <1>28 DEF TypeOK, ScanFile
<1>29. ASSUME NEW d \in Dumps, RestorePlain(d)
      PROVE  TypeOK'
  BY <1>29 DEF TypeOK, RestorePlain
<1>30. ASSUME NEW d \in Dumps, RestoreEncrypted(d)
      PROVE  TypeOK'
  BY <1>30 DEF TypeOK, RestoreEncrypted
<1>31. ASSUME NEW d \in Dumps, DecryptWriteFails(d)
      PROVE  TypeOK'
  BY <1>31 DEF TypeOK, DecryptWriteFails
<1>32. ASSUME NEW d \in Dumps, DeleteOne(d)
      PROVE  TypeOK'
  BY <1>32 DEF TypeOK, WorksOn, ChangePhases, DumpPhases, DeleteOne
<1>33. ASSUME NEW d \in Dumps, RewriteBegins(d)
      PROVE  TypeOK'
  BY <1>33 DEF TypeOK, ChangePhases, RewriteBegins
<1>34. ASSUME NEW d \in Dumps, RewriteRefused(d)
      PROVE  TypeOK'
  BY <1>34 DEF TypeOK, RewriteRefused, DropSession, Return, Unreadable
<1>35. ASSUME NEW d \in Dumps, PassOver(d)
      PROVE  TypeOK'
  BY <1>35 DEF TypeOK, WorksOn, ChangePhases, DumpPhases, PassOver, Unreadable
<1>36. CASE CopyStays
  BY <1>36 DEF TypeOK, WorksOn, CopyStays, Return
<1> QED
  BY <1>1, <1>2, <1>3, <1>4, <1>5, <1>6, <1>7, <1>8, <1>9, <1>10, <1>11, <1>12,
     <1>13, <1>14, <1>15, <1>16, <1>17, <1>18, <1>19, <1>20, <1>21, <1>22, <1>23, <1>24,
     <1>25, <1>26, <1>27, <1>28, <1>29, <1>30, <1>31, <1>32, <1>33, <1>34, <1>35, <1>36
     DEF Next, CleanStep, FailedStep

\* Every phase has the dump it works on.
LEMMA WorkStep ==
    ASSUME WorksOn, Next
    PROVE  WorksOn'
<1> USE DumpsAssumption DEF disk, program, history, Own, ForeignKey
<1>1. ASSUME NEW b \in BOOLEAN, Start(b)
      PROVE  WorksOn'
  BY <1>1 DEF WorksOn, DumpPhases, Start
<1>2. ASSUME NEW d \in Dumps, NEW b \in BOOLEAN, StartDump(d, b)
      PROVE  WorksOn'
  BY <1>2 DEF WorksOn, StartDump
<1>3. ASSUME NEW phase \in {"delete", "reencrypt"}, Choose(phase)
      PROVE  WorksOn'
  BY <1>3 DEF WorksOn, DumpPhases, Choose
<1>4. CASE Exit
  BY <1>4 DEF WorksOn, DumpPhases, Exit
<1>5. CASE PgDumpOk
  BY <1>5 DEF WorksOn, DumpPhases, PgDumpOk
<1>6. CASE PgDumpFails
  BY <1>6 DEF WorksOn, DumpPhases, PgDumpFails, Return
<1>7. CASE SyncRestoreOk
  BY <1>7 DEF WorksOn, DumpPhases, SyncRestoreOk
<1>8. CASE SyncRestoreFails
  BY <1>8 DEF WorksOn, DumpPhases, SyncRestoreFails, Return
<1>9. CASE KeepPlain
  BY <1>9 DEF WorksOn, DumpPhases, KeepPlain
<1>10. CASE NoKey
  BY <1>10 DEF WorksOn, DumpPhases, NoKey, Return
<1>11. CASE EncryptBegins
  BY <1>11 DEF WorksOn, DumpPhases, EncryptBegins
<1>12. CASE EncryptWritten
  BY <1>12 DEF WorksOn, DumpPhases, EncryptWritten
<1>13. CASE EncryptFails
  BY <1>13 DEF WorksOn, DumpPhases, EncryptFails, Return
<1>14. CASE RemovePlain
  BY <1>14 DEF WorksOn, DumpPhases, RemovePlain
<1>15. CASE RemoveFails
  BY <1>15 DEF WorksOn, DumpPhases, RemoveFails
<1>16. CASE RecordDump
  BY <1>16 DEF WorksOn, DumpPhases, RecordDump, Return
<1>17. CASE RecordFails
  BY <1>17 DEF WorksOn, DumpPhases, RecordFails, Return
<1>18. CASE RestoreEnds
  BY <1>18 DEF WorksOn, DumpPhases, RestoreEnds, Return
<1>19. CASE Mismatch
  BY <1>19 DEF WorksOn, Mismatch, DropSession, Return
<1>20. CASE ChangeVault
  BY <1>20 DEF WorksOn, DumpPhases, ChangeVault, EncryptedNames
<1>21. CASE ChangeVaultFails
  BY <1>21 DEF WorksOn, ChangeVaultFails, DropSession, Return
<1>22. CASE CancelChoice
  BY <1>22 DEF WorksOn, DumpPhases, CancelChoice
<1>23. CASE RewriteDone
  BY <1>23 DEF WorksOn, DumpPhases, RewriteDone
<1>24. CASE DumpsStepFails
  BY <1>24 DEF WorksOn, DumpPhases, DumpsStepFails, DropSession, Return
<1>25. CASE ChangeDone
  BY <1>25 DEF WorksOn, DumpPhases, ChangeDone, Return
<1>26. CASE InitChangeMaster
  BY <1>26 DEF WorksOn, InitChangeMaster
<1>27. CASE Crash
  BY <1>27 DEF WorksOn, DumpPhases, Crash
<1>28. ASSUME NEW d \in Dumps, ScanFile(d)
      PROVE  WorksOn'
  BY <1>28 DEF WorksOn, ScanFile
<1>29. ASSUME NEW d \in Dumps, RestorePlain(d)
      PROVE  WorksOn'
  BY <1>29 DEF WorksOn, DumpPhases, RestorePlain
<1>30. ASSUME NEW d \in Dumps, RestoreEncrypted(d)
      PROVE  WorksOn'
  BY <1>30 DEF WorksOn, DumpPhases, RestoreEncrypted
<1>31. ASSUME NEW d \in Dumps, DecryptWriteFails(d)
      PROVE  WorksOn'
  BY <1>31 DEF WorksOn, DecryptWriteFails
<1>32. ASSUME NEW d \in Dumps, DeleteOne(d)
      PROVE  WorksOn'
  BY <1>32 DEF WorksOn, DeleteOne
<1>33. ASSUME NEW d \in Dumps, RewriteBegins(d)
      PROVE  WorksOn'
  BY <1>33 DEF WorksOn, DumpPhases, RewriteBegins
<1>34. ASSUME NEW d \in Dumps, RewriteRefused(d)
      PROVE  WorksOn'
  BY <1>34 DEF WorksOn, DumpPhases, RewriteRefused, DropSession, Return
<1>35. ASSUME NEW d \in Dumps, PassOver(d)
      PROVE  WorksOn'
  BY <1>35 DEF WorksOn, PassOver
<1>36. CASE CopyStays
  BY <1>36 DEF WorksOn, DumpPhases, CopyStays, Return
<1> QED
  BY <1>1, <1>2, <1>3, <1>4, <1>5, <1>6, <1>7, <1>8, <1>9, <1>10, <1>11, <1>12,
     <1>13, <1>14, <1>15, <1>16, <1>17, <1>18, <1>19, <1>20, <1>21, <1>22, <1>23, <1>24,
     <1>25, <1>26, <1>27, <1>28, <1>29, <1>30, <1>31, <1>32, <1>33, <1>34, <1>35, <1>36
     DEF Next, CleanStep, FailedStep

\* No error path keeps a key that was replaced.
LEMMA SessionStep ==
    ASSUME WorksOn, SessionNeverStale, Next
    PROVE  SessionNeverStale'
<1> USE DumpsAssumption DEF disk, program, history, Own, ForeignKey
<1>1. ASSUME NEW b \in BOOLEAN, Start(b)
      PROVE  SessionNeverStale'
  BY <1>1 DEF SessionNeverStale, Start
<1>2. ASSUME NEW d \in Dumps, NEW b \in BOOLEAN, StartDump(d, b)
      PROVE  SessionNeverStale'
  BY <1>2 DEF SessionNeverStale, ChangePhases, StartDump
<1>3. ASSUME NEW phase \in {"delete", "reencrypt"}, Choose(phase)
      PROVE  SessionNeverStale'
  BY <1>3 DEF SessionNeverStale, ChangePhases, Choose
<1>4. CASE Exit
  BY <1>4 DEF SessionNeverStale, Exit
<1>5. CASE PgDumpOk
  BY <1>5 DEF SessionNeverStale, ChangePhases, PgDumpOk
<1>6. CASE PgDumpFails
  BY <1>6 DEF SessionNeverStale, ChangePhases, PgDumpFails
<1>7. CASE SyncRestoreOk
  BY <1>7 DEF SessionNeverStale, ChangePhases, SyncRestoreOk
<1>8. CASE SyncRestoreFails
  BY <1>8 DEF SessionNeverStale, ChangePhases, SyncRestoreFails
<1>9. CASE KeepPlain
  BY <1>9 DEF SessionNeverStale, ChangePhases, KeepPlain
<1>10. CASE NoKey
  BY <1>10 DEF SessionNeverStale, NoKey
<1>11. CASE EncryptBegins
  BY <1>11 DEF SessionNeverStale, ChangePhases, EncryptBegins
<1>12. CASE EncryptWritten
  BY <1>12 DEF SessionNeverStale, ChangePhases, EncryptWritten
<1>13. CASE EncryptFails
  BY <1>13 DEF SessionNeverStale, ChangePhases, EncryptFails
<1>14. CASE RemovePlain
  BY <1>14 DEF SessionNeverStale, ChangePhases, RemovePlain
<1>15. CASE RemoveFails
  BY <1>15 DEF SessionNeverStale, ChangePhases, RemoveFails
<1>16. CASE RecordDump
  BY <1>16 DEF SessionNeverStale, ChangePhases, RecordDump
<1>17. CASE RecordFails
  BY <1>17 DEF SessionNeverStale, ChangePhases, RecordFails
<1>18. CASE RestoreEnds
  BY <1>18 DEF SessionNeverStale, ChangePhases, RestoreEnds
<1>19. CASE Mismatch
  BY <1>19 DEF SessionNeverStale, Mismatch, DropSession
<1>20. CASE ChangeVault
  BY <1>20 DEF SessionNeverStale, ChangePhases, ChangeVault
<1>21. CASE ChangeVaultFails
  BY <1>21 DEF SessionNeverStale, ChangeVaultFails, DropSession
<1>22. CASE CancelChoice
  BY <1>22 DEF SessionNeverStale, CancelChoice
<1>23. CASE RewriteDone
  BY <1>23 DEF SessionNeverStale, ChangePhases, RewriteDone
<1>24. CASE DumpsStepFails
  BY <1>24 DEF SessionNeverStale, DumpsStepFails, DropSession
<1>25. CASE ChangeDone
  BY <1>25 DEF SessionNeverStale, ChangeDone
<1>26. CASE InitChangeMaster
  BY <1>26 DEF WorksOn, SessionNeverStale, InitChangeMaster
<1>27. CASE Crash
  BY <1>27 DEF SessionNeverStale, Crash
<1>28. ASSUME NEW d \in Dumps, ScanFile(d)
      PROVE  SessionNeverStale'
  BY <1>28 DEF SessionNeverStale, ScanFile
<1>29. ASSUME NEW d \in Dumps, RestorePlain(d)
      PROVE  SessionNeverStale'
  BY <1>29 DEF SessionNeverStale, ChangePhases, RestorePlain
<1>30. ASSUME NEW d \in Dumps, RestoreEncrypted(d)
      PROVE  SessionNeverStale'
  BY <1>30 DEF SessionNeverStale, ChangePhases, RestoreEncrypted
<1>31. ASSUME NEW d \in Dumps, DecryptWriteFails(d)
      PROVE  SessionNeverStale'
  BY <1>31 DEF SessionNeverStale, DecryptWriteFails
<1>32. ASSUME NEW d \in Dumps, DeleteOne(d)
      PROVE  SessionNeverStale'
  BY <1>32 DEF SessionNeverStale, DeleteOne
<1>33. ASSUME NEW d \in Dumps, RewriteBegins(d)
      PROVE  SessionNeverStale'
  BY <1>33 DEF SessionNeverStale, ChangePhases, RewriteBegins
<1>34. ASSUME NEW d \in Dumps, RewriteRefused(d)
      PROVE  SessionNeverStale'
  BY <1>34 DEF SessionNeverStale, RewriteRefused, DropSession
<1>35. ASSUME NEW d \in Dumps, PassOver(d)
      PROVE  SessionNeverStale'
  BY <1>35 DEF SessionNeverStale, PassOver
<1>36. CASE CopyStays
  BY <1>36 DEF SessionNeverStale, ChangePhases, CopyStays
<1> QED
  BY <1>1, <1>2, <1>3, <1>4, <1>5, <1>6, <1>7, <1>8, <1>9, <1>10, <1>11, <1>12,
     <1>13, <1>14, <1>15, <1>16, <1>17, <1>18, <1>19, <1>20, <1>21, <1>22, <1>23, <1>24,
     <1>25, <1>26, <1>27, <1>28, <1>29, <1>30, <1>31, <1>32, <1>33, <1>34, <1>35, <1>36
     DEF Next, CleanStep, FailedStep

\* The plain file is whole until the encrypted one is.
LEMMA PlainStep ==
    ASSUME TypeOK, WorksOn, PlainUntilEncrypted, Next
    PROVE  PlainUntilEncrypted'
<1> USE DumpsAssumption DEF disk, program, history, Own, ForeignKey
<1>1. ASSUME NEW b \in BOOLEAN, Start(b)
      PROVE  PlainUntilEncrypted'
  BY <1>1 DEF PlainUntilEncrypted, Start
<1>2. ASSUME NEW d \in Dumps, NEW b \in BOOLEAN, StartDump(d, b)
      PROVE  PlainUntilEncrypted'
  BY <1>2 DEF PlainUntilEncrypted, StartDump
<1>3. ASSUME NEW phase \in {"delete", "reencrypt"}, Choose(phase)
      PROVE  PlainUntilEncrypted'
  BY <1>3 DEF PlainUntilEncrypted, Choose
<1>4. CASE Exit
  BY <1>4 DEF PlainUntilEncrypted, Exit
<1>5. CASE PgDumpOk
  BY <1>5 DEF TypeOK, WorksOn, PlainUntilEncrypted, DumpPhases, PgDumpOk
<1>6. CASE PgDumpFails
  BY <1>6 DEF PlainUntilEncrypted, PgDumpFails, Return
<1>7. CASE SyncRestoreOk
  BY <1>7 DEF TypeOK, WorksOn, PlainUntilEncrypted, ChangePhases, DumpPhases, SyncRestoreOk
<1>8. CASE SyncRestoreFails
  BY <1>8 DEF PlainUntilEncrypted, SyncRestoreFails, Return
<1>9. CASE KeepPlain
  BY <1>9 DEF PlainUntilEncrypted, KeepPlain
<1>10. CASE NoKey
  BY <1>10 DEF PlainUntilEncrypted, NoKey, Return
<1>11. CASE EncryptBegins
  BY <1>11 DEF TypeOK, PlainUntilEncrypted, EncryptBegins
<1>12. CASE EncryptWritten
  BY <1>12 DEF TypeOK, WorksOn, PlainUntilEncrypted, DumpPhases, EncryptWritten
<1>13. CASE EncryptFails
  BY <1>13 DEF PlainUntilEncrypted, EncryptFails, Return
<1>14. CASE RemovePlain
  BY <1>14 DEF PlainUntilEncrypted, RemovePlain
<1>15. CASE RemoveFails
  BY <1>15 DEF PlainUntilEncrypted, RemoveFails
<1>16. CASE RecordDump
  BY <1>16 DEF PlainUntilEncrypted, RecordDump, Return
<1>17. CASE RecordFails
  BY <1>17 DEF PlainUntilEncrypted, RecordFails, Return
<1>18. CASE RestoreEnds
  BY <1>18 DEF PlainUntilEncrypted, RestoreEnds, Return
<1>19. CASE Mismatch
  BY <1>19 DEF PlainUntilEncrypted, Mismatch, DropSession, Return
<1>20. CASE ChangeVault
  BY <1>20 DEF PlainUntilEncrypted, ChangeVault
<1>21. CASE ChangeVaultFails
  BY <1>21 DEF PlainUntilEncrypted, ChangeVaultFails, DropSession, Return
<1>22. CASE CancelChoice
  BY <1>22 DEF PlainUntilEncrypted, CancelChoice
<1>23. CASE RewriteDone
  BY <1>23 DEF PlainUntilEncrypted, RewriteDone
<1>24. CASE DumpsStepFails
  BY <1>24 DEF PlainUntilEncrypted, DumpsStepFails, DropSession, Return
<1>25. CASE ChangeDone
  BY <1>25 DEF PlainUntilEncrypted, ChangeDone, Return
<1>26. CASE InitChangeMaster
  BY <1>26 DEF PlainUntilEncrypted, InitChangeMaster
<1>27. CASE Crash
  BY <1>27 DEF PlainUntilEncrypted, Crash
<1>28. ASSUME NEW d \in Dumps, ScanFile(d)
      PROVE  PlainUntilEncrypted'
  BY <1>28 DEF PlainUntilEncrypted, ScanFile
<1>29. ASSUME NEW d \in Dumps, RestorePlain(d)
      PROVE  PlainUntilEncrypted'
  BY <1>29 DEF PlainUntilEncrypted, RestorePlain
<1>30. ASSUME NEW d \in Dumps, RestoreEncrypted(d)
      PROVE  PlainUntilEncrypted'
  BY <1>30 DEF PlainUntilEncrypted, RestoreEncrypted
<1>31. ASSUME NEW d \in Dumps, DecryptWriteFails(d)
      PROVE  PlainUntilEncrypted'
  BY <1>31 DEF PlainUntilEncrypted, DecryptWriteFails
<1>32. ASSUME NEW d \in Dumps, DeleteOne(d)
      PROVE  PlainUntilEncrypted'
  BY <1>32 DEF PlainUntilEncrypted, DeleteOne
<1>33. ASSUME NEW d \in Dumps, RewriteBegins(d)
      PROVE  PlainUntilEncrypted'
  BY <1>33 DEF PlainUntilEncrypted, RewriteBegins
<1>34. ASSUME NEW d \in Dumps, RewriteRefused(d)
      PROVE  PlainUntilEncrypted'
  BY <1>34 DEF PlainUntilEncrypted, RewriteRefused, DropSession, Return
<1>35. ASSUME NEW d \in Dumps, PassOver(d)
      PROVE  PlainUntilEncrypted'
  BY <1>35 DEF PlainUntilEncrypted, PassOver
<1>36. CASE CopyStays
  BY <1>36 DEF PlainUntilEncrypted, CopyStays, Return
<1> QED
  BY <1>1, <1>2, <1>3, <1>4, <1>5, <1>6, <1>7, <1>8, <1>9, <1>10, <1>11, <1>12,
     <1>13, <1>14, <1>15, <1>16, <1>17, <1>18, <1>19, <1>20, <1>21, <1>22, <1>23, <1>24,
     <1>25, <1>26, <1>27, <1>28, <1>29, <1>30, <1>31, <1>32, <1>33, <1>34, <1>35, <1>36
     DEF Next, CleanStep, FailedStep

\* A completed dump stays whole.
LEMMA KeptStep ==
    ASSUME TypeOK, PlainUntilEncrypted, DumpKept, Next
    PROVE  (TypeOK' => DumpKept')
<1> USE DumpsAssumption DEF disk, program, history, Own, ForeignKey
<1>1. ASSUME NEW b \in BOOLEAN, Start(b)
      PROVE  (TypeOK' => DumpKept')
  BY <1>1 DEF DumpKept, Start
<1>2. ASSUME NEW d \in Dumps, NEW b \in BOOLEAN, StartDump(d, b)
      PROVE  (TypeOK' => DumpKept')
  BY <1>2 DEF PlainUntilEncrypted, DumpKept, StartDump
<1>3. ASSUME NEW phase \in {"delete", "reencrypt"}, Choose(phase)
      PROVE  (TypeOK' => DumpKept')
  BY <1>3 DEF DumpKept, Choose
<1>4. CASE Exit
  BY <1>4 DEF DumpKept, Exit
<1>5. CASE PgDumpOk
  BY <1>5 DEF TypeOK, DumpKept, PgDumpOk
<1>6. CASE PgDumpFails
  BY <1>6 DEF PlainUntilEncrypted, DumpKept, PgDumpFails
<1>7. CASE SyncRestoreOk
  BY <1>7 DEF DumpKept, SyncRestoreOk
<1>8. CASE SyncRestoreFails
  BY <1>8 DEF DumpKept, SyncRestoreFails
<1>9. CASE KeepPlain
  BY <1>9 DEF DumpKept, KeepPlain
<1>10. CASE NoKey
  BY <1>10 DEF DumpKept, NoKey
<1>11. CASE EncryptBegins
  BY <1>11 DEF PlainUntilEncrypted, DumpKept, EncryptBegins
<1>12. CASE EncryptWritten
  BY <1>12 DEF PlainUntilEncrypted, DumpKept, EncryptWritten
<1>13. CASE EncryptFails
  BY <1>13 DEF DumpKept, EncryptFails
<1>14. CASE RemovePlain
  BY <1>14 DEF PlainUntilEncrypted, DumpKept, RemovePlain
<1>15. CASE RemoveFails
  BY <1>15 DEF DumpKept, RemoveFails
<1>16. CASE RecordDump
  BY <1>16 DEF DumpKept, RecordDump
<1>17. CASE RecordFails
  BY <1>17 DEF DumpKept, RecordFails
<1>18. CASE RestoreEnds
  BY <1>18 DEF DumpKept, RestoreEnds
<1>19. CASE Mismatch
  BY <1>19 DEF DumpKept, Mismatch
<1>20. CASE ChangeVault
  BY <1>20 DEF DumpKept, ChangeVault
<1>21. CASE ChangeVaultFails
  BY <1>21 DEF DumpKept, ChangeVaultFails
<1>22. CASE CancelChoice
  BY <1>22 DEF DumpKept, CancelChoice
<1>23. CASE RewriteDone
  BY <1>23 DEF TypeOK, DumpKept, RewriteDone
<1>24. CASE DumpsStepFails
  BY <1>24 DEF DumpKept, DumpsStepFails
<1>25. CASE ChangeDone
  BY <1>25 DEF DumpKept, ChangeDone
<1>26. CASE InitChangeMaster
  BY <1>26 DEF DumpKept, InitChangeMaster
<1>27. CASE Crash
  BY <1>27 DEF DumpKept, Crash
<1>28. ASSUME NEW d \in Dumps, ScanFile(d)
      PROVE  (TypeOK' => DumpKept')
  BY <1>28 DEF DumpKept, ScanFile
<1>29. ASSUME NEW d \in Dumps, RestorePlain(d)
      PROVE  (TypeOK' => DumpKept')
  BY <1>29 DEF DumpKept, RestorePlain
<1>30. ASSUME NEW d \in Dumps, RestoreEncrypted(d)
      PROVE  (TypeOK' => DumpKept')
  BY <1>30 DEF DumpKept, RestoreEncrypted
<1>31. ASSUME NEW d \in Dumps, DecryptWriteFails(d)
      PROVE  (TypeOK' => DumpKept')
  BY <1>31 DEF DumpKept, DecryptWriteFails
<1>32. ASSUME NEW d \in Dumps, DeleteOne(d)
      PROVE  (TypeOK' => DumpKept')
  BY <1>32 DEF DumpKept, DeleteOne
<1>33. ASSUME NEW d \in Dumps, RewriteBegins(d)
      PROVE  (TypeOK' => DumpKept')
  BY <1>33 DEF DumpKept, RewriteBegins
<1>34. ASSUME NEW d \in Dumps, RewriteRefused(d)
      PROVE  (TypeOK' => DumpKept')
  BY <1>34 DEF DumpKept, RewriteRefused
<1>35. ASSUME NEW d \in Dumps, PassOver(d)
      PROVE  (TypeOK' => DumpKept')
  BY <1>35 DEF DumpKept, PassOver
<1>36. CASE CopyStays
  BY <1>36 DEF DumpKept, CopyStays
<1> QED
  BY <1>1, <1>2, <1>3, <1>4, <1>5, <1>6, <1>7, <1>8, <1>9, <1>10, <1>11, <1>12,
     <1>13, <1>14, <1>15, <1>16, <1>17, <1>18, <1>19, <1>20, <1>21, <1>22, <1>23, <1>24,
     <1>25, <1>26, <1>27, <1>28, <1>29, <1>30, <1>31, <1>32, <1>33, <1>34, <1>35, <1>36
     DEF Next, CleanStep, FailedStep

\* Encrypted dumps follow the vault's key.
LEMMA KeyStep ==
    ASSUME TypeOK, SessionNeverStale, EncryptedUnderCurrentKey, Next
    PROVE  EncryptedUnderCurrentKey'
<1> USE DumpsAssumption DEF disk, program, history, Own, ForeignKey
<1>1. ASSUME NEW b \in BOOLEAN, Start(b)
      PROVE  EncryptedUnderCurrentKey'
  BY <1>1 DEF EncryptedUnderCurrentKey, ChangePhases, Start
<1>2. ASSUME NEW d \in Dumps, NEW b \in BOOLEAN, StartDump(d, b)
      PROVE  EncryptedUnderCurrentKey'
  BY <1>2 DEF EncryptedUnderCurrentKey, ChangePhases, StartDump
<1>3. ASSUME NEW phase \in {"delete", "reencrypt"}, Choose(phase)
      PROVE  EncryptedUnderCurrentKey'
  BY <1>3 DEF EncryptedUnderCurrentKey, ChangePhases, Choose
<1>4. CASE Exit
  BY <1>4 DEF EncryptedUnderCurrentKey, ChangePhases, Exit
<1>5. CASE PgDumpOk
  BY <1>5 DEF EncryptedUnderCurrentKey, ChangePhases, PgDumpOk
<1>6. CASE PgDumpFails
  BY <1>6 DEF EncryptedUnderCurrentKey, ChangePhases, PgDumpFails
<1>7. CASE SyncRestoreOk
  BY <1>7 DEF EncryptedUnderCurrentKey, ChangePhases, SyncRestoreOk
<1>8. CASE SyncRestoreFails
  BY <1>8 DEF EncryptedUnderCurrentKey, ChangePhases, SyncRestoreFails
<1>9. CASE KeepPlain
  BY <1>9 DEF EncryptedUnderCurrentKey, ChangePhases, KeepPlain
<1>10. CASE NoKey
  BY <1>10 DEF EncryptedUnderCurrentKey, ChangePhases, NoKey
<1>11. CASE EncryptBegins
  BY <1>11 DEF EncryptedUnderCurrentKey, ChangePhases, EncryptBegins
<1>12. CASE EncryptWritten
  BY <1>12 DEF SessionNeverStale, EncryptedUnderCurrentKey, ChangePhases, EncryptWritten
<1>13. CASE EncryptFails
  BY <1>13 DEF EncryptedUnderCurrentKey, ChangePhases, EncryptFails
<1>14. CASE RemovePlain
  BY <1>14 DEF EncryptedUnderCurrentKey, ChangePhases, RemovePlain
<1>15. CASE RemoveFails
  BY <1>15 DEF EncryptedUnderCurrentKey, ChangePhases, RemoveFails
<1>16. CASE RecordDump
  BY <1>16 DEF EncryptedUnderCurrentKey, ChangePhases, RecordDump
<1>17. CASE RecordFails
  BY <1>17 DEF EncryptedUnderCurrentKey, ChangePhases, RecordFails
<1>18. CASE RestoreEnds
  BY <1>18 DEF EncryptedUnderCurrentKey, ChangePhases, RestoreEnds
<1>19. CASE Mismatch
  BY <1>19 DEF EncryptedUnderCurrentKey, ChangePhases, Mismatch
<1>20. CASE ChangeVault
  BY <1>20 DEF EncryptedUnderCurrentKey, ChangePhases, ChangeVault, EncryptedNames, Unreadable
<1>21. CASE ChangeVaultFails
  BY <1>21 DEF EncryptedUnderCurrentKey, ChangeVaultFails, Unreadable
<1>22. CASE CancelChoice
  BY <1>22 DEF EncryptedUnderCurrentKey, CancelChoice, Unreadable
<1>23. CASE RewriteDone
  BY <1>23 DEF TypeOK, EncryptedUnderCurrentKey, ChangePhases, RewriteDone
<1>24. CASE DumpsStepFails
  BY <1>24 DEF EncryptedUnderCurrentKey, DumpsStepFails, Unreadable
<1>25. CASE ChangeDone
  BY <1>25 DEF EncryptedUnderCurrentKey, ChangeDone
<1>26. CASE InitChangeMaster
  BY <1>26 DEF EncryptedUnderCurrentKey, InitChangeMaster, Unreadable
<1>27. CASE Crash
  BY <1>27 DEF EncryptedUnderCurrentKey, Crash, Unreadable
<1>28. ASSUME NEW d \in Dumps, ScanFile(d)
      PROVE  EncryptedUnderCurrentKey'
  BY <1>28 DEF EncryptedUnderCurrentKey, ScanFile
<1>29. ASSUME NEW d \in Dumps, RestorePlain(d)
      PROVE  EncryptedUnderCurrentKey'
  BY <1>29 DEF EncryptedUnderCurrentKey, ChangePhases, RestorePlain
<1>30. ASSUME NEW d \in Dumps, RestoreEncrypted(d)
      PROVE  EncryptedUnderCurrentKey'
  BY <1>30 DEF EncryptedUnderCurrentKey, ChangePhases, RestoreEncrypted
<1>31. ASSUME NEW d \in Dumps, DecryptWriteFails(d)
      PROVE  EncryptedUnderCurrentKey'
  BY <1>31 DEF EncryptedUnderCurrentKey, DecryptWriteFails
<1>32. ASSUME NEW d \in Dumps, DeleteOne(d)
      PROVE  EncryptedUnderCurrentKey'
  BY <1>32 DEF TypeOK, EncryptedUnderCurrentKey, DeleteOne
<1>33. ASSUME NEW d \in Dumps, RewriteBegins(d)
      PROVE  EncryptedUnderCurrentKey'
  BY <1>33 DEF EncryptedUnderCurrentKey, ChangePhases, RewriteBegins
<1>34. ASSUME NEW d \in Dumps, RewriteRefused(d)
      PROVE  EncryptedUnderCurrentKey'
  BY <1>34 DEF EncryptedUnderCurrentKey, RewriteRefused, Unreadable
<1>35. ASSUME NEW d \in Dumps, PassOver(d)
      PROVE  EncryptedUnderCurrentKey'
  BY <1>35 DEF TypeOK, EncryptedUnderCurrentKey, Unreadable, PassOver
<1>36. CASE CopyStays
  BY <1>36 DEF EncryptedUnderCurrentKey, ChangePhases, CopyStays
<1> QED
  BY <1>1, <1>2, <1>3, <1>4, <1>5, <1>6, <1>7, <1>8, <1>9, <1>10, <1>11, <1>12,
     <1>13, <1>14, <1>15, <1>16, <1>17, <1>18, <1>19, <1>20, <1>21, <1>22, <1>23, <1>24,
     <1>25, <1>26, <1>27, <1>28, <1>29, <1>30, <1>31, <1>32, <1>33, <1>34, <1>35, <1>36
     DEF Next, CleanStep, FailedStep

\* What is left in plain is exposed.
LEMMA TakenStep ==
    ASSUME TypeOK, WorksOn, PlainUntilEncrypted, PlainWhileTaken, Next
    PROVE  PlainWhileTaken'
<1> USE DumpsAssumption DEF disk, program, history, Own, ForeignKey
<1>1. ASSUME NEW b \in BOOLEAN, Start(b)
      PROVE  PlainWhileTaken'
  BY <1>1 DEF PlainWhileTaken, DumpPhases, Start
<1>2. ASSUME NEW d \in Dumps, NEW b \in BOOLEAN, StartDump(d, b)
      PROVE  PlainWhileTaken'
  BY <1>2 DEF TypeOK, PlainUntilEncrypted, PlainWhileTaken, StartDump
<1>3. ASSUME NEW phase \in {"delete", "reencrypt"}, Choose(phase)
      PROVE  PlainWhileTaken'
  BY <1>3 DEF PlainWhileTaken, DumpPhases, Choose
<1>4. CASE Exit
  BY <1>4 DEF PlainWhileTaken, DumpPhases, Exit
<1>5. CASE PgDumpOk
  BY <1>5 DEF PlainWhileTaken, DumpPhases, PgDumpOk
<1>6. CASE PgDumpFails
  BY <1>6 DEF PlainWhileTaken, DumpPhases, PgDumpFails, Return
<1>7. CASE SyncRestoreOk
  BY <1>7 DEF PlainWhileTaken, DumpPhases, SyncRestoreOk
<1>8. CASE SyncRestoreFails
  BY <1>8 DEF PlainWhileTaken, DumpPhases, SyncRestoreFails, Return
<1>9. CASE KeepPlain
  BY <1>9 DEF PlainWhileTaken, DumpPhases, KeepPlain
<1>10. CASE NoKey
  BY <1>10 DEF PlainWhileTaken, DumpPhases, NoKey, Return
<1>11. CASE EncryptBegins
  BY <1>11 DEF PlainWhileTaken, DumpPhases, EncryptBegins
<1>12. CASE EncryptWritten
  BY <1>12 DEF PlainWhileTaken, DumpPhases, EncryptWritten
<1>13. CASE EncryptFails
  BY <1>13 DEF PlainWhileTaken, DumpPhases, EncryptFails, Return
<1>14. CASE RemovePlain
  BY <1>14 DEF TypeOK, PlainWhileTaken, DumpPhases, RemovePlain
<1>15. CASE RemoveFails
  BY <1>15 DEF PlainWhileTaken, DumpPhases, RemoveFails
<1>16. CASE RecordDump
  BY <1>16 DEF PlainWhileTaken, DumpPhases, RecordDump, Return
<1>17. CASE RecordFails
  BY <1>17 DEF PlainWhileTaken, DumpPhases, RecordFails, Return
<1>18. CASE RestoreEnds
  BY <1>18 DEF PlainWhileTaken, DumpPhases, RestoreEnds, Return
<1>19. CASE Mismatch
  BY <1>19 DEF PlainWhileTaken, DumpPhases, Mismatch, DropSession, Return
<1>20. CASE ChangeVault
  BY <1>20 DEF PlainWhileTaken, DumpPhases, ChangeVault
<1>21. CASE ChangeVaultFails
  BY <1>21 DEF PlainWhileTaken, DumpPhases, ChangeVaultFails, DropSession, Return
<1>22. CASE CancelChoice
  BY <1>22 DEF PlainWhileTaken, DumpPhases, CancelChoice
<1>23. CASE RewriteDone
  BY <1>23 DEF PlainWhileTaken, DumpPhases, RewriteDone
<1>24. CASE DumpsStepFails
  BY <1>24 DEF PlainWhileTaken, DumpPhases, DumpsStepFails, DropSession, Return
<1>25. CASE ChangeDone
  BY <1>25 DEF PlainWhileTaken, DumpPhases, ChangeDone, Return
<1>26. CASE InitChangeMaster
  BY <1>26 DEF PlainWhileTaken, InitChangeMaster
<1>27. CASE Crash
  BY <1>27 DEF WorksOn, PlainWhileTaken, DumpPhases, Crash
<1>28. ASSUME NEW d \in Dumps, ScanFile(d)
      PROVE  PlainWhileTaken'
  BY <1>28 DEF PlainWhileTaken, ScanFile
<1>29. ASSUME NEW d \in Dumps, RestorePlain(d)
      PROVE  PlainWhileTaken'
  BY <1>29 DEF PlainWhileTaken, DumpPhases, RestorePlain
<1>30. ASSUME NEW d \in Dumps, RestoreEncrypted(d)
      PROVE  PlainWhileTaken'
  BY <1>30 DEF PlainWhileTaken, DumpPhases, RestoreEncrypted
<1>31. ASSUME NEW d \in Dumps, DecryptWriteFails(d)
      PROVE  PlainWhileTaken'
  BY <1>31 DEF PlainWhileTaken, DecryptWriteFails
<1>32. ASSUME NEW d \in Dumps, DeleteOne(d)
      PROVE  PlainWhileTaken'
  BY <1>32 DEF PlainWhileTaken, DeleteOne
<1>33. ASSUME NEW d \in Dumps, RewriteBegins(d)
      PROVE  PlainWhileTaken'
  BY <1>33 DEF PlainWhileTaken, DumpPhases, RewriteBegins
<1>34. ASSUME NEW d \in Dumps, RewriteRefused(d)
      PROVE  PlainWhileTaken'
  BY <1>34 DEF PlainWhileTaken, DumpPhases, RewriteRefused, DropSession, Return
<1>35. ASSUME NEW d \in Dumps, PassOver(d)
      PROVE  PlainWhileTaken'
  BY <1>35 DEF PlainWhileTaken, PassOver
<1>36. CASE CopyStays
  BY <1>36 DEF WorksOn, PlainWhileTaken, DumpPhases, CopyStays, Return
<1> QED
  BY <1>1, <1>2, <1>3, <1>4, <1>5, <1>6, <1>7, <1>8, <1>9, <1>10, <1>11, <1>12,
     <1>13, <1>14, <1>15, <1>16, <1>17, <1>18, <1>19, <1>20, <1>21, <1>22, <1>23, <1>24,
     <1>25, <1>26, <1>27, <1>28, <1>29, <1>30, <1>31, <1>32, <1>33, <1>34, <1>35, <1>36
     DEF Next, CleanStep, FailedStep

\* Dumps of another vault stay as they are.
LEMMA ForeignStep ==
    ASSUME WorksOn, Next
    PROVE  \A f \in Foreign : encFile'[f] = encFile[f]
<1> USE DumpsAssumption DEF disk, program, history, Own, ForeignKey
<1>1. ASSUME NEW b \in BOOLEAN, Start(b)
      PROVE  \A f \in Foreign : encFile'[f] = encFile[f]
  BY <1>1 DEF Start
<1>2. ASSUME NEW d \in Dumps, NEW b \in BOOLEAN, StartDump(d, b)
      PROVE  \A f \in Foreign : encFile'[f] = encFile[f]
  BY <1>2 DEF StartDump
<1>3. ASSUME NEW phase \in {"delete", "reencrypt"}, Choose(phase)
      PROVE  \A f \in Foreign : encFile'[f] = encFile[f]
  BY <1>3 DEF Choose
<1>4. CASE Exit
  BY <1>4 DEF Exit
<1>5. CASE PgDumpOk
  BY <1>5 DEF PgDumpOk
<1>6. CASE PgDumpFails
  BY <1>6 DEF PgDumpFails
<1>7. CASE SyncRestoreOk
  BY <1>7 DEF SyncRestoreOk
<1>8. CASE SyncRestoreFails
  BY <1>8 DEF SyncRestoreFails
<1>9. CASE KeepPlain
  BY <1>9 DEF KeepPlain
<1>10. CASE NoKey
  BY <1>10 DEF NoKey
<1>11. CASE EncryptBegins
  BY <1>11 DEF WorksOn, DumpPhases, EncryptBegins
<1>12. CASE EncryptWritten
  BY <1>12 DEF WorksOn, DumpPhases, EncryptWritten
<1>13. CASE EncryptFails
  BY <1>13 DEF EncryptFails
<1>14. CASE RemovePlain
  BY <1>14 DEF RemovePlain
<1>15. CASE RemoveFails
  BY <1>15 DEF RemoveFails
<1>16. CASE RecordDump
  BY <1>16 DEF RecordDump
<1>17. CASE RecordFails
  BY <1>17 DEF RecordFails
<1>18. CASE RestoreEnds
  BY <1>18 DEF RestoreEnds
<1>19. CASE Mismatch
  BY <1>19 DEF Mismatch
<1>20. CASE ChangeVault
  BY <1>20 DEF ChangeVault
<1>21. CASE ChangeVaultFails
  BY <1>21 DEF ChangeVaultFails
<1>22. CASE CancelChoice
  BY <1>22 DEF CancelChoice
<1>23. CASE RewriteDone
  BY <1>23 DEF WorksOn, RewriteDone
<1>24. CASE DumpsStepFails
  BY <1>24 DEF DumpsStepFails
<1>25. CASE ChangeDone
  BY <1>25 DEF ChangeDone
<1>26. CASE InitChangeMaster
  BY <1>26 DEF InitChangeMaster
<1>27. CASE Crash
  BY <1>27 DEF Crash
<1>28. ASSUME NEW d \in Dumps, ScanFile(d)
      PROVE  \A f \in Foreign : encFile'[f] = encFile[f]
  BY <1>28 DEF ScanFile
<1>29. ASSUME NEW d \in Dumps, RestorePlain(d)
      PROVE  \A f \in Foreign : encFile'[f] = encFile[f]
  BY <1>29 DEF RestorePlain
<1>30. ASSUME NEW d \in Dumps, RestoreEncrypted(d)
      PROVE  \A f \in Foreign : encFile'[f] = encFile[f]
  BY <1>30 DEF RestoreEncrypted
<1>31. ASSUME NEW d \in Dumps, DecryptWriteFails(d)
      PROVE  \A f \in Foreign : encFile'[f] = encFile[f]
  BY <1>31 DEF DecryptWriteFails
<1>32. ASSUME NEW d \in Dumps, DeleteOne(d)
      PROVE  \A f \in Foreign : encFile'[f] = encFile[f]
  BY <1>32 DEF WorksOn, DeleteOne
<1>33. ASSUME NEW d \in Dumps, RewriteBegins(d)
      PROVE  \A f \in Foreign : encFile'[f] = encFile[f]
  BY <1>33 DEF WorksOn, RewriteBegins
<1>34. ASSUME NEW d \in Dumps, RewriteRefused(d)
      PROVE  \A f \in Foreign : encFile'[f] = encFile[f]
  BY <1>34 DEF RewriteRefused
<1>35. ASSUME NEW d \in Dumps, PassOver(d)
      PROVE  \A f \in Foreign : encFile'[f] = encFile[f]
  BY <1>35 DEF PassOver
<1>36. CASE CopyStays
  BY <1>36 DEF CopyStays
<1> QED
  BY <1>1, <1>2, <1>3, <1>4, <1>5, <1>6, <1>7, <1>8, <1>9, <1>10, <1>11, <1>12,
     <1>13, <1>14, <1>15, <1>16, <1>17, <1>18, <1>19, <1>20, <1>21, <1>22, <1>23, <1>24,
     <1>25, <1>26, <1>27, <1>28, <1>29, <1>30, <1>31, <1>32, <1>33, <1>34, <1>35, <1>36
     DEF Next, CleanStep, FailedStep

-----------------------------------------------------------------------------
(* The theorems                                                            *)

\* It holds at the start.
LEMMA DumpsInit == Init => DumpsInv
<1> SUFFICES ASSUME Init PROVE DumpsInv
  OBVIOUS
<1> USE DumpsAssumption DEF Init, Own, ForeignKey
<1>1. TypeOK
  BY DEF TypeOK
<1>2. DumpKept /\ PlaintextConfined /\ SessionNeverStale
  BY <1>1 DEF DumpKept, PlaintextConfined, SessionNeverStale
<1>3. EncryptedUnderCurrentKey
  BY DEF EncryptedUnderCurrentKey
<1>4. WorksOn /\ PlainUntilEncrypted /\ PlainWhileTaken
  BY DEF WorksOn, PlainUntilEncrypted, PlainWhileTaken, DumpPhases
<1> QED
  BY <1>1, <1>2, <1>3, <1>4 DEF DumpsInv

\* Every step keeps it.
LEMMA DumpsInductive == DumpsInv /\ [Next]_vars => DumpsInv'
<1> SUFFICES ASSUME DumpsInv, [Next]_vars PROVE DumpsInv'
  OBVIOUS
<1>1. TypeOK
  BY DEF DumpsInv, DumpKept
<1>2. CASE UNCHANGED vars
  BY <1>2 DEF vars, disk, program, history, DumpsInv, DumpKept, TypeOK,
     EncryptedUnderCurrentKey, PlaintextConfined, SessionNeverStale, WorksOn,
     PlainUntilEncrypted, PlainWhileTaken
<1>3. CASE Next
  <2>1. TypeOK' /\ WorksOn'
    BY <1>1, <1>3, TypeStep, WorkStep DEF DumpsInv
  <2>2. DumpKept' /\ PlainUntilEncrypted'
    BY <1>1, <1>3, <2>1, PlainStep, KeptStep DEF DumpsInv
  <2>3. SessionNeverStale' /\ EncryptedUnderCurrentKey'
    BY <1>1, <1>3, SessionStep, KeyStep DEF DumpsInv
  <2>4. PlainWhileTaken'
    BY <1>1, <1>3, TakenStep DEF DumpsInv
  <2>5. PlaintextConfined'
    <3>1. \A d \in encrypted' : d # None
      BY <2>1, DumpsAssumption DEF TypeOK
    <3> QED
      BY <2>1, <2>4, <3>1 DEF WorksOn, PlainWhileTaken, PlaintextConfined
  <2> QED
    BY <2>1, <2>2, <2>3, <2>4, <2>5 DEF DumpsInv
<1> QED
  BY <1>2, <1>3

\* In every reachable state each phase has the dump it works on, and what it
\* relies on (app/app.go, dumps/dumps.go).
THEOREM DumpsInvariant == Spec => []DumpsInv
  BY DumpsInit, DumpsInductive, PTL DEF Spec

\* No completed dump is lost but by an interrupted rewrite in place, whatever
\* fails and however many masters there have been (dumps.go EncryptDumpFile,
\* ReencryptAllDumps).
THEOREM DumpsAreKept == Spec => []DumpKept
<1>1. DumpsInv => DumpKept
  BY DEF DumpsInv
<1> QED
  BY <1>1, DumpsInvariant, PTL

\* Encrypted dumps open with the current key, wait for a running change, or were
\* left by one that did not come to its end (app.go handleChangeMaster).
THEOREM DumpsFollowKey == Spec => []EncryptedUnderCurrentKey
<1>1. DumpsInv => EncryptedUnderCurrentKey
  BY DEF DumpsInv
<1> QED
  BY <1>1, DumpsInvariant, PTL

\* A dump to be encrypted is in plain only while it is worked on or where an
\* operation failed (app.go runDump, runRestore).
THEOREM PlainIsConfined == Spec => []PlaintextConfined
<1>1. DumpsInv => PlaintextConfined
  BY DEF DumpsInv
<1> QED
  BY <1>1, DumpsInvariant, PTL

\* Outside a change of master the session has the vault's key (app.go RunMain).
THEOREM SessionIsCurrent == Spec => []SessionNeverStale
<1>1. DumpsInv => SessionNeverStale
  BY DEF DumpsInv
<1> QED
  BY <1>1, DumpsInvariant, PTL

\* No step touches an encrypted dump of another vault (dumps.go
\* HasEncryptedDumpsWithEncID).
THEOREM ForeignAreUntouched == Spec => ForeignUntouched
<1>1. DumpsInv /\ [Next]_vars => [\A d \in Foreign : encFile'[d] = encFile[d]]_vars
  BY ForeignStep DEF DumpsInv, DumpKept
<1> QED
  BY <1>1, DumpsInvariant, PTL DEF Spec, ForeignUntouched

-----------------------------------------------------------------------------
(* The dumps implement DumpStore                                           *)

\* What has happened to a dump tells what there is of it: nothing before it is
\* taken, nothing encrypted once it was deleted or torn, and no dump of a running
\* operation has been through a change.
HistoryTells ==
    /\ deleted \cup stranded \cup damaged \subseteq begun
    /\ pc \in DumpPhases => cur \notin deleted \cup stranded \cup damaged
    /\ pc \in DumpPhases \ {"pg_dump"} => cur \in dumped
    /\ pc = "pg_dump" => plainFile[cur] = Torn /\ encFile[cur] = None
    /\ \A d \in Own :
           /\ d \notin begun => plainFile[d] = None /\ encFile[d] = None
           /\ encFile[d] # None => d \in dumped \ deleted
           /\ d \in damaged => encFile[d] \notin Nat

\* Keys only grow, and a dump left behind before a change is behind the key the
\* change moves from.
KeysGrow ==
    /\ \A d \in Own : encFile[d] \in Nat =>
           /\ encFile[d] <= vaultKey
           /\ d \in stranded => /\ encFile[d] < vaultKey
                                /\ pc \in ChangePhases /\ d \in todo => encFile[d] < oldKey
    /\ pc \in ChangePhases =>
           /\ oldKey < vaultKey
           /\ \A d \in todo : /\ encFile[d] # None
                              /\ encFile[d] \in Nat => encFile[d] = oldKey \/ d \in stranded
    /\ pc = "rewrite" => /\ cur \in todo /\ encFile[cur] = Torn
                         /\ cur \notin deleted \cup stranded \cup damaged

-----------------------------------------------------------------------------
(* Steps DumpStore does not see, and steps that end a change               *)

files == <<plainFile, encFile, vaultKey, begun, dumped, deleted, stranded, damaged>>

\* Nothing happens to a dump, and no phase in which something may begins.
Quiet ==
    /\ UNCHANGED files
    /\ \/ UNCHANGED <<pc, cur, todo, oldKey>>
       \/ /\ {pc, pc'} \cap ChangePhases = {} /\ pc' # "pg_dump"
          /\ pc = "pg_dump" => pc' \notin DumpPhases
          /\ pc' \in DumpPhases => pc \in DumpPhases /\ cur' = cur

\* A change of master stops, or leaves the dumps alone: what the key does not open
\* is stranded, what was being rewritten damaged.  So does one whose walks see nothing.
Stops ==
    /\ UNCHANGED <<plainFile, encFile, begun, dumped, deleted>>
    /\ vaultKey' \in {vaultKey, vaultKey + 1} /\ pc' \in {"off", "menu"}
    /\ stranded' = stranded \cup Unreadable(encFile, vaultKey')
    /\ damaged' = IF pc = "rewrite" THEN damaged \cup {cur} ELSE damaged

\* The other steps are few.
LEMMA StoreCases ==
    ASSUME Next
    PROVE  \/ Quiet \/ Stops
           \/ \E d \in Dumps, b \in BOOLEAN : StartDump(d, b)
           \/ PgDumpOk \/ PgDumpFails \/ EncryptBegins \/ EncryptWritten \/ RemovePlain
           \/ (ChangeVault /\ pc' = "choose")
           \/ (\E phase \in {"delete", "reencrypt"} : Choose(phase))
           \/ \E d \in Dumps : PassOver(d) \/ DeleteOne(d) \/ RewriteBegins(d)
           \/ RewriteDone \/ ChangeDone
<1> USE DEF disk, program, history, files
<1>0. ASSUME ChangeVault, pc' # "choose"
      PROVE  Stops
  BY <1>0 DEF Stops, ChangeVault
<1>1. CASE \/ \E b \in BOOLEAN : Start(b)
           \/ Exit \/ SyncRestoreOk \/ SyncRestoreFails \/ KeepPlain \/ NoKey
  BY <1>1 DEF Quiet, Start, Exit, SyncRestoreOk, SyncRestoreFails, KeepPlain, NoKey,
              Return, DumpPhases, ChangePhases
<1>2. CASE EncryptFails \/ RemoveFails \/ RecordDump \/ RecordFails
  BY <1>2 DEF Quiet, EncryptFails, RemoveFails, RecordDump, RecordFails,
              Return, DumpPhases, ChangePhases
<1>3. CASE \E d \in Dumps : ScanFile(d) \/ DecryptWriteFails(d)
  BY <1>3 DEF Quiet, ScanFile, DecryptWriteFails
<1>4. CASE \/ \E d \in Dumps : RestorePlain(d) \/ RestoreEncrypted(d)
           \/ RestoreEnds \/ CopyStays \/ Mismatch
  BY <1>4 DEF Quiet, RestorePlain, RestoreEncrypted, RestoreEnds, CopyStays, Mismatch, DropSession,
              Return, DumpPhases, ChangePhases
<1>5. CASE ChangeVaultFails \/ CancelChoice \/ InitChangeMaster
  BY <1>5
     DEF Stops, ChangeVaultFails, CancelChoice, InitChangeMaster, DropSession, Return
<1>6. CASE DumpsStepFails \/ Crash \/ \E d \in Dumps : RewriteRefused(d)
  BY <1>6 DEF Stops, DumpsStepFails, Crash, RewriteRefused, DropSession, Return
<1> QED
  BY <1>0, <1>1, <1>2, <1>3, <1>4, <1>5, <1>6 DEF Next, CleanStep, FailedStep

-----------------------------------------------------------------------------
(* Every step keeps the invariant                                          *)

\* What has happened to a dump still tells what there is of it.
LEMMA HistoryStep ==
    ASSUME DumpsInv, HistoryTells, KeysGrow, Next
    PROVE  HistoryTells'
<1> USE DumpsAssumption
<1>1. TypeOK /\ WorksOn /\ PlainUntilEncrypted
  BY DEF DumpsInv, DumpKept
<1>2. CASE Quiet
  BY <1>2 DEF Quiet, files, HistoryTells
<1>3. CASE Stops
  <2>1. \A d \in Own : d \notin begun => encFile[d] \notin Nat
    BY DEF HistoryTells
  <2>2. Unreadable(encFile, vaultKey') \subseteq begun
    BY <2>1 DEF Unreadable
  <2>3. pc = "rewrite" => cur \in begun /\ encFile[cur] \notin Nat
    BY <1>1, <2>1 DEF KeysGrow, HistoryTells, WorksOn
  <2> QED
    BY <1>1, <1>3, <2>2, <2>3 DEF Stops, HistoryTells, DumpPhases
<1>4. ASSUME NEW d \in Dumps, NEW b \in BOOLEAN, StartDump(d, b)
      PROVE  HistoryTells'
  BY <1>1, <1>4 DEF StartDump, HistoryTells, TypeOK
<1>5. CASE PgDumpOk
  BY <1>1, <1>5 DEF PgDumpOk, HistoryTells, TypeOK, WorksOn, DumpPhases
<1>6. CASE PgDumpFails
  BY <1>1, <1>6
     DEF PgDumpFails, Return, HistoryTells, TypeOK, WorksOn, DumpPhases, history
<1>7. CASE EncryptBegins
  BY <1>1, <1>7
     DEF EncryptBegins, HistoryTells, TypeOK, WorksOn, DumpPhases, history
<1>8. CASE EncryptWritten
  BY <1>1, <1>8
     DEF EncryptWritten, HistoryTells, TypeOK, WorksOn, DumpPhases, history
<1>9. CASE RemovePlain
  BY <1>1, <1>9
     DEF RemovePlain, HistoryTells, TypeOK, WorksOn, DumpPhases, history
<1>10. CASE ChangeVault /\ pc' = "choose"
  BY <1>1, <1>10 DEF ChangeVault, HistoryTells, DumpPhases, disk
<1>11. ASSUME NEW phase \in {"delete", "reencrypt"}, Choose(phase)
       PROVE  HistoryTells'
  BY <1>11 DEF Choose, HistoryTells, DumpPhases, disk, history
<1>12. ASSUME NEW d \in Dumps, DeleteOne(d)
       PROVE  HistoryTells'
  BY <1>1, <1>12
     DEF DeleteOne, HistoryTells, KeysGrow, TypeOK, WorksOn, DumpPhases, ChangePhases
<1>13. ASSUME NEW d \in Dumps, RewriteBegins(d)
       PROVE  HistoryTells'
  BY <1>1, <1>13
     DEF RewriteBegins, HistoryTells, TypeOK, WorksOn, DumpPhases, history
<1>14. CASE RewriteDone
  BY <1>1, <1>14
     DEF RewriteDone, HistoryTells, KeysGrow, TypeOK, WorksOn, DumpPhases, history
<1>15. CASE ChangeDone
  BY <1>15 DEF ChangeDone, Return, HistoryTells, DumpPhases, disk, history
<1>16. ASSUME NEW d \in Dumps, PassOver(d)
       PROVE  HistoryTells'
  BY <1>1, <1>16 DEF PassOver, HistoryTells, Unreadable, DumpPhases, disk
<1> QED
  BY <1>2, <1>3, <1>4, <1>5, <1>6, <1>7, <1>8, <1>9, <1>10, <1>11, <1>12, <1>13,
     <1>14, <1>15, <1>16, StoreCases

\* Keys still only grow.
LEMMA KeysStep ==
    ASSUME DumpsInv, HistoryTells, KeysGrow, Next
    PROVE  KeysGrow'
<1> USE DumpsAssumption
<1>1. TypeOK /\ WorksOn /\ PlainUntilEncrypted /\ SessionNeverStale
  BY DEF DumpsInv, DumpKept
<1>2. CASE Quiet
  BY <1>2 DEF Quiet, files, KeysGrow, ChangePhases
<1>3. CASE Stops
  <2>1. \A d \in Own : encFile[d] \in Nat =>
           encFile[d] <= vaultKey' /\ (d \in stranded' => encFile[d] < vaultKey')
    BY <1>1, <1>3 DEF Stops, KeysGrow, Unreadable, TypeOK
  <2> QED
    BY <1>3, <2>1 DEF Stops, KeysGrow, ChangePhases
<1>4. ASSUME NEW d \in Dumps, NEW b \in BOOLEAN, StartDump(d, b)
      PROVE  KeysGrow'
  BY <1>4 DEF StartDump, KeysGrow, ChangePhases
<1>5. CASE PgDumpOk \/ PgDumpFails
  BY <1>5 DEF PgDumpOk, PgDumpFails, Return, KeysGrow, ChangePhases, history
<1>6. CASE EncryptBegins
  BY <1>1, <1>6 DEF EncryptBegins, KeysGrow, TypeOK, ChangePhases, history
<1>7. CASE EncryptWritten
  <2>1. session = vaultKey /\ cur \notin stranded
    BY <1>1, <1>7
       DEF EncryptWritten, SessionNeverStale, PlainUntilEncrypted, HistoryTells,
                      DumpPhases, ChangePhases
  <2> QED
    BY <1>1, <1>7, <2>1
       DEF EncryptWritten, KeysGrow, TypeOK, ChangePhases, history
<1>8. CASE RemovePlain
  BY <1>8 DEF RemovePlain, KeysGrow, ChangePhases, history
<1>9. CASE ChangeVault /\ pc' = "choose"
  <2>1. session = vaultKey /\ vaultKey \in Nat
    BY <1>1, <1>9 DEF ChangeVault, SessionNeverStale, ChangePhases, TypeOK
  <2>2. \A d \in Own : encFile[d] \in Nat => encFile[d] = vaultKey \/ d \in stranded
    BY <1>9 DEF ChangeVault, DumpsInv, EncryptedUnderCurrentKey, ChangePhases
  <2> QED
    BY <1>9, <2>1, <2>2, <1>1
       DEF ChangeVault, EncryptedNames, KeysGrow, TypeOK, ChangePhases, disk
<1>10. ASSUME NEW phase \in {"delete", "reencrypt"}, Choose(phase)
       PROVE  KeysGrow'
  BY <1>10 DEF Choose, KeysGrow, ChangePhases, disk, history
<1>11. ASSUME NEW d \in Dumps, DeleteOne(d)
       PROVE  KeysGrow'
  BY <1>1, <1>11 DEF DeleteOne, KeysGrow, TypeOK, WorksOn, ChangePhases
<1>12. ASSUME NEW d \in Dumps, RewriteBegins(d)
       PROVE  KeysGrow'
  <2>1. d \in Own /\ d \notin deleted \cup stranded \cup damaged
    BY <1>1, <1>12
       DEF RewriteBegins, KeysGrow, HistoryTells, TypeOK, WorksOn, ChangePhases
  <2> QED
    BY <1>1, <1>12, <2>1
       DEF RewriteBegins, KeysGrow, TypeOK, ChangePhases, history
<1>13. CASE RewriteDone
  BY <1>1, <1>13
     DEF RewriteDone, KeysGrow, TypeOK, WorksOn, ChangePhases, history
<1>14. CASE ChangeDone
  BY <1>14 DEF ChangeDone, Return, KeysGrow, ChangePhases, disk, history
<1>15. ASSUME NEW d \in Dumps, PassOver(d)
       PROVE  KeysGrow'
  <2>1. \A o \in Own : o \in stranded' =>
           \/ o \in stranded
           \/ o = d /\ encFile[d] # vaultKey
    BY <1>15 DEF PassOver, Unreadable
  <2>2. pc \in {"delete", "reencrypt"} /\ pc' = pc /\ todo' = todo \ {d} /\ stranded \subseteq stranded'
        /\ UNCHANGED <<encFile, vaultKey, oldKey, cur, deleted, damaged>>
    BY <1>15 DEF PassOver, disk
  <2> QED
    BY <1>1, <2>1, <2>2 DEF KeysGrow, TypeOK, ChangePhases
<1> QED
  BY <1>2, <1>3, <1>4, <1>5, <1>6, <1>7, <1>8, <1>9, <1>10, <1>11, <1>12, <1>13,
     <1>14, <1>15, StoreCases

-----------------------------------------------------------------------------
(* Every step is one of DumpStore, or invisible to it                      *)

\* Nothing changes for DumpStore when the same dumps can be restored.
LEMMA SameStatus ==
    ASSUME \A d \in Own : Restorable(d)' <=> Restorable(d),
           UNCHANGED <<deleted, stranded, damaged>>
    PROVE  UNCHANGED Status
  BY DEF Status

\* A dump that is left behind could be restored, or was left behind before.
LEMMA LeftWasKept ==
    ASSUME DumpsInv, KeysGrow, NEW d \in Own, encFile[d] \in Nat
    PROVE  Restorable(d) \/ d \in stranded
  BY DEF DumpsInv, EncryptedUnderCurrentKey, KeysGrow, Restorable

\* A step that only leaves dumps behind, counting those it does, is one of DumpStore's.
LEMMA LeavesLose ==
    ASSUME deleted' = deleted, stranded \subseteq stranded', damaged \subseteq damaged',
           \A d \in Own : Restorable(d)' => Restorable(d),
           \A d \in Own : Restorable(d) /\ ~Restorable(d)' =>
               d \in stranded' \cup damaged' /\ d \notin deleted,
           \A d \in Own : d \in stranded' \cup damaged' /\ ~Restorable(d) =>
               d \in stranded \cup damaged
    PROVE  Store!Next
<1> DEFINE S == {d \in Own : Restorable(d) /\ ~Restorable(d)'}
<1>1. \A d \in Own : Status'[d] = IF d \in S THEN "lost" ELSE Status[d]
  BY DEF Status
<1>2. \A d \in S : Status[d] = "kept"
  BY DEF Status
<1>3. Status' = [d \in Own |-> IF d \in S THEN "lost" ELSE Status[d]]
  BY <1>1 DEF Status
<1>4. Store!Lose(S)
  <2> HIDE DEF S
  <2> QED BY <1>2, <1>3 DEF Store!Lose
<1> QED BY <1>4 DEF Store!Next

\* What a change that stops has not moved is lost, and nothing else is.
LEMMA StopsLose ==
    ASSUME DumpsInv, HistoryTells, KeysGrow, Stops
    PROVE  Store!Next
<1>1. TypeOK /\ WorksOn
  BY DEF DumpsInv, DumpKept
<1>2. \A d \in Own : Restorable(d)' <=> plainFile[d] = Whole \/ encFile[d] = vaultKey'
  BY DEF Stops, Restorable, ChangePhases
<1>3. ASSUME NEW d \in Own, Restorable(d)'
      PROVE  Restorable(d)
  <2>1. CASE plainFile[d] = Whole
    BY <2>1 DEF Restorable
  <2>2. CASE encFile[d] = vaultKey'
    BY <1>1, <2>2, DumpsAssumption DEF Stops, KeysGrow, TypeOK, Restorable
  <2> QED BY <1>2, <1>3, <2>1, <2>2
<1>4. ASSUME NEW d \in Own, Restorable(d), ~Restorable(d)'
      PROVE  d \in stranded' \cup damaged' /\ d \notin deleted
  <2>1. CASE encFile[d] \in Nat
    BY <1>1, <1>2, <1>4, <2>1, DumpsAssumption DEF Stops, Unreadable, HistoryTells, TypeOK
  <2>2. CASE encFile[d] \notin Nat
    BY <1>1, <1>2, <1>4, <2>2 DEF Stops, Restorable, KeysGrow, TypeOK
  <2> QED BY <2>1, <2>2
<1>5. ASSUME NEW d \in Own, d \in stranded' \cup damaged', ~Restorable(d)
      PROVE  d \in stranded \cup damaged
  <2>1. CASE d \in Unreadable(encFile, vaultKey')
    BY <1>5, <2>1, LeftWasKept DEF Unreadable
  <2>2. CASE pc = "rewrite" /\ d = cur
    BY <1>5, <2>2 DEF Restorable
  <2> QED BY <1>5, <2>1, <2>2 DEF Stops
<1>6. deleted' = deleted /\ stranded \subseteq stranded' /\ damaged \subseteq damaged'
  BY DEF Stops
<1> QED BY <1>3, <1>4, <1>5, <1>6, LeavesLose

\* A dump the walk passes over is lost when only the replaced key opens it.
LEMMA PassOverLoses ==
    ASSUME DumpsInv, HistoryTells, KeysGrow, NEW p \in Dumps, PassOver(p)
    PROVE  Store!Next
<1> USE DEF PassOver, disk
<1>1. TypeOK /\ WorksOn /\ p \in Own
  BY DEF DumpsInv, DumpKept, WorksOn
<1>2. \A d \in Own : Restorable(d)' => Restorable(d)
  BY DEF Restorable, ChangePhases
<1>3. ASSUME NEW d \in Own, Restorable(d), ~Restorable(d)'
      PROVE  d \in stranded' \cup damaged' /\ d \notin deleted
  <2>1. d = p /\ encFile[d] = oldKey /\ encFile[d] # vaultKey
    BY <1>3 DEF Restorable, ChangePhases
  <2> QED
    BY <1>1, <2>1, DumpsAssumption DEF Unreadable, HistoryTells, TypeOK
<1>4. ASSUME NEW d \in Own, d \in stranded' \cup damaged', ~Restorable(d)
      PROVE  d \in stranded \cup damaged
  BY <1>4, LeftWasKept DEF Unreadable
<1>5. deleted' = deleted /\ stranded \subseteq stranded' /\ damaged \subseteq damaged'
  OBVIOUS
<1> HIDE DEF PassOver, disk
<1> QED BY <1>2, <1>3, <1>4, <1>5, LeavesLose

\* Every step is one of DumpStore's or leaves the status of all dumps as it is.
LEMMA StoreStep ==
    ASSUME DumpsInv, HistoryTells, KeysGrow, Next
    PROVE  Store!Next \/ UNCHANGED Status
<1> USE DumpsAssumption
<1>1. TypeOK /\ WorksOn /\ PlainUntilEncrypted /\ SessionNeverStale /\ DumpKept
  BY DEF DumpsInv, DumpKept
<1>2. CASE Quiet
  BY <1>2, SameStatus DEF Quiet, files, Restorable, ChangePhases
<1>3. CASE Stops
  BY <1>3, StopsLose
<1>4. ASSUME NEW d \in Dumps, NEW b \in BOOLEAN, StartDump(d, b)
      PROVE  UNCHANGED Status
  BY <1>1, <1>4, SameStatus
     DEF StartDump, HistoryTells, Restorable, TypeOK, ChangePhases
<1>5. CASE PgDumpOk
  <2>1. PICK c \in Own : c = cur
    BY <1>1, <1>5 DEF PgDumpOk, WorksOn, DumpPhases
  <2>2. /\ c \notin deleted \cup stranded \cup damaged
        /\ ~Restorable(c) /\ Restorable(c)'
    BY <1>1, <1>5, <2>1
       DEF PgDumpOk, HistoryTells, Restorable, TypeOK, DumpPhases, ChangePhases
  <2>3. \A d \in Own \ {c} : Restorable(d)' <=> Restorable(d)
    BY <1>1, <1>5, <2>1 DEF PgDumpOk, Restorable, TypeOK, ChangePhases
  <2>4. UNCHANGED <<deleted, stranded, damaged>>
    BY <1>5 DEF PgDumpOk
  <2>5. Status[c] = "none" /\ Status'[c] = "kept"
    BY <2>2 DEF Status
  <2>6. \A d \in Own \ {c} : Status'[d] = Status[d]
    BY <2>3, <2>4 DEF Status
  <2>7. Status' = [Status EXCEPT ![c] = "kept"]
    BY <2>5, <2>6 DEF Status
  <2> QED BY <2>5, <2>7 DEF Store!Next, Store!Take
<1>6. CASE PgDumpFails
  BY <1>1, <1>6, SameStatus
     DEF PgDumpFails, Return, HistoryTells, WorksOn, Restorable, TypeOK,
         DumpPhases, ChangePhases,
         history
<1>7. CASE EncryptBegins \/ EncryptWritten
  <2>1. plainFile[cur] = Whole /\ UNCHANGED <<plainFile, deleted, stranded, damaged, vaultKey>>
    BY <1>1, <1>7 DEF EncryptBegins, EncryptWritten, PlainUntilEncrypted, history
  <2>2. \A d \in Own : d # cur => encFile'[d] = encFile[d]
    BY <1>1, <1>7 DEF EncryptBegins, EncryptWritten, TypeOK, Own
  <2>3. pc \notin ChangePhases /\ pc' \notin ChangePhases
    BY <1>7 DEF EncryptBegins, EncryptWritten, ChangePhases
  <2>4. \A d \in Own : Restorable(d)' <=> Restorable(d)
    BY <2>1, <2>2, <2>3 DEF Restorable, ChangePhases
  <2> QED
    BY <2>1, <2>4, SameStatus
<1>8. CASE RemovePlain
  <2>1. encFile[cur] = vaultKey
    BY <1>1, <1>8
       DEF RemovePlain, DumpsInv, EncryptedUnderCurrentKey, PlainUntilEncrypted,
                      WorksOn, HistoryTells, DumpPhases, ChangePhases
  <2> QED
    BY <1>1, <1>8, <2>1, SameStatus
       DEF RemovePlain, Restorable, TypeOK, ChangePhases, history
<1>9. CASE ChangeVault /\ pc' = "choose"
  <2>1. session = vaultKey /\ vaultKey \in Nat
    BY <1>1, <1>9 DEF ChangeVault, SessionNeverStale, ChangePhases, TypeOK
  <2>2. \A d \in Own : encFile[d] # vaultKey + 1
    BY <1>1, <2>1 DEF KeysGrow, TypeOK
  <2> QED
    BY <1>1, <1>9, <2>1, <2>2, SameStatus
       DEF ChangeVault, EncryptedNames, Restorable, TypeOK, ChangePhases, disk,
           history
<1>10. ASSUME NEW phase \in {"delete", "reencrypt"}, Choose(phase)
       PROVE  UNCHANGED Status
  BY <1>10, SameStatus DEF Choose, Restorable, ChangePhases, disk, history
<1>11. ASSUME NEW d \in Dumps, DeleteOne(d)
       PROVE  Store!Next \/ UNCHANGED Status
  <2>1. /\ d \in Own /\ encFile[d] # None /\ d \notin deleted
        /\ pc = "delete" /\ pc' = "delete"
    BY <1>1, <1>11 DEF DeleteOne, KeysGrow, HistoryTells, WorksOn, ChangePhases
  <2>2. Status[d] \in {"kept", "lost"}
    BY <1>1, <2>1, LeftWasKept DEF Status, HistoryTells, DumpKept, Restorable
  <2>3. \A o \in Own \ {d} : Status'[o] = Status[o]
    <3>1. \A o \in Own \ {d} : Restorable(o)' <=> Restorable(o)
      BY <1>1, <1>11, <2>1 DEF DeleteOne, Restorable, TypeOK
    <3> QED BY <1>11, <3>1 DEF DeleteOne, Status
  <2>4. Status'[d] = IF plainFile[d] = Whole THEN "kept" ELSE "removed"
    BY <1>1, <1>11, <2>1 DEF DeleteOne, Status, Restorable, TypeOK
  <2>5. CASE plainFile[d] = Whole
    <3>1. Status[d] = "kept"
      BY <2>1, <2>5 DEF Status, Restorable
    <3> QED BY <2>3, <2>4, <2>5, <3>1 DEF Status
  <2>6. CASE plainFile[d] # Whole
    <3>1. Status' = [Status EXCEPT ![d] = "removed"]
      BY <2>3, <2>4, <2>6 DEF Status
    <3> QED BY <2>1, <2>2, <3>1 DEF Store!Next, Store!Remove
  <2> QED BY <2>5, <2>6
<1>12. ASSUME NEW d \in Dumps, RewriteBegins(d)
       PROVE  UNCHANGED Status
  BY <1>1, <1>12, SameStatus
     DEF RewriteBegins, WorksOn, Restorable, TypeOK, ChangePhases, history
<1>13. CASE RewriteDone
  BY <1>1, <1>13, SameStatus
     DEF RewriteDone, WorksOn, KeysGrow, Restorable, TypeOK, ChangePhases,
         history
<1>14. CASE ChangeDone
  BY <1>1, <1>14, SameStatus
     DEF ChangeDone, Return, Restorable, TypeOK, ChangePhases, disk, history
<1>15. ASSUME NEW d \in Dumps, PassOver(d)
       PROVE  Store!Next
  BY <1>15, PassOverLoses
<1> QED
  BY <1>2, <1>3, <1>4, <1>5, <1>6, <1>7, <1>8, <1>9, <1>10, <1>11, <1>12, <1>13,
     <1>14, <1>15, StoreCases

\* The dumps start as DumpStore's do, and what has happened to them is known.
LEMMA StoreInit == Init => HistoryTells /\ KeysGrow /\ Store!Init
<1> SUFFICES ASSUME Init PROVE HistoryTells /\ KeysGrow /\ Store!Init
  OBVIOUS
<1> USE DumpsAssumption DEF Init, Own
<1>1. HistoryTells /\ KeysGrow
  BY DEF HistoryTells, KeysGrow, DumpPhases, ChangePhases
<1>2. \A d \in Own : ~Restorable(d)
  BY DEF Restorable, ChangePhases
<1>3. \A d \in Own : Status[d] = "none"
  BY <1>2 DEF Status
<1>4. Store!Init
  BY <1>3 DEF Store!Init, Status
<1> QED BY <1>1, <1>4

\* The dump directory implements DumpStore: nothing in encrypting dumps or changing
\* the master is seen but the dumps that a change which stops leaves behind
\* (dumps.go EncryptDumpFile, ReencryptAllDumps, app.go handleChangeMaster).
THEOREM DumpsImplementDumpStore == Spec => ImplementsDumpStore
<1>1. DumpsInv /\ HistoryTells /\ KeysGrow /\ [Next]_vars => HistoryTells' /\ KeysGrow'
  BY HistoryStep, KeysStep
     DEF vars, disk, program, history, HistoryTells, KeysGrow
<1>2. DumpsInv /\ HistoryTells /\ KeysGrow /\ [Next]_vars => [Store!Next]_Status
  <2>1. UNCHANGED vars => UNCHANGED Status
    BY DEF vars, disk, program, history, Status, Restorable
  <2> QED BY <2>1, StoreStep
<1>3. Spec => [](DumpsInv /\ HistoryTells /\ KeysGrow)
  BY <1>1, StoreInit, DumpsInvariant, PTL DEF Spec
<1> QED BY <1>2, <1>3, StoreInit, PTL DEF Spec, ImplementsDumpStore, Store!Spec
=============================================================================
