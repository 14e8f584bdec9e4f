---------------------------- MODULE LegacyProofs ----------------------------
(***************************************************************************)
(* Theorems about opening the vault and migrating the older file, for any  *)
(* number of processes, keys and masters.                                  *)
(***************************************************************************)
EXTENDS Legacy, TLAPS

-----------------------------------------------------------------------------
(* The inductive invariant                                                 *)

Alone(p) == \A q \in Procs \ {p} : pc[q] = "closed"

\* A process migrates from after its check until it renames the file, and copies what
\* that file holds.
SourceInUse ==
    \A p \in Procs : source[p] # None =>
        /\ pc[p] \in {"create", "schema", "insert", "meta", "secrets"}
        /\ todo[p] \subseteq Secrets(source[p])

\* The database is filled in order: the file, the row, the enc_id with its master if
\* there is one, secrets; then the legacy file is renamed.
FilledInOrder ==
    /\ dbFile # "row" => encId = None /\ \A s \in Sources : files[s] # "bak"
    /\ encId = None => master = None
    /\ \A p \in Procs :
        /\ pc[p] \in {"schema", "insert"} => dbFile # "none"
        /\ pc[p] \in {"open", "new", "session"} => dbFile = "row"
        /\ pc[p] = "secrets" => encId # None

\* Whoever migrates, races or not, migrates the same file, and none but that is
\* renamed.
SameSource ==
    \A p \in Procs : source[p] # None =>
        /\ files[source[p]] \in {"good", "bak"}
        /\ files[source[p]] = "good" => FoundSource = source[p]
        /\ \A s \in Sources : files[s] = "bak" => s = source[p]

\* Once the master of a legacy file is written, there is one.
MasterStays ==
    \A p \in Procs : pc[p] = "secrets" /\ keyed[source[p]] => master # None

\* What a migration has ticked off is in the vault.
CopiedIsThere ==
    \A p \in Procs : pc[p] = "secrets" =>
        \A k \in Secrets(source[p]) \ todo[p] : rows[k] # None

\* Without a race one process at a time is opening.
OneOpens ==
    ~raced => \A p, q \in Procs : pc[p] \in Opening /\ pc[q] \in Opening => p = q

\* Without a race a migration has the vault to itself, and finds it empty.
MigratesAlone ==
    ~raced => \A p \in Procs : source[p] # None =>
        /\ Alone(p)
        /\ pc[p] = "create" => dbFile = "none"
        /\ pc[p] \in {"schema", "insert"} => dbFile # "row"
        /\ pc[p] = "meta" => encId = None /\ master = None
        /\ pc[p] = "secrets" => master = IF keyed[source[p]] THEN 0 ELSE None
        /\ source[p] = "json" => files["binary"] \notin {"good", "bad"}

\* Without a race vault.db is created without a migration only when there is
\* nothing to migrate.
NothingToMigrate ==
    ~raced => \A p \in Procs : pc[p] = "create" /\ source[p] = None /\ dbFile = "none" =>
        \A s \in Sources : files[s] # "good"

\* Without a race secrets and sessions need a master, the legacy master excludes any
\* other, and sessions have the vault's but for one created over it.
SessionsAgree ==
    ~raced =>
        /\ master = None => /\ \A p \in Procs : held[p] = None
                            /\ \A k \in Keys : rows[k] = None
        /\ master = 0 => /\ \A p \in Procs : pc[p] # "new" /\ held[p] \in {None, 0}
                         /\ \A k \in Keys : rows[k] \in {None, 0}
        /\ \A p \in Procs : held[p] = 0 => master = 0
        /\ ~twice => \A p \in Procs : held[p] \in {None, master}

OpeningInv ==
    /\ BackupMeansMigrated /\ RowsMatchMaster /\ LeftBehindExplained
    /\ SourceInUse /\ FilledInOrder /\ SameSource /\ MasterStays /\ CopiedIsThere
    /\ OneOpens /\ MigratesAlone /\ NothingToMigrate /\ SessionsAgree

-----------------------------------------------------------------------------
(* Every step keeps it                                                     *)

ProcStep(p) ==
    \/ OpenStep(p)
    \/ Unlock(p) \/ InitCheck(p) \/ CreateWithMaster(p)
    \/ \E k \in Keys : SetDBPassword(p, k)
    \/ Stop(p)

\* Every step keeps the types.
LEMMA StepType ==
    ASSUME TypeOK, NEW p \in Procs, ProcStep(p)
    PROVE  TypeOK'
<1> USE LegacyAssumption DEF database, process, history, Goto
<1>1. CASE Open(p)
  BY <1>1 DEF TypeOK, Opening, Open
<1>2. CASE MigrateIfNeeded(p)
  BY <1>2 DEF TypeOK, Opening, Sources, MigrateIfNeeded, FoundSource
<1>3. CASE CreateFile(p)
  BY <1>3 DEF TypeOK, Opening, CreateFile
<1>4. CASE ReadRow(p)
  BY <1>4 DEF TypeOK, Opening, ReadRow, Opened
<1>5. CASE InsertRow(p)
  BY <1>5 DEF TypeOK, Opening, InsertRow, Opened
<1>6. CASE MigrateMeta(p)
  <2>1. 0 \in 0 .. MaxMasters /\ source[p] # None /\ dbFile = "row"
    BY <1>6 DEF TypeOK, MigrateMeta
  <2>2. master' \in 0 .. MaxMasters \cup {None} /\ encId' \in 0 .. MaxMasters \cup {None}
    BY <1>6, <2>1 DEF TypeOK, MigrateMeta
  <2>3. made' \in 0 .. MaxMasters /\ todo' \in [Procs -> SUBSET LegacyKeys]
    BY <1>6 DEF TypeOK, Secrets, MigrateMeta
  <2> QED
    BY <1>6, <2>1, <2>2, <2>3 DEF TypeOK, Opening, MigrateMeta
<1>7. ASSUME NEW k \in LegacyKeys, MigrateSecret(p, k)
      PROVE  TypeOK'
  BY <1>7 DEF TypeOK, MigrateSecret
<1>8. CASE RenameSource(p)
  BY <1>8 DEF TypeOK, Opening, RenameSource
<1>9. CASE Unlock(p)
  BY <1>9 DEF TypeOK, Unlock
<1>10. CASE InitCheck(p)
  BY <1>10 DEF TypeOK, InitCheck
<1>11. CASE CreateWithMaster(p)
  BY <1>11 DEF TypeOK, CreateWithMaster
<1>12. ASSUME NEW k \in Keys, SetDBPassword(p, k)
      PROVE  TypeOK'
  BY <1>12 DEF TypeOK, SetDBPassword
<1>13. CASE Stop(p)
  BY <1>13 DEF TypeOK, Stop
<1> QED
  BY <1>1, <1>2, <1>3, <1>4, <1>5, <1>6, <1>7, <1>8, <1>9,
     <1>10, <1>11, <1>12, <1>13 DEF ProcStep, OpenStep

\* A process has a source only while it migrates.
LEMMA StepSource ==
    ASSUME TypeOK, SourceInUse, NEW p \in Procs, ProcStep(p)
    PROVE  SourceInUse'
<1> USE LegacyAssumption DEF database, process, history, Goto
<1>1. CASE Open(p)
  BY <1>1 DEF TypeOK, Secrets, SourceInUse, Open
<1>2. CASE MigrateIfNeeded(p)
  BY <1>2 DEF TypeOK, Secrets, SourceInUse, MigrateIfNeeded
<1>3. CASE CreateFile(p)
  BY <1>3 DEF TypeOK, Secrets, SourceInUse, CreateFile
<1>4. CASE ReadRow(p)
  BY <1>4 DEF TypeOK, Secrets, SourceInUse, ReadRow, Opened
<1>5. CASE InsertRow(p)
  BY <1>5 DEF TypeOK, Secrets, SourceInUse, InsertRow, Opened
<1>6. CASE MigrateMeta(p)
  BY <1>6 DEF TypeOK, Secrets, SourceInUse, MigrateMeta
<1>7. ASSUME NEW k \in LegacyKeys, MigrateSecret(p, k)
      PROVE  SourceInUse'
  BY <1>7 DEF TypeOK, Secrets, SourceInUse, MigrateSecret
<1>8. CASE RenameSource(p)
  BY <1>8 DEF TypeOK, Secrets, SourceInUse, RenameSource
<1>9. CASE Unlock(p)
  BY <1>9 DEF TypeOK, Secrets, SourceInUse, Unlock
<1>10. CASE InitCheck(p)
  BY <1>10 DEF TypeOK, Secrets, SourceInUse, InitCheck
<1>11. CASE CreateWithMaster(p)
  BY <1>11 DEF TypeOK, Secrets, SourceInUse, CreateWithMaster
<1>12. ASSUME NEW k \in Keys, SetDBPassword(p, k)
      PROVE  SourceInUse'
  BY <1>12 DEF TypeOK, Secrets, SourceInUse, SetDBPassword
<1>13. CASE Stop(p)
  BY <1>13 DEF TypeOK, Secrets, SourceInUse, Stop
<1> QED
  BY <1>1, <1>2, <1>3, <1>4, <1>5, <1>6, <1>7, <1>8, <1>9,
     <1>10, <1>11, <1>12, <1>13 DEF ProcStep, OpenStep

\* The database stays filled in order.
LEMMA StepOrder ==
    ASSUME TypeOK, FilledInOrder, NEW p \in Procs, ProcStep(p)
    PROVE  FilledInOrder'
<1> USE LegacyAssumption DEF database, process, history, Goto
<1>1. CASE Open(p)
  BY <1>1 DEF FilledInOrder, Open
<1>2. CASE MigrateIfNeeded(p)
  BY <1>2 DEF TypeOK, FilledInOrder, MigrateIfNeeded
<1>3. CASE CreateFile(p)
  BY <1>3 DEF FilledInOrder, CreateFile
<1>4. CASE ReadRow(p)
  BY <1>4 DEF TypeOK, FilledInOrder, ReadRow, Opened
<1>5. CASE InsertRow(p)
  BY <1>5 DEF FilledInOrder, InsertRow, Opened
<1>6. CASE MigrateMeta(p)
  BY <1>6 DEF TypeOK, FilledInOrder, MigrateMeta
<1>7. ASSUME NEW k \in LegacyKeys, MigrateSecret(p, k)
      PROVE  FilledInOrder'
  BY <1>7 DEF FilledInOrder, MigrateSecret
<1>8. CASE RenameSource(p)
  BY <1>8 DEF FilledInOrder, RenameSource
<1>9. CASE Unlock(p)
  BY <1>9 DEF FilledInOrder, Unlock
<1>10. CASE InitCheck(p)
  BY <1>10 DEF FilledInOrder, InitCheck
<1>11. CASE CreateWithMaster(p)
  BY <1>11 DEF TypeOK, FilledInOrder, CreateWithMaster
<1>12. ASSUME NEW k \in Keys, SetDBPassword(p, k)
      PROVE  FilledInOrder'
  BY <1>12 DEF FilledInOrder, SetDBPassword
<1>13. CASE Stop(p)
  BY <1>13 DEF FilledInOrder, Stop
<1> QED
  BY <1>1, <1>2, <1>3, <1>4, <1>5, <1>6, <1>7, <1>8, <1>9,
     <1>10, <1>11, <1>12, <1>13 DEF ProcStep, OpenStep

\* Every process migrates the same file.
LEMMA StepSame ==
    ASSUME TypeOK, SourceInUse, FilledInOrder, SameSource, NEW p \in Procs, ProcStep(p)
    PROVE  SameSource'
<1> USE LegacyAssumption DEF database, process, history, Goto
<1>1. CASE MigrateIfNeeded(p)
  <2>1. UNCHANGED files /\ source' \in {source, [source EXCEPT ![p] = None],
                                         [source EXCEPT ![p] = FoundSource]}
    BY <1>1 DEF MigrateIfNeeded
  <2>2. CASE source' # [source EXCEPT ![p] = FoundSource]
    BY <2>1, <2>2 DEF TypeOK, SameSource, FoundSource
  <2>3. CASE source' = [source EXCEPT ![p] = FoundSource] /\ source'[p] # None
    <3>1. dbFile = "none" /\ files[FoundSource] # "bad" /\ FoundSource \in Sources
      BY <1>1, <2>3 DEF TypeOK, SourceInUse, MigrateIfNeeded, FoundSource, Sources
    <3>2. files[FoundSource] = "good" /\ \A s \in Sources : files[s] # "bak"
      BY <3>1 DEF TypeOK, FilledInOrder, FoundSource, Sources
    <3> QED
      BY <2>1, <2>3, <3>1, <3>2 DEF TypeOK, SameSource, FoundSource
  <2>4. CASE source' = [source EXCEPT ![p] = FoundSource] /\ source'[p] = None
    BY <2>1, <2>4 DEF TypeOK, SameSource, FoundSource
  <2> QED
    BY <2>1, <2>2, <2>3, <2>4
<1>2. CASE RenameSource(p)
  <2>1. /\ files[source[p]] = "good" /\ source[p] \in Sources /\ source[p] # None
        /\ files' = [files EXCEPT ![source[p]] = "bak"]
        /\ source' = [source EXCEPT ![p] = None]
    BY <1>2 DEF TypeOK, Sources, RenameSource
  <2>2. ASSUME NEW q \in Procs, source[q] # None
        PROVE  source[q] = source[p]
    BY <2>1, <2>2 DEF TypeOK, SameSource
  <2>3. \A s \in Sources : files[s] = "bak" => s = source[p]
    BY <2>1 DEF TypeOK, SameSource
  <2> QED
    BY <2>1, <2>2, <2>3 DEF TypeOK, SameSource
<1>3. CASE Stop(p)
  BY <1>3 DEF TypeOK, SameSource, Stop, FoundSource
<1>4. CASE UNCHANGED <<files, source>>
  BY <1>4 DEF SameSource, FoundSource
<1> QED
  BY <1>1, <1>2, <1>3, <1>4 DEF ProcStep, OpenStep, Open, CreateFile, ReadRow, InsertRow,
     MigrateMeta, MigrateSecret, Unlock, InitCheck, CreateWithMaster, SetDBPassword

\* A legacy master that is there stays, until another is created over it.
LEMMA StepMaster ==
    ASSUME TypeOK, SourceInUse, SameSource, MasterStays, NEW p \in Procs, ProcStep(p)
    PROVE  MasterStays'
<1> USE LegacyAssumption DEF database, process, history, Goto
<1>1. CASE MigrateMeta(p)
  <2>1. /\ source' = source /\ keyed' = keyed
        /\ master' = IF keyed[source[p]] THEN 0 ELSE None
        /\ pc' = [pc EXCEPT ![p] = "secrets"] /\ source[p] # None
    BY <1>1 DEF TypeOK, MigrateMeta
  <2>2. ASSUME NEW q \in Procs, pc'[q] = "secrets", keyed[source[q]]
        PROVE  master' # None
    <3>1. source[q] # None
      BY <2>1, <2>2 DEF TypeOK
    <3>2. source[q] = source[p]
      BY <2>1, <3>1 DEF TypeOK, SameSource
    <3> QED
      BY <2>1, <2>2, <3>2
  <2> QED
    BY <2>1, <2>2 DEF MasterStays
<1>2. CASE ~MigrateMeta(p)
  <2>1. /\ keyed' = keyed
        /\ master # None => master' # None
        /\ \A q \in Procs : pc'[q] = "secrets" => pc[q] = "secrets" /\ source'[q] = source[q]
    BY <1>2 DEF TypeOK, SourceInUse, ProcStep, OpenStep, Open, MigrateIfNeeded, CreateFile, ReadRow,
       InsertRow, Opened, MigrateSecret, RenameSource, Unlock, InitCheck, CreateWithMaster,
       SetDBPassword, Stop
  <2>2. ASSUME NEW q \in Procs, pc'[q] = "secrets", keyed'[source'[q]]
        PROVE  master' # None
    BY <2>1, <2>2 DEF MasterStays
  <2> QED
    BY <2>2 DEF MasterStays
<1> QED
  BY <1>1, <1>2

\* What has been copied stays, and what is renamed has been copied.
LEMMA StepCopied ==
    ASSUME TypeOK, FilledInOrder, SameSource, MasterStays, CopiedIsThere, BackupMeansMigrated,
           NEW p \in Procs, ProcStep(p)
    PROVE  CopiedIsThere' /\ (TypeOK' => BackupMeansMigrated')
<1> USE LegacyAssumption DEF database, process, history, Goto
<1>1. CASE Open(p)
  BY <1>1 DEF Secrets, CopiedIsThere, BackupMeansMigrated, Open
<1>2. CASE MigrateIfNeeded(p)
  BY <1>2 DEF TypeOK, Secrets, CopiedIsThere, BackupMeansMigrated, MigrateIfNeeded
<1>3. CASE CreateFile(p)
  BY <1>3 DEF Secrets, CopiedIsThere, BackupMeansMigrated, CreateFile
<1>4. CASE ReadRow(p)
  BY <1>4 DEF TypeOK, Secrets, CopiedIsThere, BackupMeansMigrated, ReadRow, Opened
<1>5. CASE InsertRow(p)
  BY <1>5 DEF Secrets, CopiedIsThere, BackupMeansMigrated, InsertRow, Opened
<1>6. CASE MigrateMeta(p)
  <2>1. /\ UNCHANGED <<files, keyed, rows, source>>
        /\ master' = IF keyed[source[p]] THEN 0 ELSE None
        /\ encId' # None /\ source[p] # None
        /\ pc' = [pc EXCEPT ![p] = "secrets"]
        /\ todo' = [todo EXCEPT ![p] = Secrets(source[p])]
    BY <1>6 DEF TypeOK, MigrateMeta
  <2>2. CopiedIsThere'
    BY <2>1 DEF TypeOK, Secrets, CopiedIsThere
  <2>3. \A s \in Sources : files[s] = "bak" => s = source[p]
    BY <2>1 DEF SameSource
  <2> QED
    BY <2>1, <2>2, <2>3 DEF Secrets, BackupMeansMigrated
<1>7. ASSUME NEW k \in LegacyKeys, MigrateSecret(p, k)
      PROVE  CopiedIsThere' /\ (TypeOK' => BackupMeansMigrated')
  BY <1>7 DEF TypeOK, Secrets, CopiedIsThere, BackupMeansMigrated, MigrateSecret
<1>8. CASE RenameSource(p)
  <2>1. /\ UNCHANGED <<keyed, rows, master, encId, todo>> /\ source[p] \in Sources
        /\ pc[p] = "secrets" /\ todo[p] = {}
        /\ files' = [files EXCEPT ![source[p]] = "bak"]
        /\ pc' = [pc EXCEPT ![p] = "create"] /\ source' = [source EXCEPT ![p] = None]
    BY <1>8 DEF TypeOK, RenameSource
  <2>2. CopiedIsThere'
    BY <2>1 DEF TypeOK, Secrets, CopiedIsThere
  <2>3. /\ encId # None
        /\ keyed[source[p]] => master # None
        /\ \A k \in Secrets(source[p]) : rows[k] # None
    BY <2>1 DEF FilledInOrder, MasterStays, CopiedIsThere
  <2>4. \A s \in Sources : files'[s] = "bak" => files[s] = "bak" \/ s = source[p]
    BY <2>1 DEF TypeOK
  <2>5. \A s \in Sources : Secrets(s)' = Secrets(s)
    BY <2>1 DEF Secrets
  <2> QED
    BY <2>1, <2>2, <2>3, <2>4, <2>5 DEF BackupMeansMigrated
<1>9. CASE Unlock(p)
  BY <1>9 DEF Secrets, CopiedIsThere, BackupMeansMigrated, Unlock
<1>10. CASE InitCheck(p)
  BY <1>10 DEF Secrets, CopiedIsThere, BackupMeansMigrated, InitCheck
<1>11. CASE CreateWithMaster(p)
  BY <1>11 DEF TypeOK, Secrets, CopiedIsThere, BackupMeansMigrated, CreateWithMaster
<1>12. ASSUME NEW k \in Keys, SetDBPassword(p, k)
      PROVE  CopiedIsThere' /\ (TypeOK' => BackupMeansMigrated')
  BY <1>12 DEF TypeOK, Secrets, CopiedIsThere, BackupMeansMigrated, SetDBPassword
<1>13. CASE Stop(p)
  BY <1>13 DEF TypeOK, Secrets, CopiedIsThere, BackupMeansMigrated, Stop
<1> QED
  BY <1>1, <1>2, <1>3, <1>4, <1>5, <1>6, <1>7, <1>8, <1>9,
     <1>10, <1>11, <1>12, <1>13 DEF ProcStep, OpenStep

\* Opening at the same time is a race.
LEMMA StepOpens ==
    ASSUME TypeOK, OneOpens, NEW p \in Procs, ProcStep(p)
    PROVE  OneOpens'
<1> USE LegacyAssumption DEF database, process, history, Goto
<1>1. CASE Open(p)
  BY <1>1 DEF TypeOK, OneOpens, Open
<1>2. CASE MigrateIfNeeded(p)
  BY <1>2 DEF TypeOK, OneOpens, MigrateIfNeeded
<1>3. CASE CreateFile(p)
  BY <1>3 DEF OneOpens, Opening, CreateFile
<1>4. CASE ReadRow(p)
  BY <1>4 DEF TypeOK, OneOpens, ReadRow, Opened
<1>5. CASE InsertRow(p)
  BY <1>5 DEF OneOpens, Opening, InsertRow, Opened
<1>6. CASE MigrateMeta(p)
  BY <1>6 DEF OneOpens, Opening, MigrateMeta
<1>7. ASSUME NEW k \in LegacyKeys, MigrateSecret(p, k)
      PROVE  OneOpens'
  BY <1>7 DEF OneOpens, MigrateSecret
<1>8. CASE RenameSource(p)
  BY <1>8 DEF OneOpens, Opening, RenameSource
<1>9. CASE Unlock(p)
  BY <1>9 DEF OneOpens, Opening, Unlock
<1>10. CASE InitCheck(p)
  BY <1>10 DEF OneOpens, Opening, InitCheck
<1>11. CASE CreateWithMaster(p)
  BY <1>11 DEF OneOpens, Opening, CreateWithMaster
<1>12. ASSUME NEW k \in Keys, SetDBPassword(p, k)
      PROVE  OneOpens'
  BY <1>12 DEF OneOpens, SetDBPassword
<1>13. CASE Stop(p)
  BY <1>13 DEF OneOpens, Opening, Stop
<1> QED
  BY <1>1, <1>2, <1>3, <1>4, <1>5, <1>6, <1>7, <1>8, <1>9,
     <1>10, <1>11, <1>12, <1>13 DEF ProcStep, OpenStep

\* Without a race a migration keeps the vault to itself.
LEMMA StepAlone ==
    ASSUME TypeOK, SourceInUse, FilledInOrder, OneOpens, MigratesAlone,
           NEW p \in Procs, ProcStep(p)
    PROVE  MigratesAlone'
<1> USE LegacyAssumption DEF database, process, history, Goto
<1>1. CASE Open(p)
  BY <1>1 DEF SourceInUse, MigratesAlone, Opening, Open
<1>2. CASE MigrateIfNeeded(p)
  <2>1. CASE source'[p] = None
    BY <1>2, <2>1 DEF TypeOK, MigratesAlone, Alone, MigrateIfNeeded
  <2>2. CASE source'[p] # None
    <3>1. dbFile = "none" /\ pc' = [pc EXCEPT ![p] = "create"] /\ source'[p] = FoundSource
      BY <1>2, <2>2 DEF TypeOK, SourceInUse, MigrateIfNeeded
    <3>2. ~raced => Alone(p)
      BY <1>2, <3>1 DEF TypeOK, FilledInOrder, OneOpens, Alone, MigrateIfNeeded
    <3>3. ASSUME ~raced, NEW q \in Procs, q # p
          PROVE  source'[q] = None
      BY <1>2, <3>2, <3>3 DEF TypeOK, SourceInUse, Alone, MigrateIfNeeded
    <3>4. source'[p] = "json" => files["binary"] \notin {"good", "bad"}
      BY <3>1 DEF FoundSource
    <3>5. UNCHANGED <<files, dbFile, raced>>
      BY <1>2 DEF MigrateIfNeeded
    <3> QED
      BY <3>1, <3>2, <3>3, <3>4, <3>5 DEF TypeOK, MigratesAlone, Alone
  <2> QED
    BY <2>1, <2>2
<1>3. CASE CreateFile(p)
  BY <1>3 DEF TypeOK, MigratesAlone, Alone, CreateFile
<1>4. CASE ReadRow(p)
  BY <1>4 DEF TypeOK, MigratesAlone, Alone, ReadRow
<1>5. CASE InsertRow(p)
  BY <1>5 DEF TypeOK, FilledInOrder, MigratesAlone, Alone, InsertRow, Opened
<1>6. CASE MigrateMeta(p)
  BY <1>6 DEF TypeOK, MigratesAlone, Alone, MigrateMeta
<1>7. ASSUME NEW k \in LegacyKeys, MigrateSecret(p, k)
      PROVE  MigratesAlone'
  BY <1>7 DEF MigratesAlone, Alone, MigrateSecret
<1>8. CASE RenameSource(p)
  BY <1>8 DEF TypeOK, MigratesAlone, Alone, RenameSource
<1>9. CASE Unlock(p)
  BY <1>9 DEF MigratesAlone, Alone, Unlock
<1>10. CASE InitCheck(p)
  BY <1>10 DEF MigratesAlone, Alone, InitCheck
<1>11. CASE CreateWithMaster(p)
  BY <1>11 DEF MigratesAlone, Alone, CreateWithMaster
<1>12. ASSUME NEW k \in Keys, SetDBPassword(p, k)
      PROVE  MigratesAlone'
  BY <1>12 DEF MigratesAlone, Alone, SetDBPassword
<1>13. CASE Stop(p)
  BY <1>13 DEF MigratesAlone, Alone, Stop
<1> QED
  BY <1>1, <1>2, <1>3, <1>4, <1>5, <1>6, <1>7, <1>8, <1>9,
     <1>10, <1>11, <1>12, <1>13 DEF ProcStep, OpenStep

\* A vault without a migration has nothing to migrate.
LEMMA StepNothing ==
    ASSUME TypeOK, SourceInUse, MigratesAlone, NothingToMigrate, NEW p \in Procs, ProcStep(p)
    PROVE  NothingToMigrate'
<1> USE LegacyAssumption DEF database, process, history, Goto
<1>1. CASE Open(p)
  BY <1>1 DEF TypeOK, NothingToMigrate, Open
<1>2. CASE MigrateIfNeeded(p)
  BY <1>2 DEF TypeOK, NothingToMigrate, Sources, MigrateIfNeeded, FoundSource
<1>3. CASE CreateFile(p)
  BY <1>3 DEF NothingToMigrate, CreateFile
<1>4. CASE ReadRow(p)
  BY <1>4 DEF TypeOK, NothingToMigrate, ReadRow
<1>5. CASE InsertRow(p)
  BY <1>5 DEF NothingToMigrate, InsertRow
<1>6. CASE MigrateMeta(p)
  BY <1>6 DEF NothingToMigrate, MigrateMeta
<1>7. ASSUME NEW k \in LegacyKeys, MigrateSecret(p, k)
      PROVE  NothingToMigrate'
  BY <1>7 DEF NothingToMigrate, MigrateSecret
<1>8. CASE RenameSource(p)
  BY <1>8 DEF TypeOK, NothingToMigrate, RenameSource
<1>9. CASE Unlock(p)
  BY <1>9 DEF NothingToMigrate, Unlock
<1>10. CASE InitCheck(p)
  BY <1>10 DEF NothingToMigrate, InitCheck
<1>11. CASE CreateWithMaster(p)
  BY <1>11 DEF TypeOK, SourceInUse, MigratesAlone, NothingToMigrate, Sources, CreateWithMaster
<1>12. ASSUME NEW k \in Keys, SetDBPassword(p, k)
      PROVE  NothingToMigrate'
  BY <1>12 DEF NothingToMigrate, SetDBPassword
<1>13. CASE Stop(p)
  BY <1>13 DEF TypeOK, NothingToMigrate, Stop
<1> QED
  BY <1>1, <1>2, <1>3, <1>4, <1>5, <1>6, <1>7, <1>8, <1>9,
     <1>10, <1>11, <1>12, <1>13 DEF ProcStep, OpenStep

\* Sessions keep the vault's master.
LEMMA StepSessions ==
    ASSUME TypeOK, SourceInUse, FilledInOrder, MigratesAlone, SessionsAgree, NEW p \in Procs, ProcStep(p)
    PROVE  SessionsAgree'
<1> USE LegacyAssumption DEF database, process, history, Goto
<1>1. CASE Open(p)
  BY <1>1 DEF TypeOK, SessionsAgree, Open
<1>2. CASE MigrateIfNeeded(p)
  BY <1>2 DEF TypeOK, SessionsAgree, MigrateIfNeeded
<1>3. CASE CreateFile(p)
  BY <1>3 DEF SessionsAgree, CreateFile
<1>4. CASE ReadRow(p)
  BY <1>4 DEF TypeOK, SessionsAgree, ReadRow, Opened
<1>5. CASE InsertRow(p)
  BY <1>5 DEF SessionsAgree, InsertRow, Opened
<1>6. CASE MigrateMeta(p)
  BY <1>6 DEF TypeOK, FilledInOrder, MigratesAlone, Alone, SessionsAgree, MigrateMeta
<1>7. ASSUME NEW k \in LegacyKeys, MigrateSecret(p, k)
      PROVE  SessionsAgree'
  BY <1>7 DEF TypeOK, SourceInUse, MigratesAlone, Secrets, SessionsAgree, MigrateSecret
<1>8. CASE RenameSource(p)
  BY <1>8 DEF SessionsAgree, RenameSource
<1>9. CASE Unlock(p)
  BY <1>9 DEF SessionsAgree, Unlock
<1>10. CASE InitCheck(p)
  BY <1>10 DEF SessionsAgree, InitCheck
<1>11. CASE CreateWithMaster(p)
  <2>1. made + 1 \in Nat /\ made + 1 # 0
    BY DEF TypeOK
  <2>2. ~raced => master # 0 /\ \A q \in Procs : held[q] # 0
    BY <1>11 DEF SessionsAgree, CreateWithMaster
  <2>3. ~raced /\ ~twice' => master = None /\ \A q \in Procs : held[q] = None
    BY <1>11 DEF SessionsAgree, CreateWithMaster
  <2> QED
    BY <1>11, <2>1, <2>2, <2>3 DEF SessionsAgree, CreateWithMaster
<1>12. ASSUME NEW k \in Keys, SetDBPassword(p, k)
      PROVE  SessionsAgree'
  BY <1>12 DEF SessionsAgree, SetDBPassword
<1>13. CASE Stop(p)
  BY <1>13 DEF SessionsAgree, Stop
<1> QED
  BY <1>1, <1>2, <1>3, <1>4, <1>5, <1>6, <1>7, <1>8, <1>9,
     <1>10, <1>11, <1>12, <1>13 DEF ProcStep, OpenStep

\* Rows keep the vault's master.
LEMMA StepRows ==
    ASSUME TypeOK, SourceInUse, MigratesAlone, SessionsAgree, RowsMatchMaster, NEW p \in Procs, ProcStep(p)
    PROVE  RowsMatchMaster'
<1> USE LegacyAssumption DEF database, process, history, Goto
<1>1. CASE Open(p)
  BY <1>1 DEF RowsMatchMaster, Open
<1>2. CASE MigrateIfNeeded(p)
  BY <1>2 DEF RowsMatchMaster, MigrateIfNeeded
<1>3. CASE CreateFile(p)
  BY <1>3 DEF RowsMatchMaster, CreateFile
<1>4. CASE ReadRow(p)
  BY <1>4 DEF RowsMatchMaster, ReadRow
<1>5. CASE InsertRow(p)
  BY <1>5 DEF RowsMatchMaster, InsertRow
<1>6. CASE MigrateMeta(p)
  BY <1>6 DEF TypeOK, MigratesAlone, RowsMatchMaster, MigrateMeta
<1>7. ASSUME NEW k \in LegacyKeys, MigrateSecret(p, k)
      PROVE  RowsMatchMaster'
  BY <1>7 DEF TypeOK, SourceInUse, Secrets, MigratesAlone, RowsMatchMaster, MigrateSecret
<1>8. CASE RenameSource(p)
  BY <1>8 DEF RowsMatchMaster, RenameSource
<1>9. CASE Unlock(p)
  BY <1>9 DEF RowsMatchMaster, Unlock
<1>10. CASE InitCheck(p)
  BY <1>10 DEF RowsMatchMaster, InitCheck
<1>11. CASE CreateWithMaster(p)
  BY <1>11 DEF RowsMatchMaster, CreateWithMaster
<1>12. ASSUME NEW k \in Keys, SetDBPassword(p, k)
      PROVE  RowsMatchMaster'
  BY <1>12 DEF SessionsAgree, RowsMatchMaster, SetDBPassword
<1>13. CASE Stop(p)
  BY <1>13 DEF RowsMatchMaster, Stop
<1> QED
  BY <1>1, <1>2, <1>3, <1>4, <1>5, <1>6, <1>7, <1>8, <1>9,
     <1>10, <1>11, <1>12, <1>13 DEF ProcStep, OpenStep

\* A legacy file is left behind for a reason only.
LEMMA StepLeft ==
    ASSUME TypeOK, SourceInUse, FilledInOrder, MigratesAlone, NothingToMigrate, LeftBehindExplained,
           NEW p \in Procs, ProcStep(p)
    PROVE  LeftBehindExplained'
<1> USE LegacyAssumption DEF database, process, history, Goto
<1>1. CASE Open(p)
  BY <1>1 DEF LeftBehindExplained, Open
<1>2. CASE MigrateIfNeeded(p)
  BY <1>2 DEF TypeOK, SourceInUse, LeftBehindExplained, MigrateIfNeeded
<1>3. CASE CreateFile(p)
  BY <1>3 DEF NothingToMigrate, LeftBehindExplained, CreateFile
<1>4. CASE ReadRow(p)
  BY <1>4 DEF LeftBehindExplained, ReadRow
<1>5. CASE InsertRow(p)
  BY <1>5 DEF FilledInOrder, LeftBehindExplained, InsertRow
<1>6. CASE MigrateMeta(p)
  BY <1>6 DEF LeftBehindExplained, MigrateMeta
<1>7. ASSUME NEW k \in LegacyKeys, MigrateSecret(p, k)
      PROVE  LeftBehindExplained'
  BY <1>7 DEF LeftBehindExplained, MigrateSecret
<1>8. CASE RenameSource(p)
  BY <1>8 DEF TypeOK, MigratesAlone, LeftBehindExplained, Sources, RenameSource
<1>9. CASE Unlock(p)
  BY <1>9 DEF LeftBehindExplained, Unlock
<1>10. CASE InitCheck(p)
  BY <1>10 DEF LeftBehindExplained, InitCheck
<1>11. CASE CreateWithMaster(p)
  BY <1>11 DEF LeftBehindExplained, CreateWithMaster
<1>12. ASSUME NEW k \in Keys, SetDBPassword(p, k)
      PROVE  LeftBehindExplained'
  BY <1>12 DEF LeftBehindExplained, SetDBPassword
<1>13. CASE Stop(p)
  BY <1>13 DEF TypeOK, MigratesAlone, LeftBehindExplained, Stop
<1> QED
  BY <1>1, <1>2, <1>3, <1>4, <1>5, <1>6, <1>7, <1>8, <1>9,
     <1>10, <1>11, <1>12, <1>13 DEF ProcStep, OpenStep

KeepsNewer ==
    raced \/ /\ \A k \in Keys : rows[k] \notin {None, 0} => rows'[k] # 0
             /\ master \notin {None, 0} => master' \notin {None, 0}
             /\ encId # None /\ encId' # encId =>
                    twice' \/ (master = None /\ \E p \in Procs : CreateWithMaster(p))

\* The migration replaces nothing newer.
LEMMA StepNewer ==
    ASSUME TypeOK, FilledInOrder, MigratesAlone, SessionsAgree, NEW p \in Procs, ProcStep(p)
    PROVE  KeepsNewer
<1> USE LegacyAssumption DEF database, process, history, Goto
<1>1. CASE Open(p)
  BY <1>1 DEF KeepsNewer, Open
<1>2. CASE MigrateIfNeeded(p)
  BY <1>2 DEF KeepsNewer, MigrateIfNeeded
<1>3. CASE CreateFile(p)
  BY <1>3 DEF KeepsNewer, CreateFile
<1>4. CASE ReadRow(p)
  BY <1>4 DEF KeepsNewer, ReadRow
<1>5. CASE InsertRow(p)
  BY <1>5 DEF KeepsNewer, InsertRow
<1>6. CASE MigrateMeta(p)
  <2>1. ~raced => master = None /\ encId = None /\ rows' = rows
    BY <1>6 DEF TypeOK, MigratesAlone, KeepsNewer, MigrateMeta
  <2> QED
    BY <2>1 DEF KeepsNewer
<1>7. ASSUME NEW k \in LegacyKeys, MigrateSecret(p, k)
      PROVE  KeepsNewer
  BY <1>7 DEF TypeOK, MigratesAlone, SessionsAgree, KeepsNewer, MigrateSecret
<1>8. CASE RenameSource(p)
  BY <1>8 DEF KeepsNewer, RenameSource
<1>9. CASE Unlock(p)
  BY <1>9 DEF KeepsNewer, Unlock
<1>10. CASE InitCheck(p)
  BY <1>10 DEF KeepsNewer, InitCheck
<1>11. CASE CreateWithMaster(p)
  <2>1. made + 1 \in Nat /\ made + 1 # 0
    BY DEF TypeOK
  <2> QED
    BY <1>11, <2>1 DEF FilledInOrder, KeepsNewer, CreateWithMaster
<1>12. ASSUME NEW k \in Keys, SetDBPassword(p, k)
      PROVE  KeepsNewer
  BY <1>12 DEF SessionsAgree, KeepsNewer, SetDBPassword
<1>13. CASE Stop(p)
  BY <1>13 DEF KeepsNewer, Stop
<1> QED
  BY <1>1, <1>2, <1>3, <1>4, <1>5, <1>6, <1>7, <1>8, <1>9,
     <1>10, <1>11, <1>12, <1>13 DEF ProcStep, OpenStep

-----------------------------------------------------------------------------
(* The theorems                                                            *)

\* The whole invariant is inductive, types included.
LEMMA OpeningInductive ==
    OpeningInv /\ [Next]_vars => OpeningInv'
<1> SUFFICES ASSUME OpeningInv, [Next]_vars PROVE OpeningInv'
  OBVIOUS
<1>1. TypeOK
  BY DEF OpeningInv, BackupMeansMigrated
<1>2. CASE UNCHANGED vars
  BY <1>2 DEF vars, database, process, history, OpeningInv, BackupMeansMigrated, TypeOK, Opening,
     RowsMatchMaster, LeftBehindExplained, SourceInUse, FilledInOrder, CopiedIsThere, OneOpens,
     MigratesAlone, Alone, NothingToMigrate, SessionsAgree, SameSource, FoundSource, MasterStays,
     Secrets
<1>3. ASSUME NEW p \in Procs, ProcStep(p)
      PROVE  OpeningInv'
  BY <1>1, <1>3, StepType, StepSource, StepOrder, StepSame, StepMaster, StepCopied, StepOpens,
     StepAlone, StepNothing, StepSessions, StepRows, StepLeft DEF OpeningInv
<1> QED
  BY <1>2, <1>3 DEF Next, ProcStep

\* It holds at the start.
LEMMA OpeningInit == Init => OpeningInv
<1> SUFFICES ASSUME Init PROVE OpeningInv
  OBVIOUS
<1> USE LegacyAssumption DEF Init
<1>1. TypeOK
  <2>1. files \in [Sources -> {"none", "good", "bad", "bak"}]
    OBVIOUS
  <2>2. \A p \in Procs : pc[p] = "closed" /\ source[p] = None /\ todo[p] = {} /\ held[p] = None
    OBVIOUS
  <2>3. 0 \in 0 .. MaxMasters
    OBVIOUS
  <2>4. \A p \in Procs : (pc[p] = "session") = (held[p] # None)
    BY <2>2
  <2>5. pc \in [Procs -> Opening \cup {"closed", "open", "new", "session"}]
    OBVIOUS
  <2> QED
    BY <2>1, <2>2, <2>3, <2>4, <2>5 DEF TypeOK
<1>2. BackupMeansMigrated
  BY <1>1 DEF BackupMeansMigrated
<1>3. RowsMatchMaster /\ LeftBehindExplained
  BY DEF RowsMatchMaster, LeftBehindExplained
<1>4. SourceInUse /\ FilledInOrder /\ SameSource /\ MasterStays /\ CopiedIsThere
  BY DEF SourceInUse, FilledInOrder, SameSource, MasterStays, CopiedIsThere
<1>5. OneOpens /\ MigratesAlone /\ NothingToMigrate
  BY DEF OneOpens, Opening, MigratesAlone, NothingToMigrate
<1>6. SessionsAgree
  BY DEF SessionsAgree
<1> QED
  BY <1>1, <1>2, <1>3, <1>4, <1>5, <1>6 DEF OpeningInv

\* In every reachable state the database was filled in order and, but for a race,
\* by one process at a time (vault/store.go, legacy.go).
THEOREM OpeningInvariant == Spec => []OpeningInv
  BY OpeningInit, OpeningInductive, PTL DEF Spec

\* A legacy file is out of the way only when all it held is in the vault, its master
\* if it had one, whatever fails, dies or races (legacy.go migrateLegacyIfNeeded).
THEOREM BackupsAreMigrated == Spec => []BackupMeansMigrated
<1>1. OpeningInv => BackupMeansMigrated
  BY DEF OpeningInv
<1> QED
  BY <1>1, OpeningInvariant, PTL

\* Every ciphertext opens with the vault's master, but for the two races
\* (store.go migrate, session.go CreateWithMaster).
THEOREM RowsAgree == Spec => []RowsMatchMaster
<1>1. OpeningInv => RowsMatchMaster
  BY DEF OpeningInv
<1> QED
  BY <1>1, OpeningInvariant, PTL

\* A readable legacy file is left behind for a named reason only (legacy.go).
THEOREM LeftForAReason == Spec => []LeftBehindExplained
<1>1. OpeningInv => LeftBehindExplained
  BY DEF OpeningInv
<1> QED
  BY <1>1, OpeningInvariant, PTL

\* But for the two races no step of a migration replaces what was created or saved
\* after it, and none but the first master replaces an enc_id (legacy.go, session.go).
THEOREM NewerIsKept == Spec => MigrationKeepsNewer
<1>1. OpeningInv /\ [Next]_vars => [KeepsNewer]_vars
  <2> SUFFICES ASSUME OpeningInv, Next PROVE KeepsNewer
    OBVIOUS
  <2>1. PICK p \in Procs : ProcStep(p)
    BY DEF Next, ProcStep
  <2> QED
    BY <2>1, StepNewer DEF OpeningInv, BackupMeansMigrated
<1> QED
  BY <1>1, OpeningInvariant, PTL DEF Spec, MigrationKeepsNewer, KeepsNewer
=============================================================================
