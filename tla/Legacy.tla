-------------------------------- MODULE Legacy --------------------------------
(***************************************************************************)
(* Opening vault.db, and the migration of the older metadata file into it  *)
(* on the first open (src/internal/vault/legacy.go, store.go), by several  *)
(* processes of one directory, each statement a step that may fail or be   *)
(* the last before a crash.                                                *)
(*                                                                         *)
(* A master password, and an enc_id, is the number of its creation; number *)
(* 0 is the legacy file's.  A ciphertext is the master it was made under.  *)
(* A legacy file whose master is null (config init was never through with  *)
(* it) holds no secrets; else its S3 secret moves with its master.         *)
(***************************************************************************)
EXTENDS Naturals, FiniteSets

CONSTANTS
    Procs,
    Keys,           \* keys of saved passwords
    LegacyKeys,     \* those the legacy file holds
    LegacyEncId,    \* whether it has an enc_id
    None,
    MaxMasters      \* bound: masters and enc_ids made

ASSUME LegacyAssumption ==
    /\ LegacyKeys \subseteq Keys /\ LegacyEncId \in BOOLEAN
    /\ None \notin Nat \cup {"binary", "json"} /\ MaxMasters \in Nat

Sources == {"binary", "json"}

VARIABLES
    files,      \* "metadata" and "metadata.json"
    keyed,      \* whether each has a master
    dbFile,     \* vault.db: not there, created, with its vault_meta row
    master, encId, rows,
    pc,
    source,     \* the legacy file a process is migrating
    todo,       \* its secrets still to copy
    held,       \* the master a process's session was opened with
    made,       \* bound: masters and enc_ids made so far
    raced,      \* history: two processes were opening at once
    twice,      \* history: a master was created over another
    cutShort    \* history: a migration failed or died after it created vault.db

database == <<dbFile, master, encId, rows>>
process == <<pc, source, todo, held>>
history == <<raced, twice, cutShort>>
vars == <<files, keyed, database, process, made, history>>

Opening == {"check", "create", "schema", "insert", "meta", "secrets"}

TypeOK ==
    /\ files \in [Sources -> {"none", "good", "bad", "bak"}] /\ keyed \in [Sources -> BOOLEAN]
    /\ dbFile \in {"none", "created", "row"}
    /\ master \in 0 .. MaxMasters \cup {None} /\ encId \in 0 .. MaxMasters \cup {None}
    /\ rows \in [Keys -> 0 .. MaxMasters \cup {None}]
    /\ pc \in [Procs -> Opening \cup {"closed", "open", "new", "session"}]
    /\ source \in [Procs -> Sources \cup {None}]
    /\ todo \in [Procs -> SUBSET LegacyKeys]
    /\ held \in [Procs -> 0 .. MaxMasters \cup {None}]
    /\ made \in 0 .. MaxMasters
    /\ raced \in BOOLEAN /\ twice \in BOOLEAN /\ cutShort \in BOOLEAN
    /\ \A p \in Procs : /\ pc[p] \in {"meta", "secrets"} => source[p] # None /\ dbFile = "row"
                        /\ (pc[p] = "session") = (held[p] # None)
                        /\ todo[p] # {} => pc[p] = "secrets"

Init ==
    /\ files \in [Sources -> {"none", "good", "bad"}] /\ keyed \in [Sources -> BOOLEAN]
    /\ dbFile = "none" /\ master = None /\ encId = None /\ rows = [k \in Keys |-> None]
    /\ pc = [p \in Procs |-> "closed"] /\ source = [p \in Procs |-> None]
    /\ todo = [p \in Procs |-> {}] /\ held = [p \in Procs |-> None]
    /\ made = 0 /\ raced = FALSE /\ twice = FALSE /\ cutShort = FALSE

Goto(p, l) == pc' = [pc EXCEPT ![p] = l]

\* dbPasswords of a legacy file.
Secrets(s) == IF keyed[s] THEN LegacyKeys ELSE {}

-----------------------------------------------------------------------------
(* Opening                                                                 *)

\* vault.Open
Open(p) ==
    /\ pc[p] = "closed"
    /\ Goto(p, "check")
    /\ raced' = (raced \/ \E q \in Procs : pc[q] \in Opening)
    /\ UNCHANGED <<files, keyed, database, source, todo, held, made, twice, cutShort>>

\* Mutant of FoundSource: the JSON file first.
FoundJsonFirst ==
    IF files["json"] \in {"good", "bad"} THEN "json"
    ELSE IF files["binary"] \in {"good", "bad"} THEN "binary" ELSE None

\* loadLegacyMetadata: the binary file hides the JSON one.
FoundSource ==
    IF files["binary"] \in {"good", "bad"} THEN "binary"
    ELSE IF files["json"] \in {"good", "bad"} THEN "json" ELSE None

\* Mutant of MigrateIfNeeded: the vault's existence is not looked at.
MigrateAlways(p) ==
    /\ pc[p] = "check"
    /\ IF FoundSource # None /\ files[FoundSource] = "bad"
       THEN Goto(p, "closed") /\ UNCHANGED source
       ELSE Goto(p, "create") /\ source' = [source EXCEPT ![p] = FoundSource]
    /\ UNCHANGED <<files, keyed, database, todo, held, made, history>>

\* Nothing to do once vault.db is there; an unreadable legacy file is an error.
MigrateIfNeeded(p) ==
    /\ pc[p] = "check"
    /\ LET src == IF dbFile = "none" THEN FoundSource ELSE None
       IN  IF src # None /\ files[src] = "bad"
           THEN Goto(p, "closed") /\ UNCHANGED source
           ELSE Goto(p, "create") /\ source' = [source EXCEPT ![p] = src]
    /\ UNCHANGED <<files, keyed, database, todo, held, made, history>>

\* openVaultDB: connecting creates the file.
CreateFile(p) ==
    /\ pc[p] = "create"
    /\ dbFile' = IF dbFile = "none" THEN "created" ELSE dbFile
    /\ Goto(p, "schema")
    /\ UNCHANGED <<files, keyed, master, encId, rows, source, todo, held, made, history>>

\* Opened for the migration, or for its caller.
Opened(p) == Goto(p, IF source[p] = None THEN "open" ELSE "meta")

\* CREATE TABLE IF NOT EXISTS, then VaultMetaRowExists.
ReadRow(p) ==
    /\ pc[p] = "schema"
    /\ IF dbFile = "row" THEN Opened(p) ELSE Goto(p, "insert")
    /\ UNCHANGED <<files, keyed, database, source, todo, held, made, history>>

\* InsertVaultMeta: the row of another process is an error.
InsertRow(p) ==
    /\ pc[p] = "insert" /\ dbFile # "row"
    /\ dbFile' = "row"
    /\ Opened(p)
    /\ UNCHANGED <<files, keyed, master, encId, rows, source, todo, held, made, history>>

\* Mutant of MigrateMeta: a new salt, as if a master were being created.
MigrateNewSalt(p) ==
    /\ pc[p] = "meta" /\ made < MaxMasters
    /\ master' = made + 1 /\ encId' = made + 1 /\ made' = made + 1
    /\ todo' = [todo EXCEPT ![p] = Secrets(source[p])]
    /\ Goto(p, "secrets")
    /\ UNCHANGED <<files, keyed, dbFile, rows, source, held, history>>

\* store.SetVaultMeta with the legacy master, or NULL for one that is not there, and
\* with the legacy enc_id, or a new one.
MigrateMeta(p) ==
    /\ pc[p] = "meta" /\ (LegacyEncId \/ made < MaxMasters)
    /\ master' = IF keyed[source[p]] THEN 0 ELSE None
    /\ encId' = IF LegacyEncId THEN 0 ELSE made + 1
    /\ made' = IF LegacyEncId THEN made ELSE made + 1
    /\ todo' = [todo EXCEPT ![p] = Secrets(source[p])]
    /\ Goto(p, "secrets")
    /\ UNCHANGED <<files, keyed, dbFile, rows, source, held, history>>

MigrateSecret(p, k) ==
    /\ pc[p] = "secrets" /\ k \in todo[p]
    /\ rows' = [rows EXCEPT ![k] = 0]
    /\ todo' = [todo EXCEPT ![p] = @ \ {k}]
    /\ UNCHANGED <<files, keyed, dbFile, master, encId, pc, source, held, made, history>>

\* Mutant of RenameSource: the legacy file is moved before its secrets are in.
RenameEarly(p) ==
    /\ pc[p] \in {"meta", "secrets"} /\ files[source[p]] = "good"
    /\ files' = [files EXCEPT ![source[p]] = "bak"]
    /\ UNCHANGED <<keyed, database, process, made, history>>

\* The legacy file becomes .bak, and vault.db is opened for the caller.
RenameSource(p) ==
    /\ pc[p] = "secrets" /\ todo[p] = {} /\ files[source[p]] = "good"
    /\ files' = [files EXCEPT ![source[p]] = "bak"]
    /\ Goto(p, "create") /\ source' = [source EXCEPT ![p] = None]
    /\ UNCHANGED <<keyed, database, todo, held, made, history>>

-----------------------------------------------------------------------------
(* Using the vault                                                         *)

\* The enc_id is there: whatever writes a master writes one.
Unlock(p) ==
    /\ pc[p] = "open" /\ master # None
    /\ held' = [held EXCEPT ![p] = master] /\ Goto(p, "session")
    /\ UNCHANGED <<files, keyed, database, source, todo, made, history>>

\* config init finds no master, closes the vault and asks for one.
InitCheck(p) ==
    /\ pc[p] = "open" /\ master = None
    /\ Goto(p, "new")
    /\ UNCHANGED <<files, keyed, database, source, todo, held, made, history>>

\* CreateWithMaster does not look for a master again.
CreateWithMaster(p) ==
    /\ pc[p] = "new" /\ made < MaxMasters
    /\ master' = made + 1 /\ encId' = made + 1 /\ made' = made + 1
    /\ twice' = (twice \/ master # None)
    /\ held' = [held EXCEPT ![p] = made + 1] /\ Goto(p, "session")
    /\ UNCHANGED <<files, keyed, dbFile, rows, source, todo, raced, cutShort>>

SetDBPassword(p, k) ==
    /\ pc[p] = "session"
    /\ rows' = [rows EXCEPT ![k] = held[p]]
    /\ UNCHANGED <<files, keyed, dbFile, master, encId, process, made, history>>

\* A statement fails (a second vault_meta row, a file already renamed, anything
\* else), the program ends, or it dies.
Stop(p) ==
    /\ pc[p] # "closed"
    /\ Goto(p, "closed")
    /\ source' = [source EXCEPT ![p] = None] /\ todo' = [todo EXCEPT ![p] = {}]
    /\ held' = [held EXCEPT ![p] = None]
    /\ cutShort' = (cutShort \/ (source[p] # None /\ pc[p] # "create"))
    /\ UNCHANGED <<files, keyed, database, made, raced, twice>>

OpenStep(p) ==
    \/ Open(p) \/ MigrateIfNeeded(p) \/ CreateFile(p) \/ ReadRow(p) \/ InsertRow(p)
    \/ MigrateMeta(p) \/ (\E k \in LegacyKeys : MigrateSecret(p, k)) \/ RenameSource(p)

Next ==
    \E p \in Procs :
        \/ OpenStep(p)
        \/ Unlock(p) \/ InitCheck(p) \/ CreateWithMaster(p)
        \/ \E k \in Keys : SetDBPassword(p, k)
        \/ Stop(p)

Spec == Init /\ [][Next]_vars

-----------------------------------------------------------------------------
(* Properties                                                              *)

\* In every state, all of them well typed: a legacy file is out of the way only when
\* the vault has an enc_id, a master if that file had one, and a password for each key
\* it held, whatever failed or died on the way and whoever else was opening.
BackupMeansMigrated ==
    /\ TypeOK
    /\ \A s \in Sources : files[s] = "bak" =>
           /\ encId # None
           /\ keyed[s] => master # None
           /\ \A k \in Secrets(s) : rows[k] # None

\* Every ciphertext opens with the vault's master, but for two processes that
\* opened a new vault at the same moment or created a master over another's.
RowsMatchMaster ==
    \A k \in Keys : rows[k] \in {None, master} \/ raced \/ twice

\* But in those races, the migration never replaces or unsets what was created or
\* saved after it, and nothing replaces an enc_id (which encrypted dumps are named by)
\* but the first master of a vault that was migrated without one.
MigrationKeepsNewer ==
    [][raced \/ /\ \A k \in Keys : rows[k] \notin {None, 0} => rows'[k] # 0
                /\ master \notin {None, 0} => master' \notin {None, 0}
                /\ encId # None /\ encId' # encId =>
                       twice' \/ (master = None /\ \E p \in Procs : CreateWithMaster(p))]_vars

\* A legacy file that could be read stays beside a vault no process is migrating
\* it into only if a migration was cut short, two processes raced, or another
\* legacy file was preferred to it.
LeftBehindExplained ==
    \A s \in Sources :
        files[s] = "good" /\ dbFile # "none" /\ (\A p \in Procs : source[p] = None) =>
            \/ cutShort \/ raced
            \/ s = "json" /\ files["binary"] = "bak"

==============================================================================
