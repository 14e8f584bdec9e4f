-------------------------------- MODULE Dumps --------------------------------
(***************************************************************************)
(* The dump files of one interactive dumpmgr: taking a dump, encrypting it *)
(* (src/internal/dumps), recording it in the registry, restoring from it,  *)
(* and what a change of the master password does to the encrypted ones     *)
(* (src/internal/app).                                                     *)
(*                                                                         *)
(* Abstractions.  A dump is known by its item and second; it may be on     *)
(* disk as <name>.dump and as <name>_enc_<encId>.dump.  The n-th AES key   *)
(* of the vault is the number n (module Vault): a complete encrypted file  *)
(* is the key it opens with.  os.WriteFile truncates first, so a file      *)
(* being written is Torn.  The registry has paths only, its checksums are  *)
(* left out.  Foreign dumps are encrypted files whose names carry another  *)
(* vault's id, or none (the older ".enc" names).                           *)
(***************************************************************************)
EXTENDS Naturals, FiniteSets

CONSTANTS
    Dumps,      \* every dump there is or will be
    Foreign,    \* those among them that belong to another vault
    None,       \* no file, no registry row, no session
    Torn,       \* a partly written file
    Whole,      \* a complete plain dump
    MaxKey      \* bound: changes of master stop at this key

Own == Dumps \ Foreign
ForeignKey == 0

ASSUME DumpsAssumption ==
    /\ Foreign \subseteq Dumps /\ None \notin Dumps
    /\ None # Torn /\ None # Whole /\ Torn # Whole
    /\ {None, Torn, Whole} \cap Nat = {}
    /\ MaxKey \in Nat

VARIABLES
    plainFile,      \* <name>.dump of each dump
    encFile,        \* <name>_enc_<encId>.dump of each dump
    registry,       \* files with a dump_files row, whatever the checksum in it
    vaultKey,       \* the AES key the vault stands for now
    session,        \* the key of the running program's session, None without one
    encryptedDump,  \* the running program's config flag
    pc,             \* where the running program is
    cur,            \* the dump it works on
    temp,           \* the dump whose decrypted copy is on disk for a restore
    leftover,       \* dumps a decrypted copy of which a restore left on disk
    sync,           \* whether the dump is the first half of a dump-and-restore
    oldKey,         \* key the dumps are being moved from
    todo,           \* encrypted dumps still to re-encrypt or delete
    begun,          \* history: dumps pg_dump was started for
    dumped,         \* history: dumps pg_dump completed
    encrypted,      \* history: dumps begun with encryptedDump set
    deleted,        \* history: dumps deleted on the user's word
    stranded,       \* history: dumps a change of master left under an older key: it
                    \* stopped, or a walk passed over a directory it could not read
    damaged,        \* history: dumps torn by a rewrite that was cut short
    exposed         \* history: dumps left in plain by an operation that failed

disk == <<plainFile, encFile, leftover>>
program == <<session, encryptedDump, pc, cur, temp, sync, oldKey, todo>>
history == <<begun, dumped, encrypted, deleted, stranded, damaged, exposed>>
vars == <<disk, registry, vaultKey, program, history>>

ChangePhases == {"choose", "delete", "reencrypt", "rewrite"}
DumpPhases == {"pg_dump", "sync_restore", "encrypt", "enc_write", "remove", "record"}

TypeOK ==
    /\ plainFile \in [Dumps -> {None, Torn, Whole}]
    /\ encFile \in [Dumps -> Nat \cup {None, Torn}]
    /\ registry \in SUBSET (Dumps \X {"plain", "encrypted"})
    /\ vaultKey \in Nat /\ oldKey \in Nat
    /\ session \in Nat \cup {None}
    /\ encryptedDump \in BOOLEAN /\ sync \in BOOLEAN
    /\ pc \in {"off", "menu", "restore"} \cup DumpPhases \cup ChangePhases
    /\ cur \in Dumps \cup {None}
    /\ temp \in Dumps \cup {None}
    /\ todo \in SUBSET Dumps /\ leftover \in SUBSET Dumps
    /\ \A h \in {begun, dumped, encrypted, deleted, stranded, damaged, exposed} :
           h \in SUBSET Dumps

Init ==
    /\ plainFile = [d \in Dumps |-> None]
    /\ encFile = [d \in Dumps |-> IF d \in Foreign THEN ForeignKey ELSE None]
    /\ registry = {}
    /\ vaultKey = 1 /\ oldKey = 0
    /\ session = None /\ encryptedDump = FALSE /\ pc = "off"
    /\ cur = None /\ temp = None /\ sync = FALSE /\ todo = {}
    /\ begun = {} /\ dumped = {} /\ encrypted = {} /\ deleted = {}
    /\ stranded = {} /\ damaged = {} /\ exposed = {} /\ leftover = {}

\* Encrypted dumps of this vault that a key does not open.
Unreadable(files, key) == {d \in Own : files[d] \in Nat /\ files[d] # key}

\* The operation returns to the menu.
Return ==
    /\ pc' = "menu" /\ cur' = None /\ temp' = None /\ todo' = {}
    /\ UNCHANGED <<encryptedDump, sync, oldKey>>

-----------------------------------------------------------------------------
(* The program                                                             *)

\* Load the config and unlock; encrypted dumps always need the master.
Start(e) ==
    /\ pc = "off"
    /\ pc' = "menu"
    /\ encryptedDump' = e
    /\ session' \in (IF e THEN {vaultKey} ELSE {vaultKey, None})
    /\ UNCHANGED <<disk, registry, vaultKey, cur, temp, sync, oldKey, todo, history>>

Exit ==
    /\ pc = "menu"
    /\ pc' = "off" /\ session' = None
    /\ UNCHANGED <<disk, registry, vaultKey, encryptedDump, cur, temp, sync, oldKey,
                   todo, history>>

-----------------------------------------------------------------------------
(* Take a dump, or dump and restore                                        *)

StartDump(d, s) ==
    /\ pc = "menu"
    /\ d \in Own \ begun
    /\ pc' = "pg_dump" /\ cur' = d /\ sync' = s
    /\ plainFile' = [plainFile EXCEPT ![d] = Torn]
    /\ begun' = begun \cup {d}
    /\ encrypted' = IF encryptedDump THEN encrypted \cup {d} ELSE encrypted
    /\ UNCHANGED <<encFile, leftover, registry, vaultKey, session, encryptedDump, temp,
                   oldKey, todo, dumped, deleted, stranded, damaged, exposed>>

PgDumpOk ==
    /\ pc = "pg_dump"
    /\ plainFile' = [plainFile EXCEPT ![cur] = Whole]
    /\ dumped' = dumped \cup {cur}
    /\ pc' = IF sync THEN "sync_restore" ELSE "encrypt"
    /\ UNCHANGED <<encFile, leftover, registry, vaultKey, session, encryptedDump, cur,
                   temp, sync, oldKey, todo, begun, encrypted, deleted, stranded,
                   damaged, exposed>>

\* pg_dump fails and leaves what it had written, or nothing.
PgDumpFails ==
    /\ pc = "pg_dump"
    /\ \E f \in {None, Torn} : plainFile' = [plainFile EXCEPT ![cur] = f]
    /\ Return
    /\ UNCHANGED <<encFile, leftover, registry, vaultKey, session, history>>

SyncRestoreOk ==
    /\ pc = "sync_restore"
    /\ pc' = "encrypt"
    /\ UNCHANGED <<disk, registry, vaultKey, session, encryptedDump, cur, temp, sync,
                   oldKey, todo, history>>

SyncRestoreFails ==
    /\ pc = "sync_restore"
    /\ exposed' = exposed \cup {cur}
    /\ Return
    /\ UNCHANGED <<disk, registry, vaultKey, session, begun, dumped, encrypted,
                   deleted, stranded, damaged>>

KeepPlain ==
    /\ pc = "encrypt" /\ ~encryptedDump
    /\ pc' = "record"
    /\ UNCHANGED <<disk, registry, vaultKey, session, encryptedDump, cur, temp, sync,
                   oldKey, todo, history>>

\* "AES key required for encrypted dumps": the dump is already on disk.
NoKey ==
    /\ pc = "encrypt" /\ encryptedDump /\ session = None
    /\ exposed' = exposed \cup {cur}
    /\ Return
    /\ UNCHANGED <<disk, registry, vaultKey, session, begun, dumped, encrypted,
                   deleted, stranded, damaged>>

\* Mutant of EncryptBegins: the plain file goes first.
EncryptRemovesFirst ==
    /\ pc = "encrypt" /\ encryptedDump /\ session # None
    /\ pc' = "enc_write"
    /\ encFile' = [encFile EXCEPT ![cur] = Torn]
    /\ plainFile' = [plainFile EXCEPT ![cur] = None]
    /\ UNCHANGED <<leftover, registry, vaultKey, session, encryptedDump, cur, temp, sync,
                   oldKey, todo, history>>

\* dumps.EncryptDumpFile: the encrypted file is complete before the plain goes.
EncryptBegins ==
    /\ pc = "encrypt" /\ encryptedDump /\ session # None
    /\ pc' = "enc_write"
    /\ encFile' = [encFile EXCEPT ![cur] = Torn]
    /\ UNCHANGED <<plainFile, leftover, registry, vaultKey, session, encryptedDump,
                   cur, temp, sync, oldKey, todo, history>>

EncryptWritten ==
    /\ pc = "enc_write"
    /\ pc' = "remove"
    /\ encFile' = [encFile EXCEPT ![cur] = session]
    /\ UNCHANGED <<plainFile, leftover, registry, vaultKey, session, encryptedDump,
                   cur, temp, sync, oldKey, todo, history>>

\* Reading the plain file or writing the encrypted one fails.
EncryptFails ==
    /\ \/ pc = "encrypt" /\ encryptedDump /\ session # None
       \/ pc = "enc_write"
    /\ exposed' = exposed \cup {cur}
    /\ Return
    /\ UNCHANGED <<disk, registry, vaultKey, session, begun, dumped, encrypted,
                   deleted, stranded, damaged>>

\* Mutant of RemovePlain: the plain file is not removed.
KeepPlainBeside ==
    /\ pc = "remove"
    /\ pc' = "record"
    /\ UNCHANGED <<disk, registry, vaultKey, session, encryptedDump, cur, temp, sync,
                   oldKey, todo, history>>

RemovePlain ==
    /\ pc = "remove"
    /\ pc' = "record"
    /\ plainFile' = [plainFile EXCEPT ![cur] = None]
    /\ UNCHANGED <<encFile, leftover, registry, vaultKey, session, encryptedDump, cur,
                   temp, sync, oldKey, todo, history>>

\* The error of os.Remove is ignored.
RemoveFails ==
    /\ pc = "remove"
    /\ pc' = "record"
    /\ exposed' = exposed \cup {cur}
    /\ UNCHANGED <<disk, registry, vaultKey, session, encryptedDump, cur, temp, sync,
                   oldKey, todo, begun, dumped, encrypted, deleted, stranded, damaged>>

\* recordDump: nothing without a session.
RecordDump ==
    /\ pc = "record"
    /\ registry' = IF session = None THEN registry
                   ELSE registry \cup {<<cur, IF encryptedDump THEN "encrypted" ELSE "plain">>}
    /\ Return
    /\ UNCHANGED <<disk, vaultKey, session, history>>

RecordFails ==
    /\ pc = "record" /\ session # None
    /\ Return
    /\ UNCHANGED <<disk, registry, vaultKey, session, history>>

\* dump-registry scan, in a process of its own, one file after the other.
ScanFile(d) ==
    /\ \E kind \in {"plain", "encrypted"} :
           /\ (IF kind = "plain" THEN plainFile[d] ELSE encFile[d]) # None
           /\ registry' = registry \cup {<<d, kind>>}
    /\ UNCHANGED <<disk, vaultKey, program, history>>

-----------------------------------------------------------------------------
(* Restore from a dump                                                     *)

RestorePlain(d) ==
    /\ pc = "menu" /\ plainFile[d] # None
    /\ pc' = "restore" /\ cur' = d
    /\ UNCHANGED <<disk, registry, vaultKey, session, encryptedDump, temp, sync,
                   oldKey, todo, history>>

\* Decrypt to a temporary file beside the dump; any other key is an error.
RestoreEncrypted(d) ==
    /\ pc = "menu" /\ encFile[d] # None
    /\ session # None /\ encFile[d] = session
    /\ pc' = "restore" /\ cur' = d /\ temp' = d
    /\ UNCHANGED <<disk, registry, vaultKey, session, encryptedDump, sync, oldKey,
                   todo, history>>

\* The temporary file is partly written; its removal is not yet deferred.
DecryptWriteFails(d) ==
    /\ pc = "menu" /\ encFile[d] # None
    /\ session # None /\ encFile[d] = session
    /\ leftover' = leftover \cup {d}
    /\ exposed' = exposed \cup {d}
    /\ UNCHANGED <<plainFile, encFile, registry, vaultKey, program, begun, dumped,
                   encrypted, deleted, stranded, damaged>>

\* pg_restore succeeded or failed: the temporary file goes either way.
RestoreEnds ==
    /\ pc = "restore"
    /\ Return
    /\ UNCHANGED <<disk, registry, vaultKey, session, history>>

\* The deferred os.Remove fails and its error is dropped: the next restore writes
\* under a name of its own, so nothing removes this copy later.
CopyStays ==
    /\ pc = "restore" /\ temp # None
    /\ leftover' = leftover \cup {temp}
    /\ exposed' = exposed \cup {temp}
    /\ Return
    /\ UNCHANGED <<plainFile, encFile, registry, vaultKey, session, begun, dumped,
                   encrypted, deleted, stranded, damaged>>

-----------------------------------------------------------------------------
(* Change the master password                                              *)

\* Mutant of DropSession: RunMain keeps the session it had.
KeepSession ==
    /\ UNCHANGED session
    /\ Return

\* Any error of handleChangeMaster: RunMain goes on with the nil session.
DropSession ==
    /\ session' = None
    /\ Return

\* The new password was typed differently the second time.
Mismatch ==
    /\ pc = "menu" /\ session # None
    /\ DropSession
    /\ UNCHANGED <<disk, registry, vaultKey, history>>

\* vault.ChangeMasterPassword (module Vault) fails before or after publishing.
ChangeVaultFails ==
    /\ pc = "menu" /\ session # None /\ vaultKey < MaxKey
    /\ vaultKey' \in {vaultKey, vaultKey + 1}
    /\ stranded' = stranded \cup Unreadable(encFile, vaultKey')
    /\ DropSession
    /\ UNCHANGED <<disk, registry, begun, dumped, encrypted, deleted, damaged, exposed>>

\* Mutant of EncryptedNames: every encrypted name, whatever its id.
AllEncryptedNames == {d \in Dumps : encFile[d] # None}

\* What the walks look for, by the name alone.  A walk passes over a directory that
\* os.ReadDir cannot read as if it were empty, and each dump may be in one of its own.
EncryptedNames == {d \in Own : encFile[d] # None}

\* Mutant of ChangeVault: dumps are looked for only when the flag is on.
ChangeVaultByFlag ==
    /\ pc = "menu" /\ session # None /\ vaultKey < MaxKey
    /\ vaultKey' = vaultKey + 1
    /\ \/ /\ session' = vaultKey' /\ ~encryptedDump
          /\ UNCHANGED <<pc, oldKey, todo, stranded>>
       \/ /\ EncryptedNames # {} /\ encryptedDump
          /\ pc' = "choose" /\ oldKey' = session /\ todo' = EncryptedNames
          /\ UNCHANGED <<session, stranded>>
    /\ UNCHANGED <<disk, registry, encryptedDump, cur, temp, sync, begun, dumped, encrypted,
                   deleted, damaged, exposed>>

\* HasEncryptedDumpsWithEncID finds one and the user is asked what to do, or there
\* is none, or none in a directory it can read, and the change is over.
ChangeVault ==
    /\ pc = "menu" /\ session # None /\ vaultKey < MaxKey
    /\ vaultKey' = vaultKey + 1
    /\ \/ /\ EncryptedNames # {}
          /\ pc' = "choose" /\ oldKey' = session /\ todo' = EncryptedNames
          /\ UNCHANGED <<session, stranded>>
       \/ /\ session' = vaultKey'
          /\ stranded' = stranded \cup Unreadable(encFile, vaultKey')
          /\ UNCHANGED <<pc, oldKey, todo>>
    /\ UNCHANGED <<disk, registry, encryptedDump, cur, temp, sync, begun, dumped, encrypted,
                   deleted, damaged, exposed>>

\* Cancelling the choice exits the program (prompt.OnCancel).
CancelChoice ==
    /\ pc = "choose"
    /\ pc' = "off" /\ session' = None /\ todo' = {}
    /\ stranded' = stranded \cup Unreadable(encFile, vaultKey)
    /\ UNCHANGED <<disk, registry, vaultKey, encryptedDump, cur, temp, sync, oldKey,
                   begun, dumped, encrypted, deleted, damaged, exposed>>

Choose(phase) ==
    /\ pc = "choose"
    /\ pc' = phase
    /\ UNCHANGED <<disk, registry, vaultKey, session, encryptedDump, cur, temp, sync,
                   oldKey, todo, history>>

DeleteOne(d) ==
    /\ pc = "delete" /\ d \in todo
    /\ encFile' = [encFile EXCEPT ![d] = None]
    /\ todo' = todo \ {d}
    /\ deleted' = deleted \cup {d}
    /\ UNCHANGED <<plainFile, leftover, registry, vaultKey, session, encryptedDump, pc,
                   cur, temp, sync, oldKey, begun, dumped, encrypted, stranded,
                   damaged, exposed>>

\* The walk does not see d: its directory cannot be read, and the change goes on.
PassOver(d) ==
    /\ pc \in {"delete", "reencrypt"} /\ d \in todo
    /\ todo' = todo \ {d}
    /\ stranded' = stranded \cup ({d} \cap Unreadable(encFile, vaultKey))
    /\ UNCHANGED <<disk, registry, vaultKey, session, encryptedDump, pc, cur, temp,
                   sync, oldKey, begun, dumped, encrypted, deleted, damaged, exposed>>

\* ReencryptAllDumps works in place: WriteFile truncates the only copy.
RewriteBegins(d) ==
    /\ pc = "reencrypt" /\ d \in todo
    /\ encFile[d] = oldKey
    /\ pc' = "rewrite" /\ cur' = d
    /\ encFile' = [encFile EXCEPT ![d] = Torn]
    /\ UNCHANGED <<plainFile, leftover, registry, vaultKey, session, encryptedDump,
                   temp, sync, oldKey, todo, history>>

\* Mutant of RewriteDone: encrypted with the old key again.
RewriteUnderOldKey ==
    /\ pc = "rewrite"
    /\ pc' = "reencrypt" /\ cur' = None
    /\ encFile' = [encFile EXCEPT ![cur] = oldKey]
    /\ todo' = todo \ {cur}
    /\ UNCHANGED <<plainFile, leftover, registry, vaultKey, session, encryptedDump,
                   temp, sync, oldKey, history>>

RewriteDone ==
    /\ pc = "rewrite"
    /\ pc' = "reencrypt" /\ cur' = None
    /\ encFile' = [encFile EXCEPT ![cur] = vaultKey]
    /\ todo' = todo \ {cur}
    /\ UNCHANGED <<plainFile, leftover, registry, vaultKey, session, encryptedDump,
                   temp, sync, oldKey, history>>

\* One dump the old key does not open stops the loop.
RewriteRefused(d) ==
    /\ pc = "reencrypt" /\ d \in todo
    /\ encFile[d] # oldKey
    /\ stranded' = stranded \cup Unreadable(encFile, vaultKey)
    /\ DropSession
    /\ UNCHANGED <<disk, registry, vaultKey, begun, dumped, encrypted, deleted,
                   damaged, exposed>>

\* A file cannot be read, written or removed.
DumpsStepFails ==
    /\ pc \in {"delete", "reencrypt", "rewrite"}
    /\ stranded' = stranded \cup Unreadable(encFile, vaultKey)
    /\ damaged' = IF pc = "rewrite" THEN damaged \cup {cur} ELSE damaged
    /\ DropSession
    /\ UNCHANGED <<disk, registry, vaultKey, begun, dumped, encrypted, deleted, exposed>>

ChangeDone ==
    /\ pc \in {"delete", "reencrypt"} /\ todo = {}
    /\ session' = vaultKey
    /\ Return
    /\ UNCHANGED <<disk, registry, vaultKey, history>>

\* dumpmgr config init, "Change master password": the vault only.  It is run
\* between two runs of the program; Vault and Autonomous let it run beside one.
InitChangeMaster ==
    /\ pc = "off" /\ vaultKey < MaxKey
    /\ vaultKey' = vaultKey + 1
    /\ stranded' = stranded \cup Unreadable(encFile, vaultKey')
    /\ UNCHANGED <<disk, registry, program, begun, dumped, encrypted, deleted, damaged,
                   exposed>>

-----------------------------------------------------------------------------
\* A decrypted copy stays beside the dump.
Crash ==
    /\ pc # "off"
    /\ pc' = "off" /\ session' = None /\ cur' = None /\ temp' = None /\ todo' = {}
    /\ stranded' = stranded \cup Unreadable(encFile, vaultKey)
    /\ damaged' = IF pc = "rewrite" THEN damaged \cup {cur} ELSE damaged
    /\ exposed' = IF cur # None THEN exposed \cup {cur} ELSE exposed
    /\ leftover' = IF temp # None THEN leftover \cup {temp} ELSE leftover
    /\ UNCHANGED <<plainFile, encFile, registry, vaultKey, encryptedDump, sync, oldKey,
                   begun, dumped, encrypted, deleted>>

\* Steps in which nothing fails but the user's typing.
CleanStep ==
    \/ \E b \in BOOLEAN : Start(b) \/ (\E d \in Dumps : StartDump(d, b))
    \/ Exit \/ PgDumpOk \/ SyncRestoreOk \/ KeepPlain \/ NoKey
    \/ EncryptBegins \/ EncryptWritten \/ RemovePlain \/ RecordDump
    \/ RestoreEnds \/ Mismatch \/ ChangeVault
    \/ \E phase \in {"delete", "reencrypt"} : Choose(phase)
    \/ RewriteDone \/ ChangeDone
    \/ \E d \in Dumps : \/ ScanFile(d) \/ RestorePlain(d) \/ RestoreEncrypted(d)
                        \/ DeleteOne(d) \/ RewriteBegins(d) \/ RewriteRefused(d)

FailedStep ==
    \/ PgDumpFails \/ SyncRestoreFails \/ EncryptFails \/ RemoveFails \/ RecordFails
    \/ CopyStays \/ ChangeVaultFails \/ CancelChoice \/ DumpsStepFails \/ Crash
    \/ \E d \in Dumps : DecryptWriteFails(d) \/ PassOver(d)

Next == CleanStep \/ FailedStep \/ InitChangeMaster
Spec == Init /\ [][Next]_vars

-----------------------------------------------------------------------------
(* Properties                                                              *)

\* In every state, all of them well typed: a dump that pg_dump completed stays
\* complete on disk, in plain or encrypted, through encryption, failures and
\* crashes, until the user has it deleted; the one moment it can be lost is while
\* a change of master rewrites it in place.
DumpKept ==
    /\ TypeOK
    /\ \A d \in dumped \ deleted :
           \/ plainFile[d] = Whole
           \/ encFile[d] \in Nat
           \/ pc = "rewrite" /\ cur = d
           \/ d \in damaged

\* Every complete encrypted dump of this vault opens with the vault's current
\* key, or a running change of master holds the key to move it from, or a change
\* left it: one refused, failed, cancelled or made by config init, or one whose
\* walk could not read the dump's directory, which goes well all the same.
EncryptedUnderCurrentKey ==
    \A d \in Own : encFile[d] \in Nat =>
        \/ encFile[d] = vaultKey
        \/ pc \in ChangePhases /\ d \in todo
        \/ d \in stranded

\* A dump taken with encryptedDump set is in plain on disk only while the
\* program works on it or where a step that failed left it, a removal among them
\* whose error is dropped: else an operation that ends leaves neither the plain
\* dump nor a decrypted copy, and a change of master makes none.
PlaintextConfined ==
    \A d \in encrypted :
        plainFile[d] = Whole \/ temp = d \/ d \in leftover => cur = d \/ d \in exposed

\* Outside a change of master the program's session is the vault's own key: no
\* error path of the change lets it go on with the key that was replaced.
SessionNeverStale == session # None /\ pc \notin ChangePhases => session = vaultKey

\* No change of master touches an encrypted dump of another vault.
ForeignUntouched == [][\A d \in Foreign : encFile'[d] = encFile[d]]_vars

\* What of DumpStore a dump of this vault is.  It can be restored when it is whole
\* in plain, or opens with the vault's key, or the running change of master has
\* the key to move it from, or is moving it.
Restorable(d) ==
    \/ plainFile[d] = Whole
    \/ encFile[d] = vaultKey
    \/ pc \in ChangePhases /\ d \in todo /\ encFile[d] = oldKey
    \/ pc = "rewrite" /\ cur = d

Status ==
    [d \in Own |-> IF Restorable(d) THEN "kept"
                   ELSE IF d \in deleted THEN "removed"
                   ELSE IF d \in stranded \cup damaged THEN "lost"
                   ELSE "none"]

Store == INSTANCE DumpStore WITH Dumps <- Own, status <- Status

\* Every step is one of DumpStore or invisible to it: encrypting, recording,
\* restoring and every step of a change of master that goes well change no dump's
\* status, and only a change that stops, one by config init, and a walk that cannot
\* read a dump's directory lose any.
ImplementsDumpStore == Store!Spec

==============================================================================
