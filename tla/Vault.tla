-------------------------------- MODULE Vault --------------------------------
(***************************************************************************)
(* The SQLite vault (src/internal/vault) and the sessions that work on it. *)
(*                                                                         *)
(* Several dumpmgr processes (the interactive program, the autonomous      *)
(* daemon, one-shot commands) open the same vault.db.  A process holds a   *)
(* session: the AES key derived from the master password and the salt that *)
(* was in vault_meta when it unlocked.  Every SQL statement or transaction *)
(* is one atomic step; ChangeMasterPassword is a sequence of them.         *)
(*                                                                         *)
(* Abstractions.  Each SetVaultMeta draws a fresh random salt and stores   *)
(* it together with the hash of the password it was drawn for, in one      *)
(* statement, so the n-th salt stands for both and the AES key derived     *)
(* from them is the number n (0: no master yet).  AES-GCM is exact: a      *)
(* ciphertext [key, plain] opens with its own key and with no other.  A    *)
(* wrong password leaves everything as it was.  Timestamps are left out.   *)
(***************************************************************************)
EXTENDS Naturals, FiniteSets

CONSTANTS
    Procs,        \* dumpmgr processes on one vault.db
    Keys,         \* keys of the secrets table (postgres:<item>)
    Passwords,    \* database passwords and S3 secrets
    None,         \* an absent row, column or session
    Lost,         \* SecretMap's value of a password nobody can read back
    MaxSalt,      \* bound: no change of master starts once this many salts exist
    MaxFailures   \* bound: how many operations may be cut short

Cipher == [key : Nat, plain : Passwords]

ASSUME VaultAssumption ==
    /\ None \notin Passwords
    /\ None \notin Cipher
    /\ None \notin Nat
    /\ Lost \notin Passwords
    /\ Lost # None
    /\ MaxSalt \in Nat
    /\ MaxFailures \in Nat

VARIABLES
    salt,          \* vault_meta: number of the current (master hash, salt) pair
    encId,         \* vault_meta.enc_id, 0 while empty
    s3Secret,      \* vault_meta.s3_secret_key
    secrets,       \* the secrets table
    lastRotation,  \* action of the newest secret_rotations row of each key
    session,       \* each process's AES key, None without a session
    phase,         \* where each process is in config init or in a change of master
    todo,          \* keys the change has still to read, then to write back
    plain,         \* the change's map of decrypted passwords
    newKey,        \* the AES key the change is moving to
    metaCopy,      \* enc_id and S3 ciphertext as the change read them
    orphaned,      \* history: keys a change failed to read or was too short to write
    everSaved,     \* history: the passwords ever saved under each key
    failures       \* history: operations cut short

meta == <<salt, encId, s3Secret>>
tables == <<secrets, lastRotation>>
locals == <<todo, plain, newKey, metaCopy>>
history == <<orphaned, everSaved, failures>>
vars == <<meta, tables, session, phase, locals, history>>

Phases == {"idle", "create", "read", "publish", "write"}
Rotations == {"none", "created", "updated", "wiped", "master_reencrypt"}
NoPlain == [k \in Keys |-> None]
NoCopy == [enc |-> 0, s3 |-> None]

TypeOK ==
    /\ salt \in Nat
    /\ encId \in Nat
    /\ s3Secret \in Cipher \cup {None}
    /\ secrets \in [Keys -> Cipher \cup {None}]
    /\ lastRotation \in [Keys -> Rotations]
    /\ session \in [Procs -> Nat \cup {None}]
    /\ phase \in [Procs -> Phases]
    /\ todo \in [Procs -> SUBSET Keys]
    /\ plain \in [Procs -> [Keys -> Passwords \cup {None}]]
    /\ newKey \in [Procs -> Nat]
    /\ metaCopy \in [Procs -> [enc : Nat, s3 : Cipher \cup {None}]]
    /\ orphaned \in SUBSET Keys
    /\ everSaved \in [Keys -> SUBSET Passwords]
    /\ failures \in Nat

\* vault.Open made the row of vault_meta with nothing in it.
Init ==
    /\ salt = 0 /\ encId = 0 /\ s3Secret = None
    /\ secrets = [k \in Keys |-> None]
    /\ lastRotation = [k \in Keys |-> "none"]
    /\ session = [p \in Procs |-> None]
    /\ phase = [p \in Procs |-> "idle"]
    /\ todo = [p \in Procs |-> {}]
    /\ plain = [p \in Procs |-> NoPlain]
    /\ newKey = [p \in Procs |-> 0]
    /\ metaCopy = [p \in Procs |-> NoCopy]
    /\ orphaned = {} /\ everSaved = [k \in Keys |-> {}] /\ failures = 0

Encrypt(key, v) == [key |-> key, plain |-> v]
CanDecrypt(key, c) == c.key = key

Idle(p) == phase[p] = "idle"
Working(p) == Idle(p) /\ session[p] # None

-----------------------------------------------------------------------------
(* Creating and unlocking                                                  *)

\* config init looks for a master, and prompts for one when there is none.
InitCheck(p) ==
    /\ Idle(p) /\ session[p] = None
    /\ salt = 0
    /\ phase' = [phase EXCEPT ![p] = "create"]
    /\ UNCHANGED <<meta, tables, session, locals, history>>

\* vault.CreateWithMaster: whatever vault_meta holds by now is overwritten.
CreateWithMaster(p) ==
    /\ phase[p] = "create"
    /\ salt' = salt + 1
    /\ encId' = salt + 1
    /\ s3Secret' = None
    /\ session' = [session EXCEPT ![p] = salt + 1]
    /\ phase' = [phase EXCEPT ![p] = "idle"]
    /\ UNCHANGED <<tables, locals, history>>

\* vault.Unlock with the right password; an empty enc_id is filled in.  Its
\* statements are one step: only the salt it read matters to what follows.
Unlock(p) ==
    /\ Idle(p) /\ session[p] = None
    /\ salt # 0
    /\ encId' = IF encId = 0 THEN salt ELSE encId
    /\ session' = [session EXCEPT ![p] = salt]
    /\ UNCHANGED <<salt, s3Secret, tables, phase, locals, history>>

Close(p) ==
    /\ Working(p)
    /\ session' = [session EXCEPT ![p] = None]
    /\ UNCHANGED <<meta, tables, phase, locals, history>>

-----------------------------------------------------------------------------
(* Secrets                                                                 *)

\* Store.UpsertSecret: the row and its rotation in one transaction.
UpsertSecret(k, c, rotation) ==
    /\ secrets' = [secrets EXCEPT ![k] = c]
    /\ lastRotation' = [lastRotation EXCEPT ![k] =
           IF rotation # "" THEN rotation
           ELSE IF secrets[k] = None THEN "created" ELSE "updated"]

SetDBPassword(p, k, v) ==
    /\ Working(p)
    /\ UpsertSecret(k, Encrypt(session[p], v), "")
    /\ everSaved' = [everSaved EXCEPT ![k] = @ \cup {v}]
    /\ orphaned' = orphaned \ {k}
    /\ UNCHANGED <<meta, session, phase, locals, failures>>

\* Mutant of DeleteDBPassword: the row goes without a rotation.
DeleteSilently(p, k) ==
    /\ Working(p)
    /\ secrets[k] # None
    /\ secrets' = [secrets EXCEPT ![k] = None]
    /\ orphaned' = orphaned \ {k}
    /\ UNCHANGED <<lastRotation, meta, session, phase, locals, everSaved, failures>>

\* Store.DeleteSecret: no row, no rotation.
DeleteDBPassword(p, k) ==
    /\ Working(p)
    /\ secrets[k] # None
    /\ secrets' = [secrets EXCEPT ![k] = None]
    /\ lastRotation' = [lastRotation EXCEPT ![k] = "wiped"]
    /\ orphaned' = orphaned \ {k}
    /\ UNCHANGED <<meta, session, phase, locals, everSaved, failures>>

SetS3SecretKey(p, v) ==
    /\ Working(p)
    /\ s3Secret' = Encrypt(session[p], v)
    /\ UNCHANGED <<salt, encId, tables, session, phase, locals, history>>

-----------------------------------------------------------------------------
(* vault.ChangeMasterPassword                                              *)

\* The change returns an error and its caller drops the session.
Abort(p) ==
    /\ session' = [session EXCEPT ![p] = None]
    /\ phase' = [phase EXCEPT ![p] = "idle"]
    /\ todo' = [todo EXCEPT ![p] = {}]
    /\ plain' = [plain EXCEPT ![p] = NoPlain]
    /\ newKey' = [newKey EXCEPT ![p] = 0]
    /\ metaCopy' = [metaCopy EXCEPT ![p] = NoCopy]

ListSecrets(p) ==
    /\ Working(p)
    /\ salt < MaxSalt
    /\ phase' = [phase EXCEPT ![p] = "read"]
    /\ todo' = [todo EXCEPT ![p] = {k \in Keys : secrets[k] # None}]
    /\ UNCHANGED <<meta, tables, session, plain, newKey, metaCopy, history>>

\* A row that has gone meanwhile is skipped.
SkipSecret(p, k) ==
    /\ phase[p] = "read" /\ k \in todo[p]
    /\ secrets[k] = None
    /\ todo' = [todo EXCEPT ![p] = @ \ {k}]
    /\ UNCHANGED <<meta, tables, session, phase, plain, newKey, metaCopy, history>>

\* A statement that fails to read the row skips the key as well.
MissSecret(p, k) ==
    /\ phase[p] = "read" /\ k \in todo[p]
    /\ secrets[k] # None
    /\ failures < MaxFailures
    /\ failures' = failures + 1
    /\ orphaned' = orphaned \cup {k}
    /\ todo' = [todo EXCEPT ![p] = @ \ {k}]
    /\ UNCHANGED <<meta, tables, session, phase, plain, newKey, metaCopy, everSaved>>

\* Mutant of ReadSecret: a row under another key is taken as it is.
ReadAnySecret(p, k) ==
    /\ phase[p] = "read" /\ k \in todo[p]
    /\ secrets[k] # None
    /\ todo' = [todo EXCEPT ![p] = @ \ {k}]
    /\ plain' = [plain EXCEPT ![p][k] = secrets[k].plain]
    /\ UNCHANGED <<meta, tables, session, phase, newKey, metaCopy, history>>

\* Mutant of ReadSecret: one variable for all the passwords of the map.
ReadSharedSecret(p, k) ==
    /\ phase[p] = "read" /\ k \in todo[p]
    /\ secrets[k] # None
    /\ CanDecrypt(session[p], secrets[k])
    /\ todo' = [todo EXCEPT ![p] = @ \ {k}]
    /\ plain' = [plain EXCEPT ![p] =
           [j \in Keys |-> IF j = k \/ @[j] # None THEN secrets[k].plain ELSE None]]
    /\ UNCHANGED <<meta, tables, session, phase, newKey, metaCopy, history>>

ReadSecret(p, k) ==
    /\ phase[p] = "read" /\ k \in todo[p]
    /\ secrets[k] # None
    /\ CanDecrypt(session[p], secrets[k])
    /\ todo' = [todo EXCEPT ![p] = @ \ {k}]
    /\ plain' = [plain EXCEPT ![p][k] = secrets[k].plain]
    /\ UNCHANGED <<meta, tables, session, phase, newKey, metaCopy, history>>

\* One row the session cannot decrypt gives the whole change up.
RefuseSecret(p, k) ==
    /\ phase[p] = "read" /\ k \in todo[p]
    /\ secrets[k] # None
    /\ ~CanDecrypt(session[p], secrets[k])
    /\ Abort(p)
    /\ UNCHANGED <<meta, tables, history>>

\* EncID and VaultMeta are read before the new metadata is put together.  The
\* two reads are one step: alone, nothing comes between them, and nothing that
\* is claimed of concurrent processes depends on enc_id.
ReadMeta(p) ==
    /\ phase[p] = "read" /\ todo[p] = {}
    /\ s3Secret # None => CanDecrypt(session[p], s3Secret)
    /\ phase' = [phase EXCEPT ![p] = "publish"]
    /\ metaCopy' = [metaCopy EXCEPT ![p] = [enc |-> encId, s3 |-> s3Secret]]
    /\ UNCHANGED <<meta, tables, session, todo, plain, newKey, history>>

RefuseMeta(p) ==
    /\ phase[p] = "read" /\ todo[p] = {}
    /\ s3Secret # None /\ ~CanDecrypt(session[p], s3Secret)
    /\ Abort(p)
    /\ UNCHANGED <<meta, tables, history>>

\* What every variant of PublishMeta does to the change's own state.
ToWritePhase(p, keys) ==
    /\ phase' = [phase EXCEPT ![p] = "write"]
    /\ newKey' = [newKey EXCEPT ![p] = salt + 1]
    /\ todo' = [todo EXCEPT ![p] = keys]
    /\ UNCHANGED <<tables, session, plain, metaCopy, history>>

\* Mutant of PublishMeta: the S3 secret stays under the old key.
PublishOldS3(p) ==
    /\ phase[p] = "publish"
    /\ salt' = salt + 1 /\ encId' = metaCopy[p].enc /\ s3Secret' = metaCopy[p].s3
    /\ ToWritePhase(p, {k \in Keys : plain[p][k] # None})

\* Mutant of PublishMeta: SetVaultMeta is moved behind the rows.
PublishLater(p) ==
    /\ phase[p] = "publish"
    /\ UNCHANGED meta
    /\ ToWritePhase(p, {k \in Keys : plain[p][k] # None})

\* Mutant of PublishMeta: the rows are not written back.
PublishOnly(p) ==
    /\ phase[p] = "publish"
    /\ salt' = salt + 1 /\ encId' = metaCopy[p].enc /\ s3Secret' = None
    /\ ToWritePhase(p, {})

\* SetVaultMeta: hash, salt, enc_id and the S3 secret change in one statement.
PublishMeta(p) ==
    /\ phase[p] = "publish"
    /\ salt' = salt + 1
    /\ newKey' = [newKey EXCEPT ![p] = salt + 1]
    /\ encId' = metaCopy[p].enc
    /\ s3Secret' = IF metaCopy[p].s3 = None THEN None
                   ELSE Encrypt(salt + 1, metaCopy[p].s3.plain)
    /\ phase' = [phase EXCEPT ![p] = "write"]
    /\ todo' = [todo EXCEPT ![p] = {k \in Keys : plain[p][k] # None}]
    /\ UNCHANGED <<tables, session, plain, metaCopy, history>>

\* Mutant of WriteSecret: the session's key instead of the new one.
WriteUnderOldKey(p, k) ==
    /\ phase[p] = "write" /\ k \in todo[p]
    /\ UpsertSecret(k, Encrypt(session[p], plain[p][k]), "master_reencrypt")
    /\ todo' = [todo EXCEPT ![p] = @ \ {k}]
    /\ UNCHANGED <<meta, session, phase, plain, newKey, metaCopy, history>>

\* The loop over the map, one transaction per key, in any order.
WriteSecret(p, k) ==
    /\ phase[p] = "write" /\ k \in todo[p]
    /\ UpsertSecret(k, Encrypt(newKey[p], plain[p][k]), "master_reencrypt")
    /\ todo' = [todo EXCEPT ![p] = @ \ {k}]
    /\ UNCHANGED <<meta, session, phase, plain, newKey, metaCopy, history>>

\* Mutant of FinishChange: the caller goes on with the old session.
FinishWithOldSession(p) ==
    /\ phase[p] = "write" /\ todo[p] = {}
    /\ phase' = [phase EXCEPT ![p] = "idle"]
    /\ plain' = [plain EXCEPT ![p] = NoPlain]
    /\ newKey' = [newKey EXCEPT ![p] = 0]
    /\ metaCopy' = [metaCopy EXCEPT ![p] = NoCopy]
    /\ UNCHANGED <<meta, tables, session, todo, history>>

FinishChange(p) ==
    /\ phase[p] = "write" /\ todo[p] = {}
    /\ session' = [session EXCEPT ![p] = newKey[p]]
    /\ phase' = [phase EXCEPT ![p] = "idle"]
    /\ plain' = [plain EXCEPT ![p] = NoPlain]
    /\ newKey' = [newKey EXCEPT ![p] = 0]
    /\ metaCopy' = [metaCopy EXCEPT ![p] = NoCopy]
    /\ UNCHANGED <<meta, tables, todo, history>>

\* The process dies between two statements, or any other statement returns an
\* error and the caller gives its session up; the change's memory is gone.
Fail(p) ==
    /\ ~Idle(p) \/ session[p] # None
    /\ failures < MaxFailures
    /\ failures' = failures + 1
    /\ orphaned' = IF phase[p] = "write" THEN orphaned \cup todo[p] ELSE orphaned
    /\ Abort(p)
    /\ UNCHANGED <<meta, tables, everSaved>>

-----------------------------------------------------------------------------
Step(p) ==
    \/ InitCheck(p) \/ CreateWithMaster(p) \/ Unlock(p) \/ Close(p)
    \/ \E k \in Keys :
          \/ \E v \in Passwords : SetDBPassword(p, k, v)
          \/ DeleteDBPassword(p, k)
          \/ SkipSecret(p, k) \/ ReadSecret(p, k) \/ RefuseSecret(p, k)
          \/ WriteSecret(p, k)
    \/ \E v \in Passwords : SetS3SecretKey(p, v)
    \/ ListSecrets(p) \/ ReadMeta(p) \/ RefuseMeta(p)
    \/ PublishMeta(p) \/ FinishChange(p)

Trouble(p) == Fail(p) \/ \E k \in Keys : MissSecret(p, k)

\* Every process at any time, every failure.
Next == \E p \in Procs : Step(p) \/ Trouble(p)
Spec == Init /\ [][Next]_vars

\* One process at a time has the vault open; things may still go wrong in it.
Alone(p) == \A q \in Procs \ {p} : session[q] = None /\ Idle(q)
SoloNext == \E p \in Procs : Alone(p) /\ (Step(p) \/ Trouble(p))
SoloSpec == Init /\ [][SoloNext]_vars
-----------------------------------------------------------------------------
(* Properties                                                              *)

\* The row's password is in the memory of a change that will write it back.
Pending(k) ==
    \E p \in Procs : /\ phase[p] = "write" /\ k \in todo[p]
                     /\ plain[p][k] = secrets[k].plain

\* Every saved database password opens with the current master key, or is
\* held by a change of master that is still writing, or was left behind by
\* one that failed to read it or was cut short while writing: no other moment
\* loses a password.
SecretsReadable ==
    \A k \in Keys : secrets[k] # None =>
        secrets[k].key = salt \/ Pending(k) \/ k \in orphaned

\* The S3 secret opens with the current master key at every moment, a change
\* of master and a failure in the middle of it included.
S3Readable == s3Secret # None => s3Secret.key = salt

\* Nothing on disk and no session is ever under a key whose salt vault_meta has
\* not held: SetVaultMeta comes before the first row under the new key.
NoUnpublishedKey ==
    /\ \A k \in Keys : secrets[k] # None => secrets[k].key \in 1..salt
    /\ s3Secret # None => s3Secret.key \in 1..salt
    /\ \A p \in Procs : session[p] # None => session[p] \in 1..salt

\* The newest rotation of a key tells whether its row exists: rows and the
\* history "secret history" prints never drift apart, whoever interleaves.
RotationTellsRow ==
    \A k \in Keys : secrets[k] = None <=> lastRotation[k] \in {"none", "wiped"}

\* A row only ever holds a password somebody saved under that very key, however
\* saves, wipes and re-encryptions of several processes interleave.
RowsHoldSavedPasswords ==
    \A k \in Keys : secrets[k] # None => secrets[k].plain \in everSaved[k]

\* No running change has the password of the key.
SkippedByAll(k) == \A p \in Procs : plain[p][k] = None

\* A change of master never goes ahead over a row it has read and cannot carry
\* over: such a row keeps the salt, unless its read failed and skipped it.
ChangeRefusesUnreadable ==
    [][salt' # salt =>
          \A k \in Keys : secrets[k] # None => secrets[k].key = salt \/ SkippedByAll(k)]_vars

\* The id that encrypted dumps carry in their names never changes once set,
\* whatever happens to the master password.
EncIdStable == [][encId # 0 => encId' = encId]_vars

\* "Rotate master + re-encrypt secrets" (the menu's words): outside a running
\* change no saved password is under a key that is no longer current.
ChangeKeepsSecrets ==
    \A k \in Keys : secrets[k] # None => secrets[k].key = salt \/ Pending(k)

(* The vault implements a plain map of passwords.  A row counts as its     *)
(* password while the current key or a running change can produce it, and  *)
(* as lost from the failure that may have lost it until it is saved again. *)
Stored == [k \in Keys |->
    IF secrets[k] = None THEN None
    ELSE IF k \notin orphaned /\ (secrets[k].key = salt \/ Pending(k)) THEN secrets[k].plain
    ELSE Lost]

Abstract == INSTANCE SecretMap WITH stored <- Stored

\* Saving and wiping are the only ways a readable password changes; unlocking
\* and every step of a change of master leave the map alone; only a failure
\* loses entries of it.
ImplementsSecretMap == Abstract!Spec
-----------------------------------------------------------------------------
(* What holds under every interleaving and failure: the strengthening the  *)
(* proofs about Spec use.                                                  *)

\* What a change has still to write is in its map.
TodoInMap ==
    \A p \in Procs : phase[p] = "write" => \A k \in todo[p] : plain[p][k] # None

\* A change writes under a key that has been published, and holds in memory
\* only passwords that were saved under the same key.
SharedInv ==
    /\ TodoInMap
    /\ NoUnpublishedKey
    /\ RotationTellsRow
    /\ RowsHoldSavedPasswords
    /\ \A p \in Procs :
          /\ phase[p] = "write" => newKey[p] \in 1..salt
          /\ \A k \in Keys : plain[p][k] # None => plain[p][k] \in everSaved[k]

-----------------------------------------------------------------------------
(* What holds between the steps when one process at a time has the vault   *)
(* open: the strengthening the proofs in VaultProofs use.                  *)

Busy(p) == session[p] # None \/ ~Idle(p)

OneAtATime == \A p, q \in Procs : p # q /\ Busy(p) => ~Busy(q)

\* Before a master exists the vault is empty and only config init runs.
FreshVault ==
    /\ salt = 0 => encId = 0 /\ s3Secret = None /\ \A k \in Keys : secrets[k] = None
    /\ \A p \in Procs : phase[p] = "create" => salt = 0 /\ session[p] = None
    /\ \A p \in Procs : session[p] # None => salt # 0

\* A session has the current key until its own change publishes the next one.
SessionsCurrent ==
    \A p \in Procs :
        /\ phase[p] \in {"read", "publish", "write"} => session[p] # None
        /\ session[p] # None /\ phase[p] # "write" => session[p] = salt
        /\ phase[p] = "write" => newKey[p] = salt

\* While reading, a key is still to do or already in the map, and after the
\* publication it is still in the map or already under the new key; or its read
\* has failed.
ChangeHoldsSecrets ==
    \A p \in Procs :
        /\ phase[p] \in {"idle", "create"} => plain[p] = NoPlain
        /\ phase[p] \in {"read", "publish"} => \A k \in Keys :
              IF secrets[k] = None THEN plain[p][k] = None
              ELSE \/ phase[p] = "read" /\ k \in todo[p] /\ plain[p][k] = None
                   \/ plain[p][k] = secrets[k].plain /\ secrets[k].key = salt
                   \/ plain[p][k] = None /\ k \in orphaned
        /\ phase[p] = "publish" => metaCopy[p] = [enc |-> encId, s3 |-> s3Secret]
        /\ phase[p] = "write" => \A k \in Keys :
              IF k \in todo[p]
              THEN secrets[k] # None /\ plain[p][k] = secrets[k].plain
              ELSE secrets[k] # None => secrets[k].key = salt \/ k \in orphaned

\* At most one process has a session, a prompt or a change of its own, and what
\* it holds in memory is enough to make every row readable again.
SoloInv ==
    /\ OneAtATime
    /\ FreshVault
    /\ SessionsCurrent
    /\ ChangeHoldsSecrets
    /\ SecretsReadable
    /\ S3Readable

\* All of it with the types and with what holds whoever shares the vault: the
\* inductive invariant of one process at a time.
SoloVault ==
    /\ TypeOK
    /\ SharedInv
    /\ SoloInv
==============================================================================
