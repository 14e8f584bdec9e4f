# dumpmgr in TLA+

A model of `dumpmgr`, a command-line program that dumps PostgreSQL databases
through Docker, keeps database passwords in a local vault, encrypts dump files
with a key derived from a master password, uploads them to S3, and runs
schedules as a daemon. The modules are written from the Go code under
`src/src/internal`; paths below are relative to that directory.

## The system

| Part | State | Operations | What makes it right |
|---|---|---|---|
| vault (`vault/session.go`, `secrets.go`, `store.go`) | one SQLite file: the master's hash and salt, `enc_id`, the S3 secret, the secrets, their rotations; in each process a session with the AES key | create, unlock, close; save, read, wipe a secret; save the S3 secret; change the master | no password leaves the reach of the current master; rotations tell the truth |
| opening and migration (`vault/store.go`, `legacy.go`) | `vault.db`, the older `metadata` and `metadata.json` | create the file, its tables and its one row; copy a legacy file into a new vault and rename it | the legacy file goes only when everything is in; nothing newer is replaced |
| dump files (`dumps/dumps.go`) | `<item>-<second>.dump` and `..._enc_<encId>.dump` under the dump directory | encrypt, decrypt to a temporary copy, find, list, re-encrypt, delete | a finished dump is never lost, opens with the current key, and is not left in plain |
| interactive program (`app/`) | config, session, one operation at a time | dump, restore, dump and restore, change master, S3 upload and download | the session is never stale; a failed step leaves the rest in order |
| restore destination (`app/restore_dest.go`, `docker/`) | the PostgreSQL server: databases and roles | connect, look up, create, drop and recreate, create a login, pg_restore | data go only with the user's consent; what is told is true; saved passwords work |
| registry (`vault/dumps.go`, `app/record.go`) | `dump_files` rows; restore history; audit log | record, scan, verify | a row tells what happened |
| scheduler (`autonomous/`) | one session for the whole run, one goroutine per firing | fire, run a schedule, dump one item, stop, `--once` | every item gets its turn; a stop waits for the jobs; what is uploaded is complete |
| S3 (`s3/`, `app/app.go`) | the bucket, the S3 secret in the vault | list, upload, download | nothing confidential goes up; a download destroys nothing unasked |
| configuration (`config/`) | `config.jsonc` | load, validate, lint, scaffold; keys, trees, destinations | an accepted file is usable; a key means one database; read-only stays read-only |
| `config init` (`initcmd/`) | – | write the file, create or change the master | same as the vault and the file |
| command line, doctor (`cli/`, `doctor/`) | – | dispatch, report | a report agrees with what the program does |

Processes share `vault.db` (SQLite in WAL mode: a statement or a transaction is
atomic), the dump directory and `config.jsonc` (no locks at all), the PostgreSQL
server and the bucket. The interactive program, a daemon, `config init` and the
`secret`, `dump-registry` and `s3` commands may all run at the same time; nothing
tells one that another has changed the master.

What is hard to test, and so what the properties are about: a change of master
that is cut short at any statement; two processes with different keys; a file
rewritten in place while the program dies or another reads it; a vault created by
two processes, or half migrated; a destination dropped before the question that
would have kept it; errors that are swallowed or that take the session with them;
overlapping jobs; a key going stale in the daemon or in the bucket.
`PROJECT.json` lists these hazards at their lines.

## The modules

**SecretMap** is what the vault promises: a map from secret keys to passwords
that only saving and wiping change. A failure may lose entries; a change of
master is invisible.

**Vault** has `vault_meta` (`salt`, `encId`, `s3Secret`), the tables (`secrets`,
`lastRotation`), the session of each process and the local variables of
`ChangeMasterPassword`. Every statement of that function is an action:
`ListSecrets`, `ReadSecret` / `SkipSecret` / `MissSecret` / `RefuseSecret` for
one turn of the reading loop, `ReadMeta` / `RefuseMeta`, `PublishMeta` for
`SetVaultMeta`, `WriteSecret` for one turn of the writing loop, `FinishChange`.
`Fail` is a process that dies between two statements, or any other statement
that returns an error. Each change of master draws a fresh salt, so the salts
are numbered and a key is the number of its salt; AES-GCM opens a ciphertext with
its own key and no other. Two specifications: `Spec` (any interleaving, any
failure) and `SoloSpec`, in which one process at a time has the vault open: the
interactive use the program is made for.

**Legacy** is `vault.Open` by several processes at once: `MigrateIfNeeded` (the
check for `vault.db`), `CreateFile`, `ReadRow` and `InsertRow` (`Store.migrate`),
`MigrateMeta`, `MigrateSecret`, `RenameSource`; then the first uses of the vault
that a late migration could damage: `Unlock`, `InitCheck` / `CreateWithMaster`,
`SetDBPassword`. `Stop` ends a process between any two statements, by a failure, a
crash or in order. A master is numbered by its creation, 0 is the legacy one;
`dbFile` tells a file without a row from one with. A legacy file may be without a
master (`keyed`), for that is what a `config init` that was not finished left: it is
migrated and renamed like any other (`metadata/metadata_test.go:80` tests it), and
leaves a vault with an `enc_id` and no master, in which `CreateWithMaster` makes a new
`enc_id`.

**Dumps** is one interactive program and its dump directory. A dump has up to
two files; the content of an encrypted one is the number of its key; a file being
written is `Torn`, since `os.WriteFile` truncates first. `EncryptDumpFile` is
three steps (write begins, write ends, plain file removed), a re-encryption is
two. `handleChangeMaster` is `Mismatch`, `ChangeVault` or `ChangeVaultFails`,
`Choose` or `CancelChoice`, then the loop over the files; any error is
`DropSession`, because `RunMain` assigns the nil session. The walks over the
directory pass over what `os.ReadDir` cannot read without an error: `PassOver` for
one dump, the second half of `ChangeVault` when no dump is found at all; the
change goes well and the dump is `stranded`. The decrypted copy of a restore is
removed by a deferred call whose error is dropped: `RestoreEnds` or `CopyStays`, and
`leftover` has the copies that stay. `vaultKey` is `salt` of module Vault. `ScanFile`
runs in another process at any time. `InitChangeMaster` is `config init` between two
runs of the program.

**DumpStore** is what Dumps promises, with no files, keys or phases: a dump is
`Take`n once, may be `Remove`d, and several may be `Lose`d at once by what fails.
Dumps maps its files to it (`Status`): a dump is kept while it can be restored from
what is on disk with the vault's key, or with the key the running change of master
still has (`Restorable`).

**Autonomous** is the daemon beside a process that changes the master. Each job
is a goroutine: `ScheduleFails` or `BeginItems`, then for every item
`ReadPassword` or `RefuseItem`, `NameDump`, `PgDumpEnds`, the two steps of the
encryption, `Upload`; `ItemFails` ends the item at any of them and the job goes
on. `Fire` starts a job whenever a schedule is due, while others run; `RunNext`
is `--once`. A change of master by another process goes through `ReadRows`,
`ChangePublish`, `ChangeRow`, `ListDumps` or `LeaveDumps` and the rewriting
(`Overlook` for a directory it cannot read), with the keys of Vault and the files of
Dumps; its session may be under any key so far, it may have skipped rows, and
`ChangeStops` ends it anywhere. Other processes save and wipe passwords and save the
S3 secret meanwhile, under the key of any session there has been (`SavePassword`,
`WipePassword`, `SaveS3`); `resaved` has the items whose password was saved under the
daemon's own key after that key was replaced.

**Restore** follows one restore or dump-restore through
`PrepareRestoreDestination` and `runRestore`: for each connection
`ResolveDBPassword`, then `Connected` or `ConnectWithRetry`; for a flat destination
`DatabaseExists`, `AskCreate`, `CreateDatabase`, `ConfirmOrYes`; for a nested one
`SelectNestedRestoreAction`, `DropDatabase`, `CreateDatabase`,
`SelectNestedCreatePassword`, the login (`EnsureRole`, `GrantPrivileges`,
`SaveLogin`); then `ConfirmOverwrite` (dump-restore only), `SelectReplace`,
`SourceReady`, `PgRestoreBegins`, `PgRestoreEnds`, `RecordRestore`. The server is
`db` (what each database holds) and `rolePw`; the vault is `saved` and the newest
row of the history. `RestoreOutcome` is how the code reads pg_restore's exit code
and output; `Runs` is what pg_restore, or the docker that runs it, may end with: an
exit code, what its output says, and how much of the dump is in by then, an exit 1
without a word the code looks for among them (`UnseenFailure`). Contents tell a dump
that is in whole, in but for ignored errors, or in part, over an empty database or over
what was there (`new`, `gaps`, `torn`, `mixed`, `mixed_gaps`, `mixed_torn`).
`Asking` says where the program waits at a prompt: `OnCancel` is Ctrl-C there, which
says "Aborted.", `Crash` a kill anywhere. An administrator uses the server at the same
time.

**Bucket** is the dump directory beside the S3 bucket. A client is an upload
(`StartS3`, `Browse`, `PutObject`) or a download (`SelectObject`,
`ConfirmOverwrite`, `Download`, `CopyEnds`). A dump is taken and encrypted step by
step (`StartDump`, `PgDumpEnds`, `EncryptBegins`, `EncryptEnds`, `JobFails`) by a
program whose session may be under any key so far; dumps are decrypted for a restore
and removed meanwhile, and a change of master walks over them (`ChangeMaster`,
`RewriteReads`, `RewriteTruncates`, `RewriteEnds`, `DeleteOne`, `WalkEnds`): between
the reading and the truncating, which makes a file that has gone anew, a download may
look for the file. A file's content is whole or not and under a key; `Filled` and
`Readings` say what a writer leaves and a reader gets when another was there between.

**Config** has the configuration rules as operators on the content of a file:
`Parse`, `Load`, `ValidateFile`, and the keys and trees: `ConfigItems`,
`ConfigRestoreTreeItems`, `FindDatabaseItem`, `FindRestoreDestination`,
`ResolveDatabaseTree`, `ItemsForSchedule`. A name is a sequence of parts, because
the code joins names with a colon.

**Setup** extends Config with the file itself: the user edits it, `config init`
and `config lint` truncate and rewrite it, and every command loads it, enters the
vault and chooses databases by flag or picker.

How they compose: Dumps takes its `vaultKey` from Vault's `salt`; Autonomous has
the other process's change of master from Vault and the file steps from Dumps;
Bucket has the steps of Dumps and Autonomous that open, truncate, fill and remove the
files of one dump, and splits the rewriting once more; Restore takes the dump
from Dumps (`SourceReady`); Setup decides who runs with a session, which the
others start from.

The **MC** modules give the constants for TLC and the symmetry; **VaultProofs**,
**LegacyProofs**, **DumpsProofs**, **BucketProofs**, **AutonomousProofs**,
**RestoreProofs** and **SetupProofs** have the proofs. History variables
(`orphaned`, `everSaved`, `failures`; `begun` to `exposed`; `named`, `outcome`,
`late`, `resaved`; `stale`, and the operation's `unseen`; `raced`, `twice`, `cutShort`;
`taken`, `outdated`, `broken`, `fetched`, `revived`, `stopped`; `wanted`) record what
happened and guard nothing but bounds and the freshness of a dump's name.

## The runs

| Run | What it shows | Bounds |
|---|---|---|
| `vault_solo` | A password is out of the current master's reach only after a failed read or a cut-short write; the S3 secret never is; a change never publishes over a row it read and cannot carry over; the vault implements SecretMap | 2 processes, 2 keys, 2 passwords, 3 salts (two changes of master in a row), 2 failures (a second one on top of what the first left) |
| `vault_shared` | Whoever interleaves: keys are published before they are used, rotations agree with rows, a row holds only passwords saved under its own key | 2 processes, 2 keys, 2 passwords, 2 salts, 1 failure |
| `vault_cut_short` | *violation*: the change succeeds although it failed to read a row, whose password is lost | 1 process |
| `dumps_all` | A completed dump is never lost except in the middle of a rewrite in place; encrypted dumps open with the current key or a recorded failure, or a walk that missed their directory, left them; plain files and decrypted copies stay only where an operation or a removal failed; the session is never stale; foreign dumps are untouched; seen from outside it is a DumpStore, in which encrypting and a change of master that goes well and sees every directory are invisible and nothing lost comes back | 2 own dumps and 1 foreign, keys up to 3 |
| `autonomous_safe` | The session outlives the jobs; an uploaded object is complete and encrypted unless two jobs drew one name or the master changed; a job started after a change dumps only items whose password was saved again under the replaced key | 1 item; 1 schedule that fires twice, so that its jobs overlap; 2 jobs, 2 seconds, so that names clash or not; 1 change of master, whole or stopped anywhere; saves and wipes under either key |
| `autonomous_live` | Every item is tried; jobs end; the signal stops the program; `--once` returns | 2 items in every schedule, so that one can fail before the other; 2 schedules, one with an unknown item; 2 jobs; no change of master |
| `autonomous_stale` | *violation*: a dump made across a change of master stays under the old key, and no one is told | 1 item, 2 jobs |
| `restore_all` | A saved password opens its role unless something named overtook it; a database loses its data only by the drop or the clean that was chosen after it was seen; success, warning and history are true of the destination, but for an exit 1 that names no error; calling a restore off keeps the data, but at the two questions that come after the drop | a parent and two nested items, one with the parent's role, one with its own; 2 passwords; 2 restores, so that the second meets what the first left; 1 step of the administrator |
| `restore_retry` | *violation*: a failed connection ends the program instead of asking | as above, no administrator |
| `legacy_all` | The legacy file is renamed only when all it held is in the vault; ciphertexts fit the master; the migration replaces nothing newer; a legacy file is left behind only for a named reason | 2 processes; 2 legacy files, each readable or not, with a master or without; 2 legacy secrets, so that a stop can be between them, and 1 key saved later; no legacy `enc_id`, so that one is made; 2 masters or `enc_id`s made |
| `setup_all` | A loaded configuration can be used; a destination is never read-only or the source; a key means one database unless a name has a colon; the file is what the user wanted unless a write was cut short or two met; `validate` and `doctor` tell the truth | 2 processes; 4 accepted configurations (no master, a tree with a read-only parent, encryption with S3 and schedules, a name with a colon) and 6 refused for one reason each |
| `bucket_all` | With encryption on, nothing plain goes up; a dump that does not open was downloaded, encrypted under a replaced key or left by an unfinished walk; a change of master stops only at such a dump, at one being written, or with a stale session; a download or an upload destroys nothing but for the named overlaps | 2 clients; 1 dump with its three files (each file's fate depends on no other dump's but through the walk, whose missing of files `WalkStops` covers); keys up to 3 |

The bounds let each hazard happen: two keys so that a change can be between
them; two changes so that what the first left behind meets the second; one dump
under an old key beside one that is not; two jobs so that names clash and one can
be ahead of the other; two clients so that one reads what the other writes.
Processes, keys, passwords, own dumps, jobs and clients are only compared for
equality, so symmetry is used in the safety runs; `autonomous_live` uses none. TLC
runs the whole state space to the end in every passing run. The autonomous runs
turn deadlock checking off because the program stops; everywhere else a program
that has ended may be started again.

A type invariant is checked in every module, as the first conjunct of a larger
invariant.

The violations are what the code does today: each is a finding of `PROJECT.json`
with the line and the words of the repository it contradicts. Where the code's
promise fails, another property holds and says exactly where the damage stops:
`SecretsReadable` beside `ChangeKeepsSecrets`, `ObjectsComplete` and
`LateJobsDumpResaved` beside `DumpsCurrent`, `SavedPasswordsWork` beside
`RetryOffered`.

Definitions marked "Mutant of" are plausible mistakes in the code; substituted
for the definition they name, they make TLC find the property violated.

## Where the code and its words differ

The models contain these behaviours; the first three are runs, the others are
written into the exceptions of the properties named.

- A change of master that fails to read a row loses it (`vault_cut_short`); a job
  of the daemon may leave a dump under the old key (`autonomous_stale`); the retry
  dialogue is never shown (`restore_retry`).
- A change of master upserts what it read at its start, so a password that another
  process wiped comes back (`vault/session.go:205`; `RotationTellsRow` sees the new
  row told as `master_reencrypt`).
- A change of master whose walk cannot read a directory of the dumps says nothing and
  goes well; the dumps in it stay under the old key (`dumps/dumps.go:264`, `stranded` in
  Dumps, `WalkStops` in Bucket).
- A process that still has the replaced key may save a password with it: the daemon
  then dumps that item again, under that key (`resaved` in Autonomous, `outdated` in
  Bucket).
- The decrypted copy of a restore stays when its removal fails: the error is dropped
  (`app/app.go:467`, `CopyStays` in Dumps).
- A `pg_restore`, or a `docker run`, that exits with 1 and names no error is told as a
  success (`docker/docker.go:387`, `unseen` in Restore).
- A legacy file without a master is renamed like any other, and the first master made
  after it replaces the `enc_id` it brought (`MigrationKeepsNewer`).
- The registry keeps the checksum of the old ciphertext after a re-encryption
  (`dumps/dumps.go:294`; checksums are left out of Dumps), so `dump-registry verify` fails until the next scan; a
  scan also registers decrypted copies of a running restore and partial downloads.
- `config init`'s change of master leaves the encrypted dumps under the old key
  (`initcmd/init.go:80`), and the next change from the menu stops at the first of
  them (`stranded` in Dumps, `stopped` in Bucket).
- After any error of the menu's change of master the session is gone and dumps
  stay in plain until the program is restarted (`exposed` in Dumps).
- `--once` ends with the first schedule that fails; README.md:45 says "Run all
  schedules immediately and exit".
- README.md:145 says that legacy metadata "is migrated to `vault.db` on first
  open". The migration creates `vault.db` first, so if it is cut short it is never
  tried again and the legacy file stays (`cutShort` in Legacy).
- A typed database password is saved before it is tried; a wrong one, or one the
  key does not open, stays until `secret wipe`. The S3 secret is saved before it is
  tried as well, and nothing asks for it again (`StartS3` in Bucket).
- A nested destination always asks, `--yes` or not. Two questions come after the
  destination was dropped: a dump-restore asks "Overwrite destination", and takes its
  dump, only then, and a new database with a role of its own needs that role's
  password. Ctrl-C or a no there says "Aborted." with the data gone
  (`CancelKeepsData`).
- Creating a login for a nested database alters a role other items may share, whose
  saved passwords then no longer work (`stale` in Restore).
- A colon in a name gives two databases one key (`KeysNameOneDatabase`).
- A master can only be created by `config init`, which overwrites the configuration
  first (`Setup`).

## Fairness

Only `autonomous_live` assumes any: weak fairness of every job's next step and of
main's (`Stopped`, `OnceEnds`, `RunNext`). Go's scheduler runs every goroutine
that can go on; what a job waits for is a `docker run`, an S3 call or a file
operation, which end well or not (`ItemFails` is one of the ways). The code sets
no timeout on them: that a container returns is an assumption, not something
the program sees to. Nothing is assumed of the clock, the signal, the firing of a
schedule or the other process. The interactive parts wait for a person at every
step, so no liveness is claimed of them.

## What is proved

Everything below is proved with TLAPS for every value of the constants that meets
the module's one assumption (`VaultAssumption`, `LegacyAssumption`,
`DumpsAssumption`, `BucketAssumption`, `AutonomousAssumption`, `RestoreAssumption`,
`SetupAssumption`), which says what the constants are and keeps the marker values
apart. `SetupAssumption` adds that every file the user may write, accepted or not,
has been decoded into the Go types (`Decoded`): a content that does not decode is
refused before any rule of Config is asked. Each of the invariants was checked by
TLC first.

`VaultProofs`, for any processes, keys, passwords and bounds:

- about `Spec`: `TypeCorrect`, `SharedInvariant`, and from it `KeysPublished`,
  `RotationsAgree`, `RowsAreSaved`. `SharedInv` adds to the three properties what
  they need to be inductive: what a change has still to write is in its map, its
  new key has been published, and its map holds only passwords once saved under
  the same key. Without the last, `WriteSecret` could write anything.
- about `SoloSpec`: `SoloInvariant`, and from it `SecretsStayReadable`,
  `S3StaysReadable`, `UnreadableStopsChange` and `EncIdKept`. The run checks the
  whole inductive invariant, `SoloVault`: the types, `SharedInv` and `SoloInv`.
  `SoloInv` says that
  one process at a time is busy (`OneAtATime`), that an uncreated vault is empty
  (`FreshVault`), which key a session has in each phase (`SessionsCurrent`), and,
  the heart of it, that at every step of a change the database and the change's
  memory together hold every row's password (`ChangeHoldsSecrets`).
- `VaultImplementsSecretMap`: `SoloSpec` implements `SecretMap!Spec` under the
  mapping `Stored`. One lemma per kind of step says what it does to `Stored`:
  nothing for unlocking, reading, publishing and writing back, `Save` and `Wipe`
  for the two operations, `Lose` for a failure. That `PublishMeta` is a stutter is
  the point: at that moment every row goes from "under the current key" to "in the
  memory of the change".

`LegacyProofs`, for any processes, legacy secrets and keys:

- `OpeningInvariant`, and from it `BackupsAreMigrated`, `RowsAgree`,
  `LeftForAReason` and `NewerIsKept`. The properties speak of the moments
  when something is renamed, replaced or saved; between these moments `OpeningInv`
  carries what the order of the statements gives: the file comes before the row, the
  row before the `enc_id` and the master, the `enc_id` before the secrets
  (`FilledInOrder`); what a migration has ticked off is in the vault (`CopiedIsThere`),
  from which the renaming follows, whoever else is there (`MasterStays`, and `SameSource`: all who migrate have
  one file). The rest holds while no two processes have been opening at once (`raced`):
  one opens (`OneOpens`), a migration is alone and meets an empty vault
  (`MigratesAlone`, `NothingToMigrate`), so that all sessions have one master
  (`SessionsAgree`).

`DumpsProofs`, for any dumps and any number of changes of master:

- `DumpsInvariant`, and from it `DumpsAreKept`, `DumpsFollowKey`,
  `PlainIsConfined`, `SessionIsCurrent` and `ForeignAreUntouched`. To the four
  state properties `DumpsInv` adds what each phase works on (`WorksOn`), that the
  plain file is whole from the end of `pg_dump` to its removal and that it is removed
  only beside a readable encrypted one (`PlainUntilEncrypted`, without which `DumpKept`
  says nothing of the step that removes it), and that a dump to be encrypted is in
  plain only in its own operation or exposed (`PlainWhileTaken`).
- `DumpsImplementDumpStore`: `Spec` implements `DumpStore!Spec` under the mapping
  `Status`. It needs more than `DumpsInv`: that what has happened to a dump tells what
  there is of it (`HistoryTells`), and that keys only grow, so that a dump left behind
  under an old key is never taken for one under the current key again (`KeysGrow`).
  `StoreCases` sorts the steps: those that do nothing to a dump (`Quiet`), those that
  end a change of master in its middle or with no dump in sight (`Stops`, which are
  `Lose`, `StopsLose`), and the few that are left, of which only the end of `pg_dump`, a
  deletion and a dump passed over (`PassOverLoses`) are anything but stutters.

`BucketProofs`, for any files, clients and number of changes of master:

- `BucketInvariant`, and from it `NothingPlainGoesUp`, `StaleDumpsExplained`,
  `RefusalsExplained`, `LocalDumpsKept` and `ObjectsAreKept`. `BucketInv` says that
  content is under a key exactly if its name says so, on disk, in the bucket
  and in a client's hands (`NamesTellKeys`); that a client has what it was shown
  (`ClientsHold`); that a job finds nothing under the names it writes and, until
  somebody downloads them, what it has left there (`NewNamesFree`, `JobAlone`); that what
  a walk has read stays or is removed (`ReadStays`); that a download not agreed to finds
  nothing to overwrite but what was downloaded or made anew since (`NothingToLose`); and
  that as long as no walk has failed, every encrypted dump that was neither downloaded
  nor encrypted under a replaced key is under the current one, still to be moved to it,
  being written, or broken (`WalkIsComplete`), which is the argument for a change of
  master.

`AutonomousProofs`, for any schedules, items, jobs, seconds and changes of master,
and so with any number of jobs at once:

- `AutonomousInvariant`, and from it `SessionIsOpen`, `ObjectsAreComplete`,
  `LateJobsNeedASave` and `EveryItemIsTried`, of `Spec`, and so of `FairSpec`.
  `AutonomousInv` adds to the four what they need: which variables of a job have a
  value in which phase (`JobOrder`); that todo, the item in hand and the outcomes
  split what the schedule selected (`ItemsCounted`), which is why no failure costs
  another item its turn; that until a new key is published no change of master has
  come to write anything (`Untouched`); that once a job has started late every row that
  is not saved again is out of the session's reach, and a late job works on no such item
  (`LateReadsResaved`); and that, as long as no other job
  drew its name, the file a job hands to the upload is complete (`FilesOwned`),
  from which `ObjectsComplete` follows at the upload.

`RestoreProofs`, for any items, roles, databases and passwords, any number of
restores and of steps of the administrator:

- `RestoreInvariant`, and from it `SavedPasswordsOpen`, `LossIsAgreed`,
  `OutcomesAreTrue` and `CancelsAreHarmless`. The last three speak of steps; what
  makes them true is what the invariant says of the phase before: who is
  connecting and with which password (`OperationKnown`, `LoginKnown`), that
  dropping and restoring into an existing database are choices about one that was
  found, and that `--clean` is decided last (`ChoiceFits`), and what the destination
  holds while `pg_restore` runs and until its outcome is told, whatever the
  administrator does meanwhile (`DestinationFits`). One lemma per step says what
  becomes of the operation's record (`...Moves`), so that each part of the invariant
  is proved without looking at it again.

`SetupProofs`, for any processes and any contents of the file:

- `SetupInvariant`, and from it `LoadedCanBeUsed`, `DestinationsAreAllowed`,
  `KeysTellDatabasesApart`, `FileStaysWanted` and `ReportsAreTrue`. Most of
  `SetupInv` is about one process alone (`RunOK`): its configuration is that of a
  file that was accepted, who runs on has a session or needs none, and who is about
  to write asked or read. `FileOrTorn` and `LintRestores` relate the file to what
  the user wants while somebody writes: `config lint` puts back what is wanted, unless
  two writers met. On the way, about Config's operators for every configuration:
  an item of an accepted file can be dialled (`ItemsCanBeDialled`), no flag or list
  offers a read-only entry or the key left out (`DestinationIsAllowed`), the two copies
  of the tests agree (`SameTests`), and names without a colon can be told apart in
  a joined key (`JoinedNamesDiffer`).

So every invariant and every action property of the passing runs is proved. Only
model-checked: the liveness of `autonomous_live` (`JobsEnd`, `SignalStops`,
`OnceReturns`), which is out of the prover's reach.

## Not modelled, and why

- Timestamps, `last_used_at`, the audit log and all but the newest row of the
  restore history: written, never read by a decision.
- A wrong master password changes nothing but an empty `enc_id`, which `Unlock`
  fills in before it verifies (`UnlockFails` in Setup).
- Reads of several rows by `Unlock` and by the end of the reading phase are one
  step; the comments at the actions say why that hides nothing that is claimed.
- The order of a schedule's items: a job takes them in any order.
- SQL text, docker command lines and quoting, image pulls, the layout of tables
  and prompts, paging of listings: they change no state the properties see.
- What a PostgreSQL role may do: a `pg_restore` may always be refused.
- `hujson` is a vendored parser, `sqlcgen` generated.

## Plan

Done: SecretMap, Vault, Dumps, DumpStore, Autonomous, Legacy, Restore, Config,
Setup, Bucket, and proofs about all of them. What is left is to prove more than
the runs ask:

1. Bucket beside DumpStore: which of a dump's three files a client may rely on, as
   an abstract specification of its own.
2. What Restore promises, as an abstract map from databases to contents that only
   the agreed steps change.
3. Vault and Legacy cannot be refined into one another step by step (Legacy splits
   what Vault does at once, and starts before there is a master); their common
   properties (`SessionsAgree` and `SessionsCurrent`) are what a composition would
   rest on.
