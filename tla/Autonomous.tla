------------------------------ MODULE Autonomous ------------------------------
(***************************************************************************)
(* dumpmgr autonomous (src/internal/autonomous): schedules that fire jobs, *)
(* jobs that dump, encrypt and upload their items, a stop signal, and a    *)
(* change of the master password made by another process meanwhile.        *)
(*                                                                         *)
(* robfig/cron runs every firing in a goroutine of its own, so jobs of two *)
(* schedules, or two of the same one, overlap; --once runs the schedules   *)
(* one after the other instead.  All jobs share the session unlocked at    *)
(* the start.  Other processes on the vault save and wipe passwords        *)
(* meanwhile, with the current key or with one that was replaced.          *)
(*                                                                         *)
(* Abstractions.  Files and keys are those of module Dumps; a dump is the  *)
(* pair of its item and the second its name was drawn in.  rememberPassword*)
(* is set: without it every item is refused.  A job may take its items in  *)
(* any order.  One change of master runs at a time and reads all its rows  *)
(* in one step (Vault has two, and every statement); it re-encrypts the    *)
(* dumps when it is asked what to do with them (Dumps has the deleting),   *)
(* and reads and truncates each in one step (Bucket has two).              *)
(* A dump the menu takes of the same item in the same second is left out.  *)
(***************************************************************************)
EXTENDS Naturals, FiniteSets

CONSTANTS
    Schedules,  \* autonomous.schedules
    Items,      \* the items of the config
    Selected,   \* the items each schedule selects
    Unknown,    \* schedules that name an item the config does not have
    Uploads,    \* schedules with uploadToS3
    Jobs,       \* bound: the goroutines one run of the program starts
    None, Torn, Whole,
    MaxSecond,  \* bound: seconds the clock shows
    MaxKey      \* bound: changes of master stop at this key

ASSUME AutonomousAssumption ==
    /\ Selected \in [Schedules -> SUBSET Items]
    /\ Unknown \subseteq Schedules /\ Uploads \subseteq Schedules
    /\ None # Torn /\ None # Whole /\ Torn # Whole
    /\ {None, Torn, Whole} \cap Nat = {}
    /\ MaxSecond \in Nat /\ MaxKey \in Nat

VARIABLES
    second,         \* the clock
    mode,           \* "running", "stopping" after the signal, "stopped"
    once,           \* --once
    encryptedDump,  \* the config flag
    envS3,          \* DUMPMGR_S3_SECRET_KEY is set
    heldS3,         \* Run got an S3 secret when it started
    fired,          \* the second each schedule fired last
    pc,             \* where each job is
    sched,          \* the job's schedule
    todo,           \* its items still to dump
    cur,            \* the dump it works on; its second is None until it is named
    jobS3,          \* the job has an S3 secret
    named,          \* history: the dumps the job named
    outcome,        \* history: what became of each of its items
    late,           \* history: jobs started after the master was changed
    vaultKey,       \* the vault's current key
    rowKey,         \* the key each item's saved password is under
    s3Row,          \* the key the saved S3 secret is under
    resaved,        \* history: items whose password another process saved with the
                    \* session's key after it was replaced
    change,         \* the change of master: "idle", "read", "rows", "rewrite", "writing",
                    \* or "failed" when the last one ended with an error
    oldKey,         \* the key of the session that changes it, 0 outside a change
    rows,           \* the items whose password it has read and not yet written back
    rewrite,        \* the dumps it has listed to re-encrypt
    victim,         \* the dump it is writing
    plainFile, encFile, object  \* each dump on disk in plain, encrypted, and in the bucket

session == 1
Paths == Items \X (0..MaxSecond)

config == <<once, encryptedDump, envS3, heldS3>>
jobs == <<pc, sched, todo, cur, jobS3, named, outcome, late>>
vault == <<vaultKey, rowKey, s3Row, resaved>>
changer == <<change, oldKey, rows, rewrite, victim>>
files == <<plainFile, encFile, object>>
vars == <<second, mode, config, fired, jobs, vault, changer, files>>

Working == {"verify", "dumping", "encrypt", "enc_write", "upload"}
Active(j) == pc[j] \in {"start", "item"} \cup Working

TypeOK ==
    /\ second \in 0..MaxSecond
    /\ mode \in {"running", "stopping", "stopped"}
    /\ {once, encryptedDump, envS3, heldS3} \subseteq BOOLEAN
    /\ fired \in [Schedules -> Nat \cup {None}]
    /\ pc \in [Jobs -> {"free", "start", "item", "done", "failed"} \cup Working]
    /\ sched \in [Jobs -> Schedules \cup {None}]
    /\ todo \in [Jobs -> SUBSET Items]
    /\ cur \in [Jobs -> Paths \cup (Items \X {None}) \cup {None}]
    /\ \A j \in Jobs : pc[j] \in Working \ {"verify"} => cur[j] \in Paths
    /\ jobS3 \in [Jobs -> BOOLEAN]
    /\ named \in [Jobs -> SUBSET Paths]
    /\ outcome \in [Jobs -> [Items -> {"none", "ok", "failed"}]]
    /\ late \in SUBSET Jobs
    /\ vaultKey \in Nat
    /\ rowKey \in [Items -> Nat \cup {None}] /\ s3Row \in Nat \cup {None}
    /\ resaved \in SUBSET Items
    /\ change \in {"idle", "read", "rows", "rewrite", "writing", "failed"}
    /\ oldKey \in Nat /\ rows \in SUBSET Items
    /\ rewrite \in SUBSET Paths /\ victim \in Paths \cup {None}
    /\ plainFile \in [Paths -> {None, Torn, Whole}]
    /\ encFile \in [Paths -> Nat \cup {None, Torn}]
    /\ object \in [Paths -> Nat \cup {None, Torn, Whole}]

\* Run has loaded the config, unlocked the vault and looked for an S3 secret.
Init ==
    /\ second = 0 /\ mode = "running"
    /\ once \in BOOLEAN /\ encryptedDump \in BOOLEAN /\ envS3 \in BOOLEAN
    /\ fired = [s \in Schedules |-> None]
    /\ pc = [j \in Jobs |-> "free"] /\ sched = [j \in Jobs |-> None]
    /\ todo = [j \in Jobs |-> {}] /\ cur = [j \in Jobs |-> None]
    /\ jobS3 = [j \in Jobs |-> FALSE] /\ named = [j \in Jobs |-> {}]
    /\ outcome = [j \in Jobs |-> [i \in Items |-> "none"]] /\ late = {}
    /\ vaultKey = session
    /\ rowKey \in [Items -> {None, session}] /\ s3Row \in {None, session}
    /\ heldS3 = (s3Row # None \/ envS3) /\ resaved = {}
    /\ change = "idle" /\ oldKey = 0 /\ rows = {} /\ rewrite = {} /\ victim = None
    /\ plainFile = [p \in Paths |-> None] /\ encFile = [p \in Paths |-> None]
    /\ object = [p \in Paths |-> None]

\* resolveS3SecretKey: the stored secret, then the environment's.
S3Unreadable == s3Row # None /\ s3Row # session
S3Found == s3Row = session \/ (s3Row = None /\ envS3)

Rest == <<second, mode, config, fired, vault, changer>>

-----------------------------------------------------------------------------
(* Schedules                                                               *)

\* The master was changed, and no password opens with the session's key any more
\* but those saved with it since.
Replaced == vaultKey # session /\ \A i \in Items : rowKey[i] = session => i \in resaved

Launch(j, s) ==
    /\ pc[j] = "free"
    /\ pc' = [pc EXCEPT ![j] = "start"]
    /\ sched' = [sched EXCEPT ![j] = s]
    /\ late' = IF Replaced THEN late \cup {j} ELSE late
    /\ UNCHANGED <<todo, cur, jobS3, named, outcome>>

\* cron starts a job whenever the schedule is due, running ones or not.
Fire(j, s) ==
    /\ mode = "running" /\ ~once
    /\ fired[s] # second
    /\ fired' = [fired EXCEPT ![s] = second]
    /\ Launch(j, s)
    /\ UNCHANGED <<second, mode, config, vault, changer, files>>

NoneActive == \A j \in Jobs : ~Active(j)

\* --once: the next schedule, when the one before it is through.
RunNext(j, s) ==
    /\ mode = "running" /\ once
    /\ NoneActive
    /\ \A k \in Jobs : pc[k] # "failed" /\ sched[k] # s
    /\ Launch(j, s)
    /\ UNCHANGED <<second, mode, config, fired, vault, changer, files>>

\* runSchedule returns an error: an unknown item, or an S3 secret that the
\* session cannot decrypt.  cron drops it; --once returns it.
ScheduleFails(j) ==
    /\ pc[j] = "start"
    /\ \/ sched[j] \in Unknown
       \/ sched[j] \in Uploads /\ ~heldS3 /\ S3Unreadable
    /\ pc' = [pc EXCEPT ![j] = "failed"]
    /\ UNCHANGED <<sched, todo, cur, jobS3, named, outcome, late, files, Rest>>

BeginItems(j) ==
    /\ pc[j] = "start"
    /\ sched[j] \notin Unknown
    /\ sched[j] \in Uploads => heldS3 \/ ~S3Unreadable
    /\ pc' = [pc EXCEPT ![j] = "item"]
    /\ todo' = [todo EXCEPT ![j] = Selected[sched[j]]]
    /\ jobS3' = [jobS3 EXCEPT ![j] = heldS3 \/ (sched[j] \in Uploads /\ S3Found)]
    /\ UNCHANGED <<sched, cur, named, outcome, late, files, Rest>>

EndItems(j) ==
    /\ pc[j] = "item" /\ todo[j] = {}
    /\ pc' = [pc EXCEPT ![j] = "done"]
    /\ UNCHANGED <<sched, todo, cur, jobS3, named, outcome, late, files, Rest>>

-----------------------------------------------------------------------------
(* runScheduledDumpForItem                                                 *)

\* Mutant of ReadPassword: a password remembered from the start of the program.
ReadKeptPassword(j, i) ==
    /\ pc[j] = "item" /\ i \in todo[j]
    /\ pc' = [pc EXCEPT ![j] = "verify"]
    /\ todo' = [todo EXCEPT ![j] = @ \ {i}]
    /\ cur' = [cur EXCEPT ![j] = <<i, None>>]
    /\ UNCHANGED <<sched, jobS3, named, outcome, late, files, Rest>>

\* The saved password of the item opens with the session's key.
ReadPassword(j, i) ==
    /\ pc[j] = "item" /\ i \in todo[j]
    /\ rowKey[i] = session
    /\ pc' = [pc EXCEPT ![j] = "verify"]
    /\ todo' = [todo EXCEPT ![j] = @ \ {i}]
    /\ cur' = [cur EXCEPT ![j] = <<i, None>>]
    /\ UNCHANGED <<sched, jobS3, named, outcome, late, files, Rest>>

\* Mutant of RefuseItem: the first error ends the loop over the items.
RefuseRest(j, i) ==
    /\ pc[j] = "item" /\ i \in todo[j]
    /\ pc' = [pc EXCEPT ![j] = "done"]
    /\ outcome' = [outcome EXCEPT ![j][i] = "failed"]
    /\ UNCHANGED <<todo, sched, cur, jobS3, named, late, files, Rest>>

\* Mutant of RefuseItem: the item is tried again and again.
RefuseAndRetry(j, i) ==
    /\ pc[j] = "item" /\ i \in todo[j]
    /\ outcome' = [outcome EXCEPT ![j][i] = "failed"]
    /\ UNCHANGED <<pc, todo, sched, cur, jobS3, named, late, files, Rest>>

\* No saved password, or one the session cannot read, or no writable directory.
RefuseItem(j, i) ==
    /\ pc[j] = "item" /\ i \in todo[j]
    /\ todo' = [todo EXCEPT ![j] = @ \ {i}]
    /\ outcome' = [outcome EXCEPT ![j][i] = "failed"]
    /\ UNCHANGED <<pc, sched, cur, jobS3, named, late, files, Rest>>

\* The item is through: back to the loop of runSchedule.
Finish(j, what) ==
    /\ pc' = [pc EXCEPT ![j] = "item"]
    /\ cur' = [cur EXCEPT ![j] = None]
    /\ outcome' = [outcome EXCEPT ![j][cur[j][1]] = what]

\* The connection is verified, the name drawn from the clock, pg_dump started.
NameDump(j) ==
    /\ pc[j] = "verify"
    /\ LET p == <<cur[j][1], second>>
       IN  /\ cur' = [cur EXCEPT ![j] = p]
           /\ named' = [named EXCEPT ![j] = @ \cup {p}]
           /\ plainFile' = [plainFile EXCEPT ![p] = Torn]
    /\ pc' = [pc EXCEPT ![j] = "dumping"]
    /\ UNCHANGED <<sched, todo, jobS3, outcome, late, encFile, object, Rest>>

\* Another job drew the same name: the two write one file.
Clash(j) == \E k \in Jobs \ {j} : cur[j] \in named[k]

AfterFile(j) ==
    IF sched[j] \in Uploads
    THEN pc' = [pc EXCEPT ![j] = "upload"] /\ UNCHANGED <<cur, outcome>>
    ELSE Finish(j, "ok")

PgDumpEnds(j) ==
    /\ pc[j] = "dumping"
    /\ \E f \in IF plainFile[cur[j]] = None THEN {None}
                ELSE IF Clash(j) THEN {Torn, Whole} ELSE {Whole} :
          plainFile' = [plainFile EXCEPT ![cur[j]] = f]
    /\ IF encryptedDump
       THEN pc' = [pc EXCEPT ![j] = "encrypt"] /\ UNCHANGED <<cur, outcome>>
       ELSE AfterFile(j)
    /\ UNCHANGED <<sched, todo, jobS3, named, late, encFile, object, Rest>>

EncryptBegins(j) ==
    /\ pc[j] = "encrypt"
    /\ plainFile[cur[j]] # None
    /\ pc' = [pc EXCEPT ![j] = "enc_write"]
    /\ encFile' = [encFile EXCEPT ![cur[j]] = Torn]
    /\ UNCHANGED <<sched, todo, cur, jobS3, named, outcome, late, plainFile, object, Rest>>

\* The encrypted file is complete; removing the plain one may fail unnoticed.
EncryptEnds(j) ==
    /\ pc[j] = "enc_write"
    /\ \E f \in IF Clash(j) THEN {session, Torn} ELSE {session} :
          encFile' = [encFile EXCEPT ![cur[j]] = f]
    /\ \E f \in {None, plainFile[cur[j]]} : plainFile' = [plainFile EXCEPT ![cur[j]] = f]
    /\ AfterFile(j)
    /\ UNCHANGED <<sched, todo, jobS3, named, late, object, Rest>>

\* Mutant of Upload: the path of the plain file, encrypted or not.
UploadPlainPath(j) ==
    /\ pc[j] = "upload"
    /\ jobS3[j] \/ S3Found
    /\ plainFile[cur[j]] # None
    /\ object' = [object EXCEPT ![cur[j]] = plainFile[cur[j]]]
    /\ Finish(j, "ok")
    /\ UNCHANGED <<sched, todo, jobS3, named, late, plainFile, encFile, Rest>>

\* The file goes to the bucket as it is now.
Upload(j) ==
    /\ pc[j] = "upload"
    /\ jobS3[j] \/ S3Found
    /\ LET f == IF encryptedDump THEN encFile[cur[j]] ELSE plainFile[cur[j]]
       IN  f # None /\ object' = [object EXCEPT ![cur[j]] = f]
    /\ Finish(j, "ok")
    /\ UNCHANGED <<sched, todo, jobS3, named, late, plainFile, encFile, Rest>>

\* A container, a file operation or the bucket fails, or a key is missing; what
\* is on disk stays, but pg_dump may not have come to make its file.
ItemFails(j) ==
    /\ pc[j] \in Working
    /\ \/ pc[j] = "dumping" /\ plainFile' = [plainFile EXCEPT ![cur[j]] = None]
       \/ UNCHANGED plainFile
    /\ Finish(j, "failed")
    /\ UNCHANGED <<sched, todo, jobS3, named, late, encFile, object, Rest>>

-----------------------------------------------------------------------------
(* The program as a whole                                                  *)

Signal ==
    /\ mode = "running" /\ ~once
    /\ mode' = "stopping"
    /\ UNCHANGED <<second, config, fired, jobs, vault, changer, files>>

\* Mutant of Stopped: the program does not wait for its jobs.
StoppedAtOnce ==
    /\ mode = "stopping"
    /\ mode' = "stopped"
    /\ UNCHANGED <<second, config, fired, jobs, vault, changer, files>>

\* c.Stop waits for the running jobs; then the session is closed.
Stopped ==
    /\ mode = "stopping" /\ NoneActive
    /\ mode' = "stopped"
    /\ UNCHANGED <<second, config, fired, jobs, vault, changer, files>>

\* Mutant of OnceEnds: a schedule that fails is waited for.
OnceEndsWithAll ==
    /\ mode = "running" /\ once /\ NoneActive
    /\ Schedules \subseteq {sched[j] : j \in Jobs}
    /\ mode' = "stopped"
    /\ UNCHANGED <<second, config, fired, jobs, vault, changer, files>>

\* --once returns after the last schedule or the first error.
OnceEnds ==
    /\ mode = "running" /\ once /\ NoneActive
    /\ \/ \E j \in Jobs : pc[j] = "failed"
       \/ Schedules \subseteq {sched[j] : j \in Jobs}
    /\ mode' = "stopped"
    /\ UNCHANGED <<second, config, fired, jobs, vault, changer, files>>

Tick ==
    /\ second < MaxSecond
    /\ second' = second + 1
    /\ UNCHANGED <<mode, config, fired, jobs, vault, changer, files>>

-----------------------------------------------------------------------------
(* Another process changes the master password (modules Vault and Dumps)   *)

\* With a session of any key there has been.  Rows it cannot read are skipped.
ReadRows(k, S) ==
    /\ change \in {"idle", "failed"} /\ vaultKey < MaxKey
    /\ \A i \in S : rowKey[i] = k
    /\ change' = "read" /\ oldKey' = k /\ rows' = S
    /\ UNCHANGED <<second, mode, config, fired, jobs, vault, rewrite, victim, files>>

ChangePublish ==
    /\ change = "read" /\ vaultKey < MaxKey
    /\ s3Row \in {None, oldKey}
    /\ change' = "rows"
    /\ vaultKey' = vaultKey + 1
    /\ s3Row' = IF s3Row = None THEN None ELSE vaultKey + 1
    /\ UNCHANGED <<second, mode, config, fired, jobs, rowKey, resaved, oldKey, rows, rewrite,
                   victim, files>>

\* Whatever became of the row since it was read.
ChangeRow(i) ==
    /\ change = "rows" /\ i \in rows
    /\ rowKey' = [rowKey EXCEPT ![i] = vaultKey]
    /\ rows' = rows \ {i}
    /\ UNCHANGED <<second, mode, config, fired, jobs, vaultKey, s3Row, resaved, change, oldKey,
                   rewrite, victim, files>>

\* The change is over, well or not.
ChangeOver(how) ==
    /\ change' = how /\ oldKey' = 0 /\ rows' = {} /\ rewrite' = {} /\ victim' = None
    /\ UNCHANGED <<second, mode, config, fired, jobs, vault, files>>

\* The menu goes on to the encrypted dumps it finds in the directory.
ListDumps ==
    /\ change = "rows" /\ rows = {}
    /\ rewrite' = {p \in Paths : encFile[p] # None}
    /\ change' = "rewrite"
    /\ UNCHANGED <<second, mode, config, fired, jobs, vault, oldKey, rows, victim, files>>

\* config init leaves them alone.
LeaveDumps ==
    /\ change = "rows" /\ rows = {}
    /\ ChangeOver("idle")

\* A walk passes over a directory it cannot read.
Overlook(p) ==
    /\ change = "rewrite" /\ p \in rewrite
    /\ rewrite' = rewrite \ {p}
    /\ UNCHANGED <<second, mode, config, fired, jobs, vault, change, oldKey, rows, victim,
                   files>>

RewriteBegins(p) ==
    /\ change = "rewrite" /\ p \in rewrite
    /\ encFile[p] = oldKey
    /\ change' = "writing" /\ victim' = p
    /\ encFile' = [encFile EXCEPT ![p] = Torn]
    /\ UNCHANGED <<second, mode, config, fired, jobs, vault, oldKey, rows, rewrite, plainFile,
                   object>>

RewriteEnds ==
    /\ change = "writing"
    /\ change' = "rewrite" /\ victim' = None
    /\ rewrite' = rewrite \ {victim}
    /\ encFile' = [encFile EXCEPT ![victim] = vaultKey]
    /\ UNCHANGED <<second, mode, config, fired, jobs, vault, oldKey, rows, plainFile, object>>

\* A dump being written, or under a third key, ends the loop with an error.
RewriteRefused(p) ==
    /\ change = "rewrite" /\ p \in rewrite
    /\ encFile[p] # oldKey
    /\ ChangeOver("failed")

RewriteDone ==
    /\ change = "rewrite" /\ rewrite = {}
    /\ ChangeOver("idle")

\* A row or the S3 secret is under another key, a statement or a file operation
\* fails, the user calls it off, or the process ends.
ChangeStops ==
    /\ change \notin {"idle", "failed"}
    /\ ChangeOver("failed")

-----------------------------------------------------------------------------
(* Other processes save and wipe passwords, with a key they unlocked with  *)

SavePassword(i, k) ==
    /\ rowKey' = [rowKey EXCEPT ![i] = k]
    /\ resaved' = IF k = session /\ vaultKey # session THEN resaved \cup {i} ELSE resaved
    /\ UNCHANGED <<second, mode, config, fired, jobs, vaultKey, s3Row, changer, files>>

WipePassword(i) ==
    /\ rowKey' = [rowKey EXCEPT ![i] = None]
    /\ UNCHANGED <<second, mode, config, fired, jobs, vaultKey, s3Row, resaved, changer, files>>

SaveS3(k) ==
    /\ s3Row' = k
    /\ UNCHANGED <<second, mode, config, fired, jobs, vaultKey, rowKey, resaved, changer, files>>

OtherStep ==
    \/ \E i \in Items : WipePassword(i)
    \/ \E k \in 1..vaultKey : SaveS3(k) \/ \E i \in Items : SavePassword(i, k)

-----------------------------------------------------------------------------
JobStep(j) ==
    \/ ScheduleFails(j) \/ BeginItems(j) \/ EndItems(j)
    \/ \E i \in Items : ReadPassword(j, i) \/ RefuseItem(j, i)
    \/ NameDump(j) \/ PgDumpEnds(j) \/ EncryptBegins(j) \/ EncryptEnds(j)
    \/ Upload(j) \/ ItemFails(j)

RunStep == Stopped \/ OnceEnds \/ \E j \in Jobs, s \in Schedules : RunNext(j, s)

MenuChange ==
    \/ \E k \in 1..vaultKey : ReadRows(k, {i \in Items : rowKey[i] # None})
    \/ ChangePublish \/ ListDumps \/ RewriteEnds \/ RewriteDone
    \/ \E i \in Items : ChangeRow(i)
    \/ \E p \in Paths : RewriteBegins(p) \/ RewriteRefused(p)

\* What may go wrong with it, and config init's change of the vault alone.
OtherChange ==
    \/ \E k \in 1..vaultKey, S \in SUBSET Items : ReadRows(k, S)
    \/ LeaveDumps \/ ChangeStops \/ \E p \in Paths : Overlook(p)

Daemon ==
    \/ RunStep \/ Signal \/ Tick
    \/ \E j \in Jobs : JobStep(j) \/ \E s \in Schedules : Fire(j, s)

Next == Daemon \/ MenuChange \/ OtherChange \/ OtherStep
Spec == Init /\ [][Next]_vars

\* Every container, upload and statement returns, well or not, and main goes on.
Fairness == WF_vars(RunStep) /\ \A j \in Jobs : WF_vars(JobStep(j))
FairSpec == Spec /\ Fairness

\* The master is changed from the menu only, which takes care of the dumps; nothing
\* fails in the change, and nobody else touches the vault.
MenuSpec == Init /\ [][Daemon \/ MenuChange]_vars

-----------------------------------------------------------------------------
(* Properties                                                              *)

\* A job that ran to its end tried every item its schedule selects: an item
\* that cannot be dumped never keeps the others from their turn.
EveryItemTried ==
    \A j \in Jobs : pc[j] = "done" =>
        \A i \in Items : outcome[j][i] # "none" <=> i \in Selected[sched[j]]

\* In every state, all of them well typed: the session and its database stay open
\* as long as a job may use them.
SessionOutlivesJobs ==
    /\ TypeOK
    /\ mode = "stopped" => NoneActive

\* What is in the bucket is a complete dump, encrypted when the config says so.
\* Two things only can spoil it: another job drew the same name, or the master
\* was changed while the daemon ran.
ObjectsComplete ==
    \A p \in Paths : object[p] # None =>
        \/ object[p] = IF encryptedDump THEN session ELSE Whole
        \/ vaultKey # session
        \/ \E j, k \in Jobs : j # k /\ p \in named[j] \cap named[k]

\* A job that starts after the master was changed, every saved password with it,
\* dumps no item but one whose password a process that still held the replaced key
\* has saved again: else no new dump gets the old key.
LateJobsDumpResaved ==
    \A j \in late :
        /\ \A p \in named[j] : p[1] \in resaved
        /\ \A i \in Items : outcome[j][i] = "ok" => i \in resaved

\* Every job that was started comes to its end.
JobsEnd == \A j \in Jobs : Active(j) ~> ~Active(j)

\* After the signal the program stops, once its jobs have.
SignalStops == mode = "stopping" ~> mode = "stopped"

\* --once always returns.
OnceReturns == once ~> mode = "stopped"

\* After a change of master from the menu that reported no error, with no job at
\* work, every encrypted dump opens with the vault's key.
DumpsCurrent ==
    change = "idle" /\ NoneActive =>
        \A p \in Paths : encFile[p] \in Nat => encFile[p] = vaultKey

==============================================================================
