-------------------------------- MODULE Setup --------------------------------
(***************************************************************************)
(* The life of config.jsonc beside the vault: the user edits it, `config   *)
(* init` overwrites it and creates the master password, `config lint`      *)
(* rewrites it in place, and the menu, the scheduler, `secret`, `config    *)
(* validate` and `doctor` load it (src/internal/cli, initcmd, app,         *)
(* autonomous, doctor).                                                    *)
(*                                                                         *)
(* A write truncates the file and then fills it, so another process may    *)
(* find it Torn, and a crash leaves it so.  Of the vault only what these   *)
(* commands ask of it is here; Docker and the dumps directory are taken    *)
(* to answer.                                                              *)
(***************************************************************************)
EXTENDS Config

CONSTANTS
    Procs,
    None,           \* no file; nothing chosen
    Torn,           \* a file cut short: empty or ending inside the JSON
    Contents,       \* what the user may write into the file
    DemoItems,      \* the items of the scaffold with fake data
    DemoS3          \* its S3 options

Scaffold(fake) == DefaultConfigScaffold(fake, DemoItems, DemoS3)
Files == Contents \cup {Scaffold(TRUE), Scaffold(FALSE)}

ASSUME SetupAssumption ==
    /\ IsFiniteSet(Contents)
    /\ None # Torn /\ {None, Torn} \cap Files = {}
    /\ \A raw \in Files : Decoded(raw)

VARIABLES
    file,       \* config.jsonc: None, Torn or its content
    vault,      \* whether vault.db exists, has a master password, an enc_id
    run,        \* what each process is doing
    wanted      \* history: the content the user last saved or agreed to;
                \* Torn after a crash in a write, or two writers at once

vars == <<file, vault, run, wanted>>


Idle == [pc |-> "idle", seen |-> None, agreed |-> FALSE, cfg |-> Missing,
         session |-> FALSE, source |-> None, dest |-> None, ok |-> FALSE]

Vaults == {v \in [exists : BOOLEAN, master : BOOLEAN, encId : BOOLEAN] :
               v.master \/ v.encId => v.exists}

Init ==
    /\ file \in {None} \cup Contents
    /\ vault \in {v \in Vaults : v.encId => v.master}
    /\ run = [p \in Procs |-> Idle]
    /\ wanted = file

Opened == [vault EXCEPT !.exists = TRUE]

\* Between truncating the file and having written it; nobody else is there.
Writing == {"initWriting", "lintWriting"}
Alone(p) == \A q \in Procs \ {p} : run[q].pc \notin Writing

Edit(raw) ==
    /\ file' = raw /\ wanted' = raw
    /\ UNCHANGED <<vault, run>>

-----------------------------------------------------------------------------
(* config init *)

\* Overwriting is asked for when a file is found.  The menu comes here too,
\* when it finds no file and the user asks for one.
InitAsks(p) ==
    /\ run[p].pc = "idle"
    /\ run' = [run EXCEPT ![p].pc = "initAsked", ![p].seen = file,
                          ![p].agreed = file # None]
    /\ UNCHANGED <<file, vault, wanted>>

\* os.WriteFile: the file is truncated first.
InitTruncates(p) ==
    /\ run[p].pc = "initAsked"
    /\ file' = Torn
    /\ wanted' = IF file = run[p].seen /\ Alone(p) THEN wanted ELSE Torn
    /\ run' = [run EXCEPT ![p].pc = "initWriting"]
    /\ UNCHANGED vault

InitWrites(p) ==
    /\ run[p].pc = "initWriting"
    /\ \E fake \in BOOLEAN :
           /\ file' = Scaffold(fake)
           /\ wanted' = IF file # Torn \/ ~Alone(p) THEN Torn
                        ELSE IF run[p].agreed \/ run[p].seen = None
                        THEN Scaffold(fake) ELSE wanted
    /\ run' = [run EXCEPT ![p].pc = "initVault", ![p].agreed = FALSE, ![p].seen = None]
    /\ UNCHANGED vault

\* Both scaffolds need a master.  One that exists is kept, or changed as
\* module Vault has it.
InitOpensVault(p) ==
    /\ run[p].pc = "initVault"
    /\ vault' = Opened
    /\ run' = [run EXCEPT ![p] = IF vault.master THEN Idle
                                 ELSE [Idle EXCEPT !.pc = "initMaster"]]
    /\ UNCHANGED <<file, wanted>>

InitCreatesMaster(p) ==
    /\ run[p].pc = "initMaster"
    /\ vault' = [exists |-> TRUE, master |-> TRUE, encId |-> TRUE]
    /\ run' = [run EXCEPT ![p] = Idle]
    /\ UNCHANGED <<file, wanted>>

-----------------------------------------------------------------------------
(* config lint and config validate *)

LintReads(p) ==
    /\ run[p].pc = "idle" /\ file \in Files
    /\ run' = [run EXCEPT ![p].pc = "lintRead", ![p].seen = file]
    /\ UNCHANGED <<file, vault, wanted>>

LintTruncates(p) ==
    /\ run[p].pc = "lintRead"
    /\ file' = Torn
    /\ wanted' = IF file = run[p].seen /\ Alone(p) THEN wanted ELSE Torn
    /\ run' = [run EXCEPT ![p].pc = "lintWriting"]
    /\ UNCHANGED vault

\* Mutant of LintWrites: the configuration is written, not the text.
LintWritesParsed(p) ==
    /\ run[p].pc = "lintWriting"
    /\ file' = Parse(run[p].seen)
    /\ wanted' = IF file = Torn /\ Alone(p) THEN wanted ELSE Torn
    /\ run' = [run EXCEPT ![p] = Idle]
    /\ UNCHANGED vault

\* Formatting moves white space only.
LintWrites(p) ==
    /\ run[p].pc = "lintWriting"
    /\ file' = run[p].seen
    /\ wanted' = IF file = Torn /\ Alone(p) THEN wanted ELSE Torn
    /\ run' = [run EXCEPT ![p] = Idle]
    /\ UNCHANGED vault

Validate(p) ==
    /\ run[p].pc = "idle"
    /\ run' = [run EXCEPT ![p].pc = "validated", ![p].seen = file,
                          ![p].ok = file \in Files /\ ValidateFile(file)]
    /\ UNCHANGED <<file, vault, wanted>>

-----------------------------------------------------------------------------
(* Loading, and unlocking the vault *)

\* loadConfigOrExit, RunMain, autonomous.Run: a file that is missing, torn or
\* refused ends the program.
Loads(p, command) ==
    /\ run[p].pc = "idle"
    /\ file \in Files /\ Load(file)
    /\ run' = [run EXCEPT ![p].pc = command, ![p].seen = file, ![p].cfg = Parse(file)]
    /\ UNCHANGED <<file, vault, wanted>>

\* The scheduler also wants schedules whose cron expressions parse.
LoadsSchedules(p) ==
    /\ Loads(p, "scheduler")
    /\ LET autonomous == Parse(file).autonomous
       IN  /\ autonomous # Missing
           /\ \A i \in DOMAIN autonomous : autonomous[i].cron = "parses"

Unlocking == {"menu", "secret", "scheduler"}

Running == [menu |-> "menuRuns", scheduler |-> "schedulerRuns"]

\* UnlockOrNull and unlockAutonomousSession with the right password.  The menu
\* and the scheduler go on, `secret` ends with its list or its wipe.
Enters(p, session) ==
    run' = [run EXCEPT ![p] = IF @.pc = "secret" THEN Idle
                              ELSE [@ EXCEPT !.pc = Running[run[p].pc],
                                             !.session = session]]

NoMasterNeeded(p) ==
    /\ run[p].pc \in Unlocking /\ ~NeedsMaster(run[p].cfg)
    /\ Enters(p, FALSE)
    /\ UNCHANGED <<file, vault, wanted>>

Unlocks(p) ==
    /\ run[p].pc \in Unlocking /\ NeedsMaster(run[p].cfg)
    /\ vault.master
    /\ vault' = [vault EXCEPT !.encId = TRUE]
    /\ Enters(p, TRUE)
    /\ UNCHANGED <<file, wanted>>

\* A wrong password, or a vault without a master: the vault is there
\* afterwards, with an enc_id when it has a master.  The scheduler ends, the
\* others ask again; giving up is Ends.
UnlockFails(p) ==
    /\ run[p].pc \in Unlocking /\ NeedsMaster(run[p].cfg)
    /\ vault' = [Opened EXCEPT !.encId = @ \/ vault.master]
    /\ run' = [run EXCEPT ![p] = IF @.pc = "scheduler" THEN Idle ELSE @]
    /\ UNCHANGED <<file, wanted>>

\* doctor.Run: vault.db must exist, have a master if one is needed and an
\* enc_id if dumps are encrypted.  It asks for no password.
DoctorOk(cfg) ==
    /\ vault.exists
    /\ NeedsMaster(cfg) => vault.master
    /\ cfg.encryptedDump => vault.encId

DoctorReports(p) ==
    /\ run[p].pc = "doctor"
    /\ run' = [run EXCEPT ![p].pc = "diagnosed", ![p].ok = DoctorOk(run[p].cfg)]
    /\ UNCHANGED <<file, vault, wanted>>

-----------------------------------------------------------------------------
(* The choice of databases by a running program *)

Keys(cfg) == {i.key : i \in ConfigItems(cfg)} \cup {<< >>}

Chosen(p, source, dest) ==
    /\ run' = [run EXCEPT ![p].source = source, ![p].dest = dest]
    /\ UNCHANGED <<file, vault, wanted>>

RequireItems(cfg, min) == Cardinality(ConfigItems(cfg)) >= min

ChooseDump(p) ==
    LET cfg == run[p].cfg
    IN  /\ run[p].pc = "menuRuns" /\ run[p].source = None /\ run[p].dest = None
        /\ RequireItems(cfg, 1)
        /\ \E key \in Keys(cfg) : \E source \in ResolveDatabaseItem(cfg, key, << >>) :
               Chosen(p, source, None)

ChooseRestore(p) ==
    LET cfg == run[p].cfg
    IN  /\ run[p].pc = "menuRuns" /\ run[p].source = None /\ run[p].dest = None
        /\ RequireItems(cfg, 1)
        /\ \E key \in Keys(cfg) : \E dest \in ResolveDatabaseTree(cfg, key, << >>) :
               Chosen(p, None, dest)

ChooseDumpRestore(p) ==
    LET cfg == run[p].cfg
    IN  /\ run[p].pc = "menuRuns" /\ run[p].source = None /\ run[p].dest = None
        /\ RequireItems(cfg, 2)
        /\ \E from, to \in Keys(cfg) :
               \E source \in ResolveDatabaseItem(cfg, from, << >>) :
                   \E dest \in ResolveDatabaseTree(cfg, to, source.key) :
                       Chosen(p, source, dest)

ScheduleDumps(p) ==
    /\ run[p].pc = "schedulerRuns" /\ run[p].source = None
    /\ \E i \in DOMAIN run[p].cfg.autonomous :
           \E item \in ItemsForSchedule(run[p].cfg, run[p].cfg.autonomous[i]) :
               Chosen(p, item, None)

\* Back to the menu, or to waiting for the clock.
ChoiceDone(p) ==
    /\ run[p].source # None \/ run[p].dest # None
    /\ Chosen(p, None, None)

\* Leaving, cancelling a prompt, or a crash.
Ends(p) ==
    /\ run[p].pc # "idle"
    /\ wanted' = IF run[p].pc \in Writing /\ file = Torn THEN Torn ELSE wanted
    /\ run' = [run EXCEPT ![p] = Idle]
    /\ UNCHANGED <<file, vault>>

Next ==
    \/ \E raw \in Contents : Edit(raw)
    \/ \E p \in Procs :
        \/ InitAsks(p) \/ InitTruncates(p) \/ InitWrites(p)
        \/ InitOpensVault(p) \/ InitCreatesMaster(p)
        \/ LintReads(p) \/ LintTruncates(p) \/ LintWrites(p)
        \/ Validate(p)
        \/ \E command \in {"menu", "secret", "doctor"} : Loads(p, command)
        \/ LoadsSchedules(p)
        \/ NoMasterNeeded(p) \/ Unlocks(p) \/ UnlockFails(p)
        \/ DoctorReports(p)
        \/ ChooseDump(p) \/ ChooseRestore(p) \/ ChooseDumpRestore(p)
        \/ ScheduleDumps(p) \/ ChoiceDone(p)
        \/ Ends(p)

Spec == Init /\ [][Next]_vars

-----------------------------------------------------------------------------
(* Properties *)

Items == UNION {ConfigItems(Parse(c)) : c \in Files}

\* Every variable stays in its range: an enc_id or a master only in a vault
\* that exists, a configuration only from a file that was whole.
TypeOK ==
    /\ file \in Files \cup {None, Torn} /\ wanted \in Files \cup {None, Torn}
    /\ vault \in Vaults
    /\ \A p \in Procs :
        /\ run[p].pc \in {"idle", "initAsked", "initWriting", "initVault", "initMaster",
                          "lintRead", "lintWriting", "validated", "doctor", "diagnosed",
                          "menu", "secret", "scheduler", "menuRuns", "schedulerRuns"}
        /\ run[p].seen \in Files \cup {None, Torn}
        /\ run[p].cfg # Missing => run[p].seen \in Files /\ run[p].cfg = Parse(run[p].seen)
        /\ {run[p].source, run[p].dest} \subseteq Items \cup {None}
        /\ {run[p].agreed, run[p].session, run[p].ok} \subseteq BOOLEAN

CanBeDialled(i) ==
    Missing \notin {i.host, i.user, i.database} /\ i.port \in 1..MaxPort

\* What the rest of the program takes from a loaded configuration, in states that
\* are all well typed: every database a key can lead to, children with what they
\* inherit included, can be dialled, S3 can be, and whoever encrypts dumps
\* remembers passwords and has entered the program with the key
\* (config/validate_strict.go, policy.go, app.go UnlockOrNull).
LoadedIsUsable ==
    /\ TypeOK
    /\ \A p \in Procs :
           LET cfg == run[p].cfg
           IN  cfg # Missing =>
               /\ \A i \in ConfigItems(cfg) : CanBeDialled(i)
               /\ cfg.s3Options # Missing => ~IncompleteS3(cfg.s3Options)
               /\ cfg.encryptedDump =>
                      /\ cfg.rememberPassword
                      /\ run[p].pc \in {"menuRuns", "schedulerRuns"} => run[p].session

\* Neither a key given by flag nor the picker leads a restore into a read-only
\* item, nor a sync back into the item it reads (config/policy.go, prompt.go).
DestinationAllowed ==
    \A p \in Procs :
        LET cfg == run[p].cfg
            dest == run[p].dest
        IN  dest # None =>
            /\ dest.nested \/ ~cfg.items[dest.key].readonly
            /\ run[p].source # None => dest.key # run[p].source.key

\* Passwords, dumps and flags go by the key, so a key must mean one database.
\* It does, unless a name in the file contains a colon (config.go:117).
KeysNameOneDatabase ==
    \A p \in Procs :
        LET cfg == run[p].cfg
            names == DOMAIN cfg.items
                     \cup UNION {DOMAIN cfg.items[k].items : k \in DOMAIN cfg.items}
        IN  cfg # Missing /\ (\A n \in names : Len(n) = 1) =>
            \A i, j \in ConfigItems(cfg) : i.key = j.key => i = j

\* No command changes what the file says behind the user's back: whenever
\* nobody is writing it, it is what the user last saved or agreed to, unless a
\* write was cut short or two writers met (initcmd/init.go, config/io.go).
FileIsWanted ==
    wanted = Torn \/ file = wanted \/ \E p \in Procs : run[p].pc \in Writing

\* `config validate` accepts exactly what the other commands load, and what
\* doctor finds well can be entered with the right password (doctor.go).
ReportsTrue ==
    [][\A p \in Procs :
        /\ Validate(p) => run'[p].ok = (file \in Files /\ Load(file))
        /\ DoctorReports(p) /\ run'[p].ok /\ NeedsMaster(Parse(run[p].seen)) =>
               vault.exists /\ vault.master]_vars
===============================================================================
