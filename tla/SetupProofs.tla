----------------------------- MODULE SetupProofs -----------------------------
(***************************************************************************)
(* Theorems about the life of config.jsonc, for any number of processes    *)
(* and any set of contents the user may write.                             *)
(***************************************************************************)
EXTENDS Setup, SequenceTheorems, TLAPS

-----------------------------------------------------------------------------
(* The inductive invariant                                                 *)

Pcs == {"idle", "initAsked", "initWriting", "initVault", "initMaster",
        "lintRead", "lintWriting", "validated", "doctor", "diagnosed",
        "menu", "secret", "scheduler", "menuRuns", "schedulerRuns"}

\* Those that have loaded a configuration, and those that work with it.
RunsOn  == {"menuRuns", "schedulerRuns"}
Loaded  == {"doctor", "diagnosed", "menu", "secret", "scheduler"} \cup RunsOn

Cfgs == {Parse(c) : c \in Files} \cup {Missing}
Runs == [pc : Pcs, seen : Files \cup {None, Torn}, agreed : BOOLEAN, cfg : Cfgs,
         session : BOOLEAN, source : Items \cup {None}, dest : Items \cup {None},
         ok : BOOLEAN]

\* A configuration is that of a file that was accepted.
CfgOK(r) ==
    /\ r.pc \notin Loaded => r.cfg = Missing
    /\ r.pc \in Loaded => r.seen \in Files /\ Load(r.seen) /\ r.cfg = Parse(r.seen)
    /\ r.pc \in RunsOn => r.session \/ ~NeedsMaster(r.cfg)

\* Only a running program has chosen, and what it chose is allowed.
DestOK(r) ==
    r.dest # None =>
        /\ r.dest.nested \/ ~r.cfg.items[r.dest.key].readonly
        /\ r.source # None => r.dest.key # r.source.key

ChoiceOK(r) ==
    /\ r.pc \notin RunsOn => r.source = None /\ r.dest = None
    /\ DestOK(r)

\* Who is about to write has read a whole file, or asked if there was one.
WriterOK(r) ==
    /\ r.pc \in {"initAsked", "initWriting"} => r.agreed = (r.seen # None)
    /\ r.pc \in {"lintRead", "lintWriting"} => r.seen \in Files

RunOK(r) ==
    /\ r \in Runs
    /\ r.pc = "idle" => r = Idle
    /\ CfgOK(r) /\ ChoiceOK(r) /\ WriterOK(r)

\* The file is what the user wants, or is just being written.
FileOrTorn ==
    wanted = Torn \/ file = wanted \/ (file = Torn /\ \E p \in Procs : run[p].pc \in Writing)

\* What `config lint` puts back is what the user wants.
LintRestores ==
    \A p \in Procs :
        run[p].pc = "lintWriting" /\ file = Torn => wanted \in {Torn, run[p].seen}

ProcsOK == run \in [Procs -> Runs] /\ \A p \in Procs : RunOK(run[p])
FileOK ==
    /\ file \in Files \cup {None, Torn} /\ wanted \in Files \cup {None, Torn}
    /\ vault \in Vaults

SetupInv == ProcsOK /\ FileOK /\ FileOrTorn /\ LintRestores

-----------------------------------------------------------------------------
(* Lemmas: files and their databases                                       *)

\* What parsing keeps, and what it makes of encryptedDump.
LEMMA Parsed ==
  ASSUME NEW raw \in Files
  PROVE  /\ Parse(raw).items = raw.items
         /\ Parse(raw).encryptedDump = (raw.encryptedDump = TRUE)
         /\ Parse(raw).rememberPassword = (raw.rememberPassword # FALSE)
BY SetupAssumption DEF Decoded, Parse

\* A file with a scaffold is a file.
LEMMA ScaffoldIsFile == \A fake \in BOOLEAN : Scaffold(fake) \in Files
BY DEF Files

\* `config validate` and the other commands make the same tests.
LEMMA SameTests == \A raw : ValidateFile(raw) = Load(raw)
BY DEF ValidateFile, Load, ParseJSONC

\* An item of a configuration is an entry of it, or a child of one.
LEMMA ItemIsEntryOrChild ==
  ASSUME NEW cfg, NEW i \in ConfigItems(cfg)
  PROVE  \E k \in DOMAIN cfg.items :
            \/ i = TopItem(cfg, k)
            \/ \E c \in DOMAIN cfg.items[k].items : i = ChildItem(cfg, k, c)
BY DEF ConfigItems, Children

\* What a restore is offered is an item, and not a read-only entry.
LEMMA OfferedIsAllowed ==
  ASSUME NEW cfg, NEW t \in ConfigRestoreTreeItems(cfg), ~t.disabled
  PROVE  /\ t.item \in ConfigItems(cfg)
         /\ t.item.nested \/ ~cfg.items[t.item.key].readonly
<1>1. PICK k \in DOMAIN cfg.items :
         \/ t = [item |-> TopItem(cfg, k), disabled |-> cfg.items[k].readonly]
         \/ \E i \in Children(cfg, k) : t = [item |-> i, disabled |-> FALSE]
  BY DEF ConfigRestoreTreeItems
<1>2. CASE t = [item |-> TopItem(cfg, k), disabled |-> cfg.items[k].readonly]
  <2>1. t.item = TopItem(cfg, k) /\ ~cfg.items[k].readonly
    BY <1>2
  <2>2. t.item.key = k
    BY <2>1 DEF TopItem
  <2> QED BY <2>1, <2>2 DEF ConfigItems
<1>3. CASE \E i \in Children(cfg, k) : t = [item |-> i, disabled |-> FALSE]
  <2>1. t.item \in Children(cfg, k)
    BY <1>3
  <2>2. t.item.nested = TRUE
    BY <2>1 DEF Children, ChildItem
  <2> QED BY <2>1, <2>2 DEF ConfigItems
<1> QED BY <1>1, <1>2, <1>3

\* However it is chosen, a destination is allowed, and not the key left out.
LEMMA DestinationIsAllowed ==
  ASSUME NEW cfg, NEW key, NEW exclude, NEW d \in ResolveDatabaseTree(cfg, key, exclude)
  PROVE  /\ d \in ConfigItems(cfg)
         /\ d.nested \/ ~cfg.items[d.key].readonly
         /\ d.key # exclude
<1>1. PICK t \in ConfigRestoreTreeItems(cfg) :
         ~t.disabled /\ t.item.key # exclude /\ d = t.item
  BY DEF ResolveDatabaseTree, SelectDatabaseTree, FindRestoreDestination
<1> QED BY <1>1, OfferedIsAllowed

\* However it is chosen, a source is an item, and so are those of a schedule.
LEMMA SourceIsItem ==
  ASSUME NEW cfg
  PROVE  /\ \A key, exclude : ResolveDatabaseItem(cfg, key, exclude) \subseteq ConfigItems(cfg)
         /\ \A schedule : ItemsForSchedule(cfg, schedule) \subseteq ConfigItems(cfg)
BY DEF ResolveDatabaseItem, SelectDatabaseItem, FindDatabaseItem, ItemsForSchedule

\* A port that is not refused is one.
LEMMA PortInRange == \A port \in Int : ~PortOutOfRange(port) => port \in 1..MaxPort
<1>1. MaxPort \in Int
  BY DEF MaxPort
<1> QED BY <1>1 DEF PortOutOfRange

\* Every item of an accepted file can be dialled: a child inherits its
\* entry's host and port, and its user when it has none.
LEMMA ItemsCanBeDialled ==
  ASSUME NEW raw \in Files, Load(raw), NEW i \in ConfigItems(Parse(raw))
  PROVE  CanBeDialled(i)
<1>1. PICK k \in DOMAIN Parse(raw).items :
         \/ i = TopItem(Parse(raw), k)
         \/ \E c \in DOMAIN Parse(raw).items[k].items : i = ChildItem(Parse(raw), k, c)
  BY ItemIsEntryOrChild
<1> DEFINE e == Parse(raw).items[k]
<1>2. ~IncompleteEntry(e)
  BY <1>1 DEF Load, ParseJSONC, ValidateConfig
<1>3. e.port \in Int
  BY <1>1, Parsed, SetupAssumption DEF Decoded
<1>4. /\ Missing \notin {e.host, e.user, e.database}
      /\ \A c \in DOMAIN e.items : e.items[c].database # Missing
      /\ ~PortOutOfRange(e.port)
  <2> HIDE DEF e
  <2> QED BY <1>2 DEF IncompleteEntry
<1>5. e.port \in 1..MaxPort
  <2> HIDE DEF e
  <2> QED BY <1>3, <1>4, PortInRange
<1>6. ASSUME i = TopItem(Parse(raw), k)
      PROVE  i.host = e.host /\ i.port = e.port /\ i.user = e.user /\ i.database = e.database
  BY <1>6 DEF TopItem
<1>7. ASSUME NEW c \in DOMAIN e.items, i = ChildItem(Parse(raw), k, c)
      PROVE  /\ i.host = e.host /\ i.port = e.port /\ i.database = e.items[c].database
             /\ i.user # Missing \/ i.user = e.user
  BY <1>7 DEF ChildItem
<1>8. /\ \/ i.host = e.host /\ i.user = e.user /\ i.database = e.database
         \/ /\ i.host = e.host /\ (i.user # Missing \/ i.user = e.user)
            /\ \E c \in DOMAIN e.items : i.database = e.items[c].database
      /\ i.port = e.port
  BY <1>1, <1>6, <1>7
<1>9. Missing \notin {i.host, i.user, i.database}
  <2> HIDE DEF e
  <2> QED BY <1>4, <1>8
<1> QED BY <1>5, <1>8, <1>9 DEF CanBeDialled

\* Names without a colon, and the key of a child.
Single == {n \in Seq(STRING) : Len(n) = 1}
Joined(k, c) == k \o c

\* What is in a key, of two names without a colon.
LEMMA JoinedNames ==
  ASSUME NEW k \in Single, NEW c \in Single
  PROVE  Len(Joined(k, c)) = 2 /\ Joined(k, c)[1] = k[1] /\ Joined(k, c)[2] = c[1]
<1>1. /\ k \in Seq(STRING) /\ c \in Seq(STRING)
      /\ Len(k) = 1 /\ Len(c) = 1
  BY DEF Single
<1>2. /\ Len(k \o c) = Len(k) + Len(c)
      /\ \A i \in 1 .. Len(k) + Len(c) :
             (k \o c)[i] = IF i <= Len(k) THEN k[i] ELSE c[i - Len(k)]
  BY <1>1, ConcatProperties
<1>3. Len(k \o c) = 2 /\ (k \o c)[1] = k[1] /\ (k \o c)[2] = c[1]
  BY <1>1, <1>2
<1> QED BY <1>3 DEF Joined

\* So two keys of them differ, from each other and from a name alone.
LEMMA JoinedNamesDiffer ==
  \A k, c, l, d \in Single :
      k # Joined(l, d) /\ (Joined(k, c) = Joined(l, d) => k = l /\ c = d)
<1> TAKE k, c, l, d \in Single
<1>1. Len(Joined(l, d)) = 2 /\ Len(k) = 1
  BY JoinedNames DEF Single
<1>2. ASSUME Joined(k, c) = Joined(l, d)
      PROVE  k[1] = l[1] /\ c[1] = d[1]
  BY <1>2, JoinedNames
<1>3. ASSUME k[1] = l[1] PROVE k = l
  BY <1>3, SeqEqual DEF Single
<1>4. ASSUME c[1] = d[1] PROVE c = d
  BY <1>4, SeqEqual DEF Single
<1> QED BY <1>1, <1>2, <1>3, <1>4

-----------------------------------------------------------------------------
(* Lemmas: what one process does                                           *)

\* A process that is idle is well.
LEMMA IdleOK == RunOK(Idle)
BY DEF RunOK, Runs, Idle, Pcs, Cfgs, CfgOK, ChoiceOK, DestOK, WriterOK, Loaded, RunsOn

\* What it keeps.
LEMMA IdleFields ==
  /\ Idle.pc = "idle" /\ Idle.cfg = Missing
  /\ Idle.source = None /\ Idle.dest = None
BY DEF Idle

\* A step that leaves a process well and the others alone.
LEMMA OneSteps ==
  ASSUME ProcsOK, NEW p \in Procs, NEW r, RunOK(r), run' = [run EXCEPT ![p] = r]
  PROVE  /\ ProcsOK' /\ run'[p] = r
         /\ \A q \in Procs \ {p} : run'[q] = run[q]
<1>1. r \in Runs
  BY DEF RunOK
<1>2. run' \in [Procs -> Runs] /\ run'[p] = r /\ \A q \in Procs \ {p} : run'[q] = run[q]
  BY <1>1 DEF ProcsOK
<1>3. \A q \in Procs : RunOK(run'[q])
  BY <1>2 DEF ProcsOK
<1> QED BY <1>2, <1>3 DEF ProcsOK, RunOK, CfgOK, ChoiceOK, DestOK, WriterOK

-----------------------------------------------------------------------------
(* Lemmas: the steps of a process, one by one                              *)

\* Nobody's process changes but one, which stays well; the file, the vault
\* and what is wanted are as they were, or still among what they may be.
Steps(p) ==
    /\ ProcsOK'
    /\ \A q \in Procs \ {p} : run'[q] = run[q]

\* config init.
LEMMA InitSteps ==
  ASSUME SetupInv, NEW p \in Procs,
         InitAsks(p) \/ InitTruncates(p) \/ InitWrites(p) \/ InitOpensVault(p)
             \/ InitCreatesMaster(p)
  PROVE  Steps(p)
<1> DEFINE r == run[p]
           s == run'[p]
<1>1. /\ ProcsOK /\ r \in Runs /\ RunOK(r)
      /\ file \in Files \cup {None, Torn}
  BY DEF SetupInv, ProcsOK, FileOK
<1>2. CASE InitAsks(p)
  <2> DEFINE n == [r EXCEPT !.pc = "initAsked", !.seen = file, !.agreed = file # None]
  <2>1. run' = [run EXCEPT ![p] = n]
    BY <1>1, <1>2 DEF InitAsks, ProcsOK
  <2>2. r = Idle
    BY <1>1, <1>2 DEF InitAsks, RunOK
  <2>3. /\ n \in Runs /\ n.pc = "initAsked" /\ n.cfg = Missing
        /\ n.source = None /\ n.dest = None /\ n.agreed = (n.seen # None)
    <3>1. n \in Runs
      BY <1>1 DEF Runs, Pcs
    <3>2. n.cfg = r.cfg /\ n.source = r.source /\ n.dest = r.dest
      BY <1>1 DEF Runs
    <3>3. n.pc = "initAsked" /\ n.agreed = (n.seen # None)
      BY <1>1 DEF Runs
    <3> HIDE DEF n
    <3> QED BY <2>2, <3>1, <3>2, <3>3, IdleFields
  <2>4. RunOK(n)
    <3> HIDE DEF n
    <3> QED BY <2>3 DEF RunOK, CfgOK, ChoiceOK, DestOK, WriterOK, Loaded, RunsOn
  <2> QED BY <1>1, <2>1, <2>4, OneSteps DEF Steps
<1>3. CASE InitTruncates(p)
  <2> DEFINE n == [r EXCEPT !.pc = "initWriting"]
  <2>1. run' = [run EXCEPT ![p] = n]
    BY <1>1, <1>3 DEF InitTruncates, ProcsOK
  <2>2. r.pc = "initAsked"
    BY <1>3 DEF InitTruncates
  <2>3. RunOK(n)
    BY <1>1, <2>2 DEF RunOK, Runs, Pcs, CfgOK, ChoiceOK, DestOK, WriterOK, Loaded, RunsOn
  <2> QED BY <1>1, <2>1, <2>3, OneSteps DEF Steps
<1>4. CASE InitWrites(p)
  <2> DEFINE n == [r EXCEPT !.pc = "initVault", !.agreed = FALSE, !.seen = None]
  <2>1. run' = [run EXCEPT ![p] = n]
    BY <1>1, <1>4 DEF InitWrites, ProcsOK
  <2>2. r.pc = "initWriting"
    BY <1>4 DEF InitWrites
  <2>3. RunOK(n)
    BY <1>1, <2>2 DEF RunOK, Runs, Pcs, CfgOK, ChoiceOK, DestOK, WriterOK, Loaded, RunsOn
  <2> QED BY <1>1, <2>1, <2>3, OneSteps DEF Steps
<1>5. CASE InitOpensVault(p)
  <2> DEFINE n == IF vault.master THEN Idle ELSE [Idle EXCEPT !.pc = "initMaster"]
  <2>1. run' = [run EXCEPT ![p] = n]
    BY <1>5 DEF InitOpensVault
  <2>2. RunOK(n)
    BY DEF RunOK, Runs, Pcs, Idle, CfgOK, ChoiceOK, DestOK, WriterOK, Loaded, RunsOn, Cfgs
  <2> QED BY <1>1, <2>1, <2>2, OneSteps DEF Steps
<1>6. CASE InitCreatesMaster(p)
  <2>1. run' = [run EXCEPT ![p] = Idle]
    BY <1>6 DEF InitCreatesMaster
  <2> QED BY <1>1, <2>1, IdleOK, OneSteps DEF Steps
<1> QED BY <1>2, <1>3, <1>4, <1>5, <1>6

\* config lint and config validate.
LEMMA LintSteps ==
  ASSUME SetupInv, NEW p \in Procs,
         LintReads(p) \/ LintTruncates(p) \/ LintWrites(p) \/ Validate(p)
  PROVE  Steps(p)
<1> DEFINE r == run[p]
<1>1. /\ ProcsOK /\ r \in Runs /\ RunOK(r)
      /\ file \in Files \cup {None, Torn}
  BY DEF SetupInv, ProcsOK, FileOK
<1>2. CASE LintReads(p)
  <2> DEFINE n == [r EXCEPT !.pc = "lintRead", !.seen = file]
  <2>1. run' = [run EXCEPT ![p] = n]
    BY <1>1, <1>2 DEF LintReads, ProcsOK
  <2>2. r = Idle /\ file \in Files
    BY <1>1, <1>2 DEF LintReads, RunOK
  <2>3. /\ n \in Runs /\ n.pc = "lintRead" /\ n.seen = file /\ n.cfg = Missing
        /\ n.source = None /\ n.dest = None
    BY <1>1, <2>2, IdleFields DEF Runs, Pcs
  <2>4. RunOK(n)
    <3> HIDE DEF n
    <3> QED BY <2>2, <2>3 DEF RunOK, CfgOK, ChoiceOK, DestOK, WriterOK, Loaded, RunsOn
  <2> QED BY <1>1, <2>1, <2>4, OneSteps DEF Steps
<1>3. CASE LintTruncates(p)
  <2> DEFINE n == [r EXCEPT !.pc = "lintWriting"]
  <2>1. run' = [run EXCEPT ![p] = n]
    BY <1>1, <1>3 DEF LintTruncates, ProcsOK
  <2>2. r.pc = "lintRead"
    BY <1>3 DEF LintTruncates
  <2>3. RunOK(n)
    BY <1>1, <2>2 DEF RunOK, Runs, Pcs, CfgOK, ChoiceOK, DestOK, WriterOK, Loaded, RunsOn
  <2> QED BY <1>1, <2>1, <2>3, OneSteps DEF Steps
<1>4. CASE LintWrites(p)
  <2>1. run' = [run EXCEPT ![p] = Idle]
    BY <1>4 DEF LintWrites
  <2> QED BY <1>1, <2>1, IdleOK, OneSteps DEF Steps
<1>5. CASE Validate(p)
  <2> DEFINE n == [r EXCEPT !.pc = "validated", !.seen = file,
                            !.ok = file \in Files /\ ValidateFile(file)]
  <2>1. run' = [run EXCEPT ![p] = n]
    BY <1>1, <1>5 DEF Validate, ProcsOK
  <2>2. r = Idle
    BY <1>1, <1>5 DEF Validate, RunOK
  <2>3. /\ n \in Runs /\ n.pc = "validated" /\ n.cfg = Missing
        /\ n.source = None /\ n.dest = None
    <3>1. n \in Runs
      BY <1>1 DEF Runs, Pcs
    <3>2. n.cfg = r.cfg /\ n.source = r.source /\ n.dest = r.dest
      BY <1>1 DEF Runs
    <3>3. n.pc = "validated"
      BY <1>1 DEF Runs
    <3> HIDE DEF n
    <3> QED BY <2>2, <3>1, <3>2, <3>3, IdleFields
  <2>4. RunOK(n)
    <3> HIDE DEF n
    <3> QED BY <2>3 DEF RunOK, CfgOK, ChoiceOK, DestOK, WriterOK, Loaded, RunsOn
  <2> QED BY <1>1, <2>1, <2>4, OneSteps DEF Steps
<1> QED BY <1>2, <1>3, <1>4, <1>5

\* Loading, unlocking and the doctor.
LEMMA LoadSteps ==
  ASSUME SetupInv, NEW p \in Procs,
         \/ \E command \in {"menu", "secret", "doctor"} : Loads(p, command)
         \/ LoadsSchedules(p) \/ NoMasterNeeded(p) \/ Unlocks(p) \/ UnlockFails(p)
         \/ DoctorReports(p)
  PROVE  Steps(p)
<1> DEFINE r == run[p]
<1>1. /\ ProcsOK /\ r \in Runs /\ RunOK(r)
      /\ file \in Files \cup {None, Torn}
  BY DEF SetupInv, ProcsOK, FileOK
<1>2. ASSUME NEW command \in {"menu", "secret", "doctor", "scheduler"}, Loads(p, command)
      PROVE  Steps(p)
  <2> DEFINE n == [r EXCEPT !.pc = command, !.seen = file, !.cfg = Parse(file)]
  <2>1. run' = [run EXCEPT ![p] = n]
    BY <1>1, <1>2 DEF Loads, ProcsOK
  <2>2. r = Idle /\ file \in Files /\ Load(file)
    BY <1>1, <1>2 DEF Loads, RunOK
  <2>3. /\ n \in Runs /\ n.pc = command /\ n.seen = file /\ n.cfg = Parse(file)
        /\ n.source = None /\ n.dest = None
    BY <1>1, <2>2, IdleFields DEF Runs, Pcs, Cfgs
  <2>4. RunOK(n)
    <3> HIDE DEF n
    <3> QED BY <2>2, <2>3 DEF RunOK, CfgOK, ChoiceOK, DestOK, WriterOK, Loaded, RunsOn
  <2> QED BY <1>1, <2>1, <2>4, OneSteps DEF Steps
<1>3. ASSUME NEW session \in BOOLEAN, r.pc \in Unlocking, Enters(p, session),
             session \/ ~NeedsMaster(r.cfg)
      PROVE  Steps(p)
  <2> DEFINE n == [r EXCEPT !.pc = Running[r.pc], !.session = session]
             m == IF r.pc = "secret" THEN Idle ELSE n
  <2>1. run' = [run EXCEPT ![p] = m]
    BY <1>1, <1>3 DEF Enters, ProcsOK
  <2>2. ASSUME r.pc # "secret" PROVE RunOK(n)
    <3>1. r.pc \in {"menu", "scheduler"} /\ Running[r.pc] \in RunsOn
      BY <1>3, <2>2 DEF Unlocking, Running, RunsOn
    <3>2. /\ n \in Runs /\ n.pc \in RunsOn /\ n.session = session
          /\ n.seen = r.seen /\ n.cfg = r.cfg /\ n.source = r.source /\ n.dest = r.dest
      BY <1>1, <3>1 DEF Runs, Pcs, RunsOn
    <3> HIDE DEF n
    <3> QED BY <1>1, <1>3, <3>1, <3>2
            DEF RunOK, CfgOK, ChoiceOK, DestOK, WriterOK, Loaded, RunsOn
  <2>3. RunOK(m)
    BY <2>2, IdleOK
  <2> QED BY <1>1, <2>1, <2>3, OneSteps DEF Steps
<1>4. CASE UnlockFails(p)
  <2> DEFINE n == IF r.pc = "scheduler" THEN Idle ELSE r
  <2>1. run' = [run EXCEPT ![p] = n]
    BY <1>1, <1>4 DEF UnlockFails, ProcsOK
  <2> QED BY <1>1, <2>1, IdleOK, OneSteps DEF Steps
<1>5. CASE DoctorReports(p)
  <2> DEFINE n == [r EXCEPT !.pc = "diagnosed", !.ok = DoctorOk(r.cfg)]
  <2>1. run' = [run EXCEPT ![p] = n]
    BY <1>1, <1>5 DEF DoctorReports, ProcsOK
  <2>2. r.pc = "doctor" /\ DoctorOk(r.cfg) \in BOOLEAN
    BY <1>5 DEF DoctorReports, DoctorOk
  <2>3. /\ n \in Runs /\ n.pc = "diagnosed" /\ n.seen = r.seen /\ n.cfg = r.cfg
        /\ n.source = r.source /\ n.dest = r.dest
    BY <1>1, <2>2 DEF Runs, Pcs
  <2>4. RunOK(n)
    <3> HIDE DEF n
    <3> QED BY <1>1, <2>2, <2>3
            DEF RunOK, CfgOK, ChoiceOK, DestOK, WriterOK, Loaded, RunsOn
  <2> QED BY <1>1, <2>1, <2>4, OneSteps DEF Steps
<1>6. CASE NoMasterNeeded(p)
  BY <1>3, <1>6 DEF NoMasterNeeded
<1>7. CASE Unlocks(p)
  BY <1>3, <1>7 DEF Unlocks
<1>8. CASE LoadsSchedules(p)
  BY <1>2, <1>8 DEF LoadsSchedules
<1> QED BY <1>2, <1>4, <1>5, <1>6, <1>7, <1>8

\* Choosing databases, and ending.
LEMMA ChoiceSteps ==
  ASSUME SetupInv, NEW p \in Procs,
         ChooseDump(p) \/ ChooseRestore(p) \/ ChooseDumpRestore(p) \/ ScheduleDumps(p)
             \/ ChoiceDone(p)
  PROVE  Steps(p)
<1> DEFINE r == run[p]
<1>1. ProcsOK /\ r \in Runs /\ RunOK(r)
  BY DEF SetupInv, ProcsOK
<1>2. ASSUME NEW source \in Items \cup {None}, NEW dest \in Items \cup {None},
             Chosen(p, source, dest),
             r.pc \in RunsOn \/ (source = None /\ dest = None),
             dest # None =>
                 /\ dest.nested \/ ~r.cfg.items[dest.key].readonly
                 /\ source # None => dest.key # source.key
      PROVE  Steps(p)
  <2> DEFINE n == [r EXCEPT !.source = source, !.dest = dest]
  <2>1. run' = [run EXCEPT ![p] = n]
    BY <1>1, <1>2 DEF Chosen, ProcsOK
  <2>2. /\ n \in Runs /\ n.pc = r.pc /\ n.source = source /\ n.dest = dest
        /\ n.cfg = r.cfg /\ n.seen = r.seen /\ n.session = r.session /\ n.agreed = r.agreed
    BY <1>1, <1>2 DEF Runs
  <2>3. RunOK(n)
    <3>1. CASE r.pc = "idle"
      <4>1. n = r
        BY <1>1, <1>2, <3>1, IdleFields DEF RunOK, Runs, RunsOn
      <4> QED BY <1>1, <4>1
    <3>2. CASE r.pc # "idle"
      <4> HIDE DEF n
      <4> QED BY <1>1, <1>2, <2>2, <3>2 DEF RunOK, CfgOK, ChoiceOK, DestOK, WriterOK
    <3> QED BY <3>1, <3>2
  <2> QED BY <1>1, <2>1, <2>3, OneSteps DEF Steps
<1>3. r.pc \in RunsOn => ConfigItems(r.cfg) \subseteq Items
  BY <1>1 DEF RunOK, CfgOK, Items, RunsOn, Loaded
<1>4. CASE ChooseDump(p)
  <2>1. PICK key \in Keys(r.cfg) : \E source \in ResolveDatabaseItem(r.cfg, key, << >>) :
               Chosen(p, source, None)
    BY <1>4 DEF ChooseDump
  <2>2. PICK source \in ConfigItems(r.cfg) : Chosen(p, source, None)
    BY <2>1, SourceIsItem
  <2>3. r.pc \in RunsOn
    BY <1>4 DEF ChooseDump, RunsOn
  <2> QED BY <1>2, <1>3, <2>2, <2>3
<1>5. CASE ChooseRestore(p)
  <2>1. PICK key \in Keys(r.cfg) : \E dest \in ResolveDatabaseTree(r.cfg, key, << >>) :
               Chosen(p, None, dest)
    BY <1>5 DEF ChooseRestore
  <2>2. PICK dest \in ConfigItems(r.cfg) :
           (dest.nested \/ ~r.cfg.items[dest.key].readonly) /\ Chosen(p, None, dest)
    BY <2>1, DestinationIsAllowed
  <2>3. r.pc \in RunsOn
    BY <1>5 DEF ChooseRestore, RunsOn
  <2> QED BY <1>2, <1>3, <2>1, <2>2, <2>3
<1>6. CASE ChooseDumpRestore(p)
  <2>1. PICK from \in Keys(r.cfg), to \in Keys(r.cfg) :
           \E source \in ResolveDatabaseItem(r.cfg, from, << >>) :
               \E dest \in ResolveDatabaseTree(r.cfg, to, source.key) : Chosen(p, source, dest)
    BY <1>6 DEF ChooseDumpRestore
  <2>2. PICK source \in ConfigItems(r.cfg) :
           \E dest \in ResolveDatabaseTree(r.cfg, to, source.key) : Chosen(p, source, dest)
    BY <2>1, SourceIsItem
  <2>3. PICK dest \in ConfigItems(r.cfg) :
           /\ dest.nested \/ ~r.cfg.items[dest.key].readonly
           /\ dest.key # source.key /\ Chosen(p, source, dest)
    BY <2>2, DestinationIsAllowed
  <2>4. r.pc \in RunsOn
    BY <1>6 DEF ChooseDumpRestore, RunsOn
  <2> QED BY <1>2, <1>3, <2>2, <2>3, <2>4
<1>7. CASE ScheduleDumps(p)
  <2>1. PICK i \in DOMAIN r.cfg.autonomous :
           \E item \in ItemsForSchedule(r.cfg, r.cfg.autonomous[i]) : Chosen(p, item, None)
    BY <1>7 DEF ScheduleDumps
  <2>2. PICK item \in ConfigItems(r.cfg) : Chosen(p, item, None)
    BY <2>1, SourceIsItem
  <2>3. r.pc \in RunsOn
    BY <1>7 DEF ScheduleDumps, RunsOn
  <2> QED BY <1>2, <1>3, <2>1, <2>2, <2>3
<1>8. CASE ChoiceDone(p)
  BY <1>2, <1>8 DEF ChoiceDone
<1> QED BY <1>4, <1>5, <1>6, <1>7, <1>8

\* To end is one of the steps of a process.
LEMMA EndSteps ==
  ASSUME SetupInv, NEW p \in Procs, Ends(p)
  PROVE  Steps(p)
<1>1. run' = [run EXCEPT ![p] = Idle]
  BY DEF Ends
<1> QED BY <1>1, IdleOK, OneSteps DEF Steps, SetupInv

-----------------------------------------------------------------------------
(* The inductive invariant                                                 *)

\* It holds at the start.
LEMMA InitInv == Init => SetupInv
<1> SUFFICES ASSUME Init PROVE SetupInv
  OBVIOUS
<1>1. ProcsOK
  BY IdleOK DEF Init, ProcsOK, RunOK
<1>2. \A p \in Procs : run[p].pc = "idle"
  BY IdleFields DEF Init
<1> QED BY <1>1, <1>2 DEF Init, SetupInv, FileOK, FileOrTorn, LintRestores, Files

\* The vault stays one that can be.
LEMMA VaultStays ==
  ASSUME SetupInv
  PROVE  /\ Opened \in Vaults
         /\ [Opened EXCEPT !.encId = @ \/ vault.master] \in Vaults
         /\ vault.master => [vault EXCEPT !.encId = TRUE] \in Vaults
         /\ [exists |-> TRUE, master |-> TRUE, encId |-> TRUE] \in Vaults
BY DEF SetupInv, FileOK, Vaults, Opened

\* A step that leaves the file and what is wanted alone, and starts or ends
\* no writing.
LEMMA FileAside ==
  ASSUME SetupInv, NEW p \in Procs, Steps(p), UNCHANGED <<file, wanted>>, vault' \in Vaults,
         run[p].pc \notin Writing, run'[p].pc \notin Writing
  PROVE  SetupInv'
<1>1. ProcsOK' /\ FileOK'
  BY DEF SetupInv, Steps, FileOK
<1>2. FileOrTorn'
  BY DEF SetupInv, FileOrTorn, Steps
<1>3. LintRestores'
  BY DEF SetupInv, LintRestores, Steps, Writing
<1> QED BY <1>1, <1>2, <1>3 DEF SetupInv

\* Truncating: whoever else is writing, what is wanted is not known any more.
LEMMA TruncatesFile ==
  ASSUME SetupInv, NEW p \in Procs, Steps(p), UNCHANGED vault,
         run[p].pc \in {"initAsked", "lintRead"},
         run'[p].pc \in Writing, run'[p].seen = run[p].seen,
         file' = Torn, wanted' = IF file = run[p].seen /\ Alone(p) THEN wanted ELSE Torn
  PROVE  SetupInv'
<1>1. ProcsOK' /\ FileOK'
  BY DEF SetupInv, Steps, FileOK
<1>2. FileOrTorn'
  BY DEF FileOrTorn
<1>3. ASSUME NEW q \in Procs, run'[q].pc = "lintWriting", wanted' # Torn
      PROVE  wanted' = run'[q].seen
  <2>1. file = run[p].seen /\ Alone(p) /\ wanted' = wanted
    BY <1>3
  <2>2. \A o \in Procs : run[o].pc \notin Writing
    BY <2>1 DEF Alone, Writing
  <2>3. q = p
    BY <1>3, <2>2 DEF Steps, Writing
  <2>4. wanted = file
    BY <1>3, <2>1, <2>2 DEF SetupInv, FileOrTorn
  <2> QED BY <2>1, <2>3, <2>4
<1>4. LintRestores'
  BY <1>3 DEF LintRestores
<1> QED BY <1>1, <1>2, <1>4 DEF SetupInv

\* Writing: what is written is what is wanted, or what is wanted is not known.
LEMMA FillsFile ==
  ASSUME SetupInv, NEW p \in Procs, Steps(p), UNCHANGED vault,
         run'[p].pc \notin Writing,
         file' \in Files, wanted' \in {file', Torn}
  PROVE  SetupInv'
<1>1. ProcsOK' /\ FileOK'
  BY DEF SetupInv, Steps, FileOK
<1>2. FileOrTorn'
  BY DEF FileOrTorn
<1>3. LintRestores'
  BY SetupAssumption DEF LintRestores
<1> QED BY <1>1, <1>2, <1>3 DEF SetupInv

\* config init keeps the invariant.
LEMMA InitKeeps ==
  ASSUME SetupInv, NEW p \in Procs,
         InitAsks(p) \/ InitTruncates(p) \/ InitWrites(p) \/ InitOpensVault(p)
             \/ InitCreatesMaster(p)
  PROVE  SetupInv'
<1>1. Steps(p)
  BY InitSteps
<1>2. run[p] \in Runs /\ RunOK(run[p]) /\ run \in [Procs -> Runs] /\ vault \in Vaults
  BY DEF SetupInv, ProcsOK, FileOK
<1>3. CASE InitAsks(p)
  <2>1. run'[p].pc = "initAsked" /\ vault' \in Vaults
    BY <1>2, <1>3 DEF InitAsks, Runs
  <2> QED BY <1>1, <1>3, <2>1, FileAside DEF InitAsks, Writing
<1>4. CASE InitTruncates(p)
  <2>1. run'[p].pc = "initWriting" /\ run'[p].seen = run[p].seen
    BY <1>2, <1>4 DEF InitTruncates, Runs
  <2> QED BY <1>1, <1>4, <2>1, TruncatesFile DEF InitTruncates, Writing
<1>5. CASE InitWrites(p)
  <2>1. run'[p].pc = "initVault"
    BY <1>2, <1>5 DEF InitWrites, Runs
  <2>2. run[p].agreed \/ run[p].seen = None
    BY <1>2, <1>5 DEF InitWrites, RunOK, WriterOK
  <2>3. file' \in Files /\ wanted' \in {file', Torn}
    BY <1>5, <2>2, ScaffoldIsFile DEF InitWrites
  <2> QED BY <1>1, <1>5, <2>1, <2>3, FillsFile DEF InitWrites, Writing
<1>6. CASE InitOpensVault(p)
  <2>1. run'[p].pc \in {"idle", "initMaster"}
    BY <1>2, <1>6, IdleFields DEF InitOpensVault, Idle
  <2> QED BY <1>1, <1>6, <2>1, VaultStays, FileAside DEF InitOpensVault, Writing
<1>7. CASE InitCreatesMaster(p)
  <2>1. run'[p].pc = "idle"
    BY <1>2, <1>7, IdleFields DEF InitCreatesMaster
  <2> QED BY <1>1, <1>7, <2>1, VaultStays, FileAside DEF InitCreatesMaster, Writing
<1> QED BY <1>3, <1>4, <1>5, <1>6, <1>7

\* config lint and config validate keep it.
LEMMA LintKeeps ==
  ASSUME SetupInv, NEW p \in Procs,
         LintReads(p) \/ LintTruncates(p) \/ LintWrites(p) \/ Validate(p)
  PROVE  SetupInv'
<1>1. Steps(p)
  BY LintSteps
<1>2. run[p] \in Runs /\ RunOK(run[p]) /\ run \in [Procs -> Runs] /\ vault \in Vaults
  BY DEF SetupInv, ProcsOK, FileOK
<1>3. CASE LintReads(p)
  <2>1. run'[p].pc = "lintRead" /\ vault' \in Vaults
    BY <1>2, <1>3 DEF LintReads, Runs
  <2> QED BY <1>1, <1>3, <2>1, FileAside DEF LintReads, Writing
<1>4. CASE LintTruncates(p)
  <2>1. run'[p].pc = "lintWriting" /\ run'[p].seen = run[p].seen
    BY <1>2, <1>4 DEF LintTruncates, Runs
  <2> QED BY <1>1, <1>4, <2>1, TruncatesFile DEF LintTruncates, Writing
<1>5. CASE LintWrites(p)
  <2>1. run'[p].pc = "idle"
    BY <1>2, <1>5, IdleFields DEF LintWrites
  <2>2. run[p].seen \in Files
    BY <1>2, <1>5 DEF LintWrites, RunOK, WriterOK
  <2>3. wanted' \in {run[p].seen, Torn}
    BY <1>5 DEF LintWrites, SetupInv, LintRestores
  <2> QED BY <1>1, <1>5, <2>1, <2>2, <2>3, FillsFile DEF LintWrites, Writing
<1>6. CASE Validate(p)
  <2>1. run'[p].pc = "validated" /\ vault' \in Vaults
    BY <1>2, <1>6 DEF Validate, Runs
  <2> QED BY <1>1, <1>6, <2>1, FileAside DEF Validate, Writing
<1> QED BY <1>3, <1>4, <1>5, <1>6

\* Loading, unlocking and the doctor keep it.
LEMMA LoadKeeps ==
  ASSUME SetupInv, NEW p \in Procs,
         \/ \E command \in {"menu", "secret", "doctor"} : Loads(p, command)
         \/ LoadsSchedules(p) \/ NoMasterNeeded(p) \/ Unlocks(p) \/ UnlockFails(p)
         \/ DoctorReports(p)
  PROVE  SetupInv'
<1>1. Steps(p)
  BY LoadSteps
<1>2. run[p] \in Runs /\ RunOK(run[p]) /\ run \in [Procs -> Runs] /\ vault \in Vaults
  BY DEF SetupInv, ProcsOK, FileOK
<1>3. ASSUME NEW command \in {"menu", "secret", "doctor", "scheduler"}, Loads(p, command)
      PROVE  SetupInv'
  <2>1. run'[p].pc = command /\ vault' \in Vaults
    BY <1>2, <1>3 DEF Loads, Runs
  <2> QED BY <1>1, <1>3, <2>1, FileAside DEF Loads, Writing
<1>4. ASSUME NEW session \in BOOLEAN, run[p].pc \in Unlocking, Enters(p, session)
      PROVE  run'[p].pc \in RunsOn \cup {"idle"}
  <2>1. CASE run[p].pc = "secret"
    BY <1>2, <1>4, <2>1, IdleFields DEF Enters
  <2>2. CASE run[p].pc # "secret"
    <3>1. Running[run[p].pc] \in RunsOn
      BY <1>4, <2>2 DEF Unlocking, Running, RunsOn
    <3>2. run'[p].pc = Running[run[p].pc]
      BY <1>2, <1>4, <2>2 DEF Enters, Runs
    <3> QED BY <3>1, <3>2
  <2> QED BY <2>1, <2>2
<1>5. CASE NoMasterNeeded(p)
  <2>1. run'[p].pc \in RunsOn \cup {"idle"} /\ vault' \in Vaults
    BY <1>2, <1>4, <1>5 DEF NoMasterNeeded
  <2> QED BY <1>1, <1>5, <2>1, FileAside DEF NoMasterNeeded, Unlocking, Writing, RunsOn
<1>6. CASE Unlocks(p)
  <2>1. run'[p].pc \in RunsOn \cup {"idle"} /\ vault' \in Vaults
    BY <1>4, <1>6, VaultStays DEF Unlocks
  <2> QED BY <1>1, <1>6, <2>1, FileAside DEF Unlocks, Unlocking, Writing, RunsOn
<1>7. CASE UnlockFails(p)
  <2>1. run'[p].pc \in Unlocking \cup {"idle"} /\ vault' \in Vaults
    BY <1>2, <1>7, VaultStays, IdleFields DEF UnlockFails
  <2> QED BY <1>1, <1>7, <2>1, FileAside DEF UnlockFails, Unlocking, Writing
<1>8. CASE DoctorReports(p)
  <2>1. run'[p].pc = "diagnosed" /\ vault' \in Vaults
    BY <1>2, <1>8 DEF DoctorReports, Runs
  <2> QED BY <1>1, <1>8, <2>1, FileAside DEF DoctorReports, Writing
<1>9. CASE LoadsSchedules(p)
  BY <1>3, <1>9 DEF LoadsSchedules
<1> QED BY <1>3, <1>5, <1>6, <1>7, <1>8, <1>9

\* Choosing databases keeps it.
LEMMA ChoiceKeeps ==
  ASSUME SetupInv, NEW p \in Procs,
         ChooseDump(p) \/ ChooseRestore(p) \/ ChooseDumpRestore(p) \/ ScheduleDumps(p)
             \/ ChoiceDone(p)
  PROVE  SetupInv'
<1>1. Steps(p)
  BY ChoiceSteps
<1>2. run[p] \in Runs /\ RunOK(run[p]) /\ run \in [Procs -> Runs] /\ vault \in Vaults
  BY DEF SetupInv, ProcsOK, FileOK
<1>3. \E source, dest : Chosen(p, source, dest)
  BY DEF ChooseDump, ChooseRestore, ChooseDumpRestore, ScheduleDumps, ChoiceDone
<1>4. run'[p].pc = run[p].pc /\ UNCHANGED <<file, vault, wanted>>
  BY <1>2, <1>3 DEF Chosen, Runs
<1>5. run[p].pc \in RunsOn
  BY <1>2 DEF ChooseDump, ChooseRestore, ChooseDumpRestore, ScheduleDumps, ChoiceDone,
              RunOK, ChoiceOK, RunsOn
<1> QED BY <1>1, <1>2, <1>4, <1>5, FileAside DEF RunsOn, Writing

\* Ending keeps it, in the middle of a write too.
LEMMA EndKeeps ==
  ASSUME SetupInv, NEW p \in Procs, Ends(p)
  PROVE  SetupInv'
<1>1. Steps(p)
  BY EndSteps
<1>2. run'[p].pc = "idle"
  BY IdleFields DEF Ends, SetupInv, ProcsOK
<1>3. ProcsOK' /\ FileOK'
  BY <1>1 DEF SetupInv, Steps, FileOK, Ends
<1>4. FileOrTorn'
  <2>1. CASE run[p].pc \in Writing
    BY <2>1 DEF Ends, SetupInv, FileOrTorn
  <2>2. CASE run[p].pc \notin Writing
    BY <1>1, <2>2 DEF Ends, SetupInv, FileOrTorn, Steps
  <2> QED BY <2>1, <2>2
<1>5. LintRestores'
  BY <1>1, <1>2 DEF Ends, SetupInv, LintRestores, Steps
<1> QED BY <1>3, <1>4, <1>5 DEF SetupInv

\* The user saving the file keeps it.
LEMMA EditKeeps ==
  ASSUME SetupInv, NEW raw \in Contents, Edit(raw)
  PROVE  SetupInv'
<1>1. /\ raw \in Files /\ raw # Torn
      /\ file' = raw /\ wanted' = raw /\ UNCHANGED <<vault, run>>
  BY SetupAssumption DEF Edit, Files
<1>2. ProcsOK' /\ FileOK'
  BY <1>1 DEF SetupInv, FileOK, ProcsOK, RunOK, CfgOK, ChoiceOK, DestOK, WriterOK
<1>3. FileOrTorn' /\ LintRestores'
  BY <1>1 DEF FileOrTorn, LintRestores
<1> QED BY <1>2, <1>3 DEF SetupInv

\* Every step keeps it.
LEMMA NextInv == SetupInv /\ [Next]_vars => SetupInv'
<1> SUFFICES ASSUME SetupInv, [Next]_vars PROVE SetupInv'
  OBVIOUS
<1>1. CASE \E raw \in Contents : Edit(raw)
  BY <1>1, EditKeeps
<1>2. CASE Next /\ ~\E raw \in Contents : Edit(raw)
  <2>1. PICK p \in Procs :
         \/ InitAsks(p) \/ InitTruncates(p) \/ InitWrites(p)
         \/ InitOpensVault(p) \/ InitCreatesMaster(p)
         \/ LintReads(p) \/ LintTruncates(p) \/ LintWrites(p)
         \/ Validate(p)
         \/ \E command \in {"menu", "secret", "doctor"} : Loads(p, command)
         \/ LoadsSchedules(p)
         \/ NoMasterNeeded(p) \/ Unlocks(p) \/ UnlockFails(p)
         \/ DoctorReports(p)
         \/ ChooseDump(p) \/ ChooseRestore(p) \/ ChooseDumpRestore(p)
         \/ ScheduleDumps(p) \/ ChoiceDone(p)
         \/ Ends(p)
    BY <1>2 DEF Next
  <2> QED BY <2>1, InitKeeps, LintKeeps, LoadKeeps, ChoiceKeeps, EndKeeps
<1>3. CASE UNCHANGED vars
  BY <1>3 DEF vars, SetupInv, ProcsOK, FileOK, FileOrTorn, LintRestores,
              RunOK, CfgOK, ChoiceOK, DestOK, WriterOK
<1> QED BY <1>1, <1>2, <1>3

\* Every reachable state satisfies the inductive invariant.
THEOREM SetupInvariant == Spec => []SetupInv
BY InitInv, NextInv, PTL DEF Spec

-----------------------------------------------------------------------------
(* What follows from it                                                    *)

\* Whatever files the user writes, and whichever commands run side by side: a
\* configuration that was loaded can be used, its databases dialled, its bucket
\* reached, and its dumps encrypted under a key that has been entered (io.go Load,
\* validate_strict.go).
THEOREM LoadedCanBeUsed == Spec => []LoadedIsUsable
<1>1. ASSUME SetupInv PROVE TypeOK
  <2>1. ASSUME NEW p \in Procs
        PROVE  /\ run[p].pc \in Pcs /\ run[p].seen \in Files \cup {None, Torn}
               /\ run[p].source \in Items \cup {None} /\ run[p].dest \in Items \cup {None}
               /\ run[p].agreed \in BOOLEAN /\ run[p].session \in BOOLEAN
               /\ run[p].ok \in BOOLEAN
    BY <1>1 DEF SetupInv, ProcsOK, Runs
  <2>2. ASSUME NEW p \in Procs, run[p].cfg # Missing
        PROVE  run[p].seen \in Files /\ run[p].cfg = Parse(run[p].seen)
    BY <1>1, <2>2 DEF SetupInv, ProcsOK, RunOK, CfgOK
  <2> QED BY <1>1, <2>1, <2>2 DEF TypeOK, SetupInv, FileOK, Pcs
<1>2. ASSUME SetupInv, NEW p \in Procs, run[p].cfg # Missing
      PROVE  LET cfg == run[p].cfg
             IN  /\ \A i \in ConfigItems(cfg) : CanBeDialled(i)
                 /\ cfg.s3Options # Missing => ~IncompleteS3(cfg.s3Options)
                 /\ cfg.encryptedDump =>
                        /\ cfg.rememberPassword
                        /\ run[p].pc \in {"menuRuns", "schedulerRuns"} => run[p].session
  <2> DEFINE raw == run[p].seen
  <2>1. /\ raw \in Files /\ Load(raw) /\ run[p].cfg = Parse(raw)
        /\ run[p].pc \in RunsOn => run[p].session \/ ~NeedsMaster(run[p].cfg)
    BY <1>2 DEF SetupInv, ProcsOK, RunOK, CfgOK
  <2>2. /\ Parse(raw).s3Options # Missing => ~IncompleteS3(Parse(raw).s3Options)
        /\ Parse(raw).encryptedDump => Parse(raw).rememberPassword
    BY <2>1 DEF Load, ParseJSONC, ValidateConfig, ValidateEncryptedDumpPolicy
  <2>3. \A i \in ConfigItems(Parse(raw)) : CanBeDialled(i)
    BY <2>1, ItemsCanBeDialled
  <2>4. ASSUME Parse(raw).encryptedDump PROVE NeedsMaster(Parse(raw))
    BY <2>4 DEF NeedsMaster
  <2> HIDE DEF raw
  <2> QED BY <2>1, <2>2, <2>3, <2>4 DEF RunsOn
<1>3. SetupInv => LoadedIsUsable
  BY <1>1, <1>2 DEF LoadedIsUsable
<1> QED BY <1>3, SetupInvariant, PTL

\* No restore into a read-only item, no sync into what it reads, for any
\* configuration and any keys given by flag (policy.go FindRestoreDestination, config.go
\* ConfigRestoreTreeItems).
THEOREM DestinationsAreAllowed == Spec => []DestinationAllowed
<1>1. SetupInv => DestinationAllowed
  BY DEF SetupInv, ProcsOK, RunOK, ChoiceOK, DestOK, DestinationAllowed
<1> QED BY <1>1, SetupInvariant, PTL

\* Without a colon in a name, the keys of any accepted file tell its
\* databases apart (config.go ConfigItems).
THEOREM KeysTellDatabasesApart == Spec => []KeysNameOneDatabase
<1>1. ASSUME NEW raw \in Files,
             \A n \in DOMAIN Parse(raw).items
                  \cup UNION {DOMAIN Parse(raw).items[k].items :
                              k \in DOMAIN Parse(raw).items} : Len(n) = 1,
             NEW i \in ConfigItems(Parse(raw)), NEW j \in ConfigItems(Parse(raw)),
             i.key = j.key
      PROVE  i = j
  <2> DEFINE cfg == Parse(raw)
  <2>1. /\ DOMAIN cfg.items \subseteq Seq(STRING)
        /\ \A k \in DOMAIN cfg.items : DOMAIN cfg.items[k].items \subseteq Seq(STRING)
    BY Parsed, SetupAssumption DEF Decoded
  <2>2. \A k \in DOMAIN cfg.items :
           k \in Single /\ \A c \in DOMAIN cfg.items[k].items : c \in Single
    BY <1>1, <2>1 DEF Single
  <2>3. \A k, c : TopItem(cfg, k).key = k /\ ChildItem(cfg, k, c).key = Joined(k, c)
    BY DEF TopItem, ChildItem, Joined
  <2> HIDE DEF cfg
  <2>4. PICK k \in DOMAIN cfg.items :
           i = TopItem(cfg, k) \/ \E c \in DOMAIN cfg.items[k].items : i = ChildItem(cfg, k, c)
    BY <1>1, ItemIsEntryOrChild DEF cfg
  <2>5. PICK l \in DOMAIN cfg.items :
           j = TopItem(cfg, l) \/ \E d \in DOMAIN cfg.items[l].items : j = ChildItem(cfg, l, d)
    BY <1>1, ItemIsEntryOrChild DEF cfg
  <2>6. CASE i = TopItem(cfg, k) /\ j = TopItem(cfg, l)
    BY <1>1, <2>3, <2>6
  <2>7. ASSUME NEW d \in DOMAIN cfg.items[l].items,
               i = TopItem(cfg, k), j = ChildItem(cfg, l, d)
        PROVE  FALSE
    <3>1. k = Joined(l, d)
      BY <1>1, <2>3, <2>7
    <3> QED BY <2>2, <2>7, <3>1, JoinedNamesDiffer
  <2>8. ASSUME NEW c \in DOMAIN cfg.items[k].items,
               i = ChildItem(cfg, k, c), j = TopItem(cfg, l)
        PROVE  FALSE
    <3>1. l = Joined(k, c)
      BY <1>1, <2>3, <2>8
    <3> QED BY <2>2, <2>8, <3>1, JoinedNamesDiffer
  <2>9. ASSUME NEW c \in DOMAIN cfg.items[k].items, NEW d \in DOMAIN cfg.items[l].items,
               i = ChildItem(cfg, k, c), j = ChildItem(cfg, l, d)
        PROVE  i = j
    <3>1. Joined(k, c) = Joined(l, d)
      BY <1>1, <2>3, <2>9
    <3>2. k = l /\ c = d
      BY <2>2, <2>9, <3>1, JoinedNamesDiffer
    <3> QED BY <2>9, <3>2
  <2> QED BY <2>4, <2>5, <2>6, <2>7, <2>8, <2>9
<1>2. ASSUME SetupInv PROVE KeysNameOneDatabase
  <2>1. ASSUME NEW p \in Procs, run[p].cfg # Missing
        PROVE  run[p].seen \in Files /\ run[p].cfg = Parse(run[p].seen)
    BY <1>2, <2>1 DEF SetupInv, ProcsOK, RunOK, CfgOK
  <2> QED BY <1>1, <2>1 DEF KeysNameOneDatabase
<1> QED BY <1>2, SetupInvariant, PTL

\* Whatever is run, and cut short at any point: the file holds what the user
\* last saved or agreed to, or somebody is writing it, or a write was cut
\* short or met another (io.go Write, LintFile).
THEOREM FileStaysWanted == Spec => []FileIsWanted
<1>1. SetupInv => FileIsWanted
  BY DEF SetupInv, FileOrTorn, FileIsWanted
<1> QED BY <1>1, SetupInvariant, PTL

\* `config validate` and doctor tell the truth about any file.
Truths ==
    \A p \in Procs :
        /\ Validate(p) => run'[p].ok = (file \in Files /\ Load(file))
        /\ DoctorReports(p) /\ run'[p].ok /\ NeedsMaster(Parse(run[p].seen)) =>
               vault.exists /\ vault.master

\* config validate accepts what the other commands load, and what doctor finds
\* well has the master password that entering takes (io.go ValidateFile, doctor.go
\* Run).
THEOREM ReportsAreTrue == Spec => ReportsTrue
<1>1. ASSUME SetupInv, NEW p \in Procs, Validate(p)
      PROVE  run'[p].ok = (file \in Files /\ Load(file))
  <2>1. run'[p].ok = (file \in Files /\ ValidateFile(file))
    BY <1>1 DEF SetupInv, ProcsOK, Validate, Runs
  <2> QED BY <2>1, SameTests
<1>2. ASSUME SetupInv, NEW p \in Procs, DoctorReports(p), run'[p].ok,
             NeedsMaster(Parse(run[p].seen))
      PROVE  vault.exists /\ vault.master
  <2>1. run'[p].ok = DoctorOk(run[p].cfg)
    BY <1>2 DEF SetupInv, ProcsOK, DoctorReports, Runs
  <2>2. run[p].cfg = Parse(run[p].seen)
    BY <1>2 DEF SetupInv, ProcsOK, RunOK, CfgOK, DoctorReports, Loaded
  <2> QED BY <1>2, <2>1, <2>2 DEF DoctorOk
<1>3. SetupInv /\ [Next]_vars => [Truths]_vars
  BY <1>1, <1>2 DEF Truths
<1>4. [][Truths]_vars => ReportsTrue
  BY PTL DEF ReportsTrue, Truths
<1> QED BY <1>3, <1>4, SetupInvariant, PTL DEF Spec
===============================================================================
