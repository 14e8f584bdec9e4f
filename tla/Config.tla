-------------------------------- MODULE Config --------------------------------
(***************************************************************************)
(* What a configuration file means (src/internal/config): which files are  *)
(* accepted, the configuration an accepted file stands for, and the        *)
(* databases a key or a picker leads to (src/internal/prompt).             *)
(*                                                                         *)
(* The content of a file is a record of its options, each one given or     *)
(* Missing; JSON and comments are left to the parser.  A name is the       *)
(* sequence of its parts between colons, because "%s:%s" joins names: the  *)
(* name "a:b" and the child b of a have the same key.  Go ranges over maps *)
(* in any order, so a lookup that returns the first match is the set of    *)
(* what it may return, empty for an error.                                 *)
(***************************************************************************)
EXTENDS Integers, Sequences, FiniteSets

CONSTANT
    Missing     \* an option that is not given; the empty string

-----------------------------------------------------------------------------
(* From the content of a file to a configuration *)

\* What decoding into the types Config, DatabaseEntry and ChildDatabase leaves:
\* each option is there, given or not, maps go by name, a port is an integer.
Decoded(raw) ==
    /\ DOMAIN raw = {"rememberPassword", "encryptedDump", "s3Options", "autonomous", "items"}
    /\ DOMAIN raw.items \subseteq Seq(STRING)
    /\ \A k \in DOMAIN raw.items :
           raw.items[k].port \in Int /\ DOMAIN raw.items[k].items \subseteq Seq(STRING)

\* An item or a child with a field the program does not know.
UnknownField(raw) ==
    \E k \in DOMAIN raw.items :
        \/ raw.items[k].extra
        \/ \E c \in DOMAIN raw.items[k].items : raw.items[k].items[c].extra

\* Unmarshalling, and the options that default to true when they are absent.
ParseS3(s3) ==
    IF s3 = Missing THEN Missing
    ELSE [s3 EXCEPT !.useHttps = @ # FALSE, !.forcePathStyle = @ # FALSE]

Parse(raw) ==
    [raw EXCEPT !.rememberPassword = @ # FALSE,
                !.encryptedDump    = @ = TRUE,
                !.s3Options        = ParseS3(@)]

MaxPort == 65535
PortOutOfRange(port) == port < 1 \/ port > MaxPort

\* Mutant of IncompleteEntry: children are not looked at.
IncompleteParent(entry) ==
    \/ entry.host = Missing \/ entry.user = Missing \/ entry.database = Missing
    \/ PortOutOfRange(entry.port)

IncompleteEntry(entry) ==
    \/ entry.host = Missing \/ entry.user = Missing \/ entry.database = Missing
    \/ PortOutOfRange(entry.port)
    \/ \E c \in DOMAIN entry.items : entry.items[c].database = Missing

IncompleteS3(s3) == Missing \in {s3.endpoint, s3.accessKey, s3.bucketName}

IncompleteAutonomous(schedules) ==
    \/ schedules = << >>
    \/ \E i \in DOMAIN schedules : schedules[i].cron = Missing

\* Whether ValidateConfig finds no issue.
ValidateConfig(cfg) ==
    /\ \A k \in DOMAIN cfg.items : ~IncompleteEntry(cfg.items[k])
    /\ cfg.s3Options # Missing => ~IncompleteS3(cfg.s3Options)
    /\ cfg.autonomous # Missing => ~IncompleteAutonomous(cfg.autonomous)

ValidateEncryptedDumpPolicy(cfg) == cfg.encryptedDump => cfg.rememberPassword

ParseJSONC(raw) == ~UnknownField(raw) /\ ValidateConfig(Parse(raw))

\* Mutant of ValidateFile: the policy on encrypted dumps is left to Load.
ValidateWithoutPolicy(raw) == ~UnknownField(raw) /\ ValidateConfig(Parse(raw))

\* Whether Load accepts a file, and whether `config validate` does: two
\* functions that repeat the same calls.
Load(raw) == ParseJSONC(raw) /\ ValidateEncryptedDumpPolicy(Parse(raw))

ValidateFile(raw) ==
    LET cfg == Parse(raw)
    IN  ~UnknownField(raw) /\ ValidateConfig(cfg) /\ ValidateEncryptedDumpPolicy(cfg)

NeedsMaster(cfg) ==
    cfg.rememberPassword \/ cfg.encryptedDump \/ cfg.s3Options # Missing

\* What `config init` writes, with every option given.
DefaultConfigScaffold(fakeData, demoItems, demoS3) ==
    [rememberPassword |-> TRUE, encryptedDump |-> FALSE, autonomous |-> Missing,
     s3Options |-> IF fakeData THEN demoS3 ELSE Missing,
     items     |-> IF fakeData THEN demoItems ELSE << >>]

-----------------------------------------------------------------------------
(* The databases of a configuration *)

TopItem(cfg, k) ==
    LET e == cfg.items[k]
    IN  [key |-> k, host |-> e.host, port |-> e.port, user |-> e.user,
         database |-> e.database, nested |-> FALSE, parent |-> << >>]

\* Mutant of ChildItem: the child's own name is its key.
ChildByItsName(cfg, k, c) ==
    LET e == cfg.items[k]
        child == e.items[c]
    IN  [key |-> c, host |-> e.host, port |-> e.port,
         user |-> IF child.user = Missing THEN e.user ELSE child.user,
         database |-> child.database, nested |-> TRUE, parent |-> k]

ChildItem(cfg, k, c) ==
    LET e == cfg.items[k]
        child == e.items[c]
    IN  [key |-> k \o c, host |-> e.host, port |-> e.port,
         user |-> IF child.user = Missing THEN e.user ELSE child.user,
         database |-> child.database, nested |-> TRUE, parent |-> k]

Children(cfg, k) == {ChildItem(cfg, k, c) : c \in DOMAIN cfg.items[k].items}

ConfigItems(cfg) ==
    UNION {{TopItem(cfg, k)} \cup Children(cfg, k) : k \in DOMAIN cfg.items}

\* The restore tree: a read-only item is shown, disabled, when it has children.
ConfigRestoreTreeItems(cfg) ==
    LET shown == {k \in DOMAIN cfg.items :
                      cfg.items[k].readonly => DOMAIN cfg.items[k].items # {}}
    IN  UNION {{[item |-> TopItem(cfg, k), disabled |-> cfg.items[k].readonly]}
               \cup {[item |-> i, disabled |-> FALSE] : i \in Children(cfg, k)}
               : k \in shown}

FindDatabaseItem(cfg, key) == {i \in ConfigItems(cfg) : i.key = key}

FindRestoreDestination(cfg, key) ==
    {o.item : o \in {t \in ConfigRestoreTreeItems(cfg) : t.item.key = key /\ ~t.disabled}}

GetParentItem(cfg, k) == IF k \in DOMAIN cfg.items THEN {TopItem(cfg, k)} ELSE {}

-----------------------------------------------------------------------------
(* Choosing a database: by a key given with a flag, or from a list *)

\* `exclude` is the key that may not be chosen, << >> for none.
SelectDatabaseItem(cfg, exclude) == {i \in ConfigItems(cfg) : i.key # exclude}

ResolveDatabaseItem(cfg, key, exclude) ==
    IF key = << >> THEN SelectDatabaseItem(cfg, exclude)
    ELSE IF key = exclude THEN {} ELSE FindDatabaseItem(cfg, key)

SelectDatabaseTree(cfg, exclude) ==
    {o.item : o \in {t \in ConfigRestoreTreeItems(cfg) :
                        t.item.key # exclude /\ ~t.disabled}}

\* Mutant of ResolveDatabaseTree: a key given by flag is looked up in the flat list.
ResolveFlagInList(cfg, key, exclude) ==
    IF key = << >> THEN SelectDatabaseTree(cfg, exclude)
    ELSE IF key = exclude THEN {} ELSE FindDatabaseItem(cfg, key)

ResolveDatabaseTree(cfg, key, exclude) ==
    IF key = << >> THEN SelectDatabaseTree(cfg, exclude)
    ELSE IF key = exclude THEN {} ELSE FindRestoreDestination(cfg, key)

\* The items of a schedule: all of them when it names none; an error, here
\* {}, as soon as it names one the configuration lacks.
ItemsForSchedule(cfg, schedule) ==
    IF schedule.items = {} THEN ConfigItems(cfg)
    ELSE IF \E k \in schedule.items : FindDatabaseItem(cfg, k) = {} THEN {}
    ELSE {i \in ConfigItems(cfg) : i.key \in schedule.items}
===============================================================================
