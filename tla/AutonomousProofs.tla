--------------------------- MODULE AutonomousProofs ---------------------------
(***************************************************************************)
(* Theorems about the scheduler, for any number of schedules, items, jobs, *)
(* seconds and changes of master.                                          *)
(***************************************************************************)
EXTENDS Autonomous, TLAPS

-----------------------------------------------------------------------------
(* The inductive invariant                                                 *)

\* Where a job is tells what it has: a schedule once it is started, an item while
\* it works on one, and outcomes for the items it is through with.
JobOrder ==
    \A j \in Jobs :
        /\ pc[j] # "free" => sched[j] \in Schedules
        /\ pc[j] \in {"free", "start"} =>
              named[j] = {} /\ \A i \in Items : outcome[j][i] = "none"
        /\ pc[j] = "verify" => cur[j] \in Items \X {None}
        /\ pc[j] \in Working \ {"verify"} => cur[j] \in named[j]

\* Of the items a job selected, one has an outcome unless it is still to do or is
\* the one being worked on.
ItemsCounted ==
    \A j \in Jobs :
        /\ pc[j] \in {"item"} \cup Working => todo[j] \subseteq Selected[sched[j]]
        /\ pc[j] = "item" => \A i \in Items :
              outcome[j][i] # "none" <=> i \in Selected[sched[j]] \ todo[j]
        /\ pc[j] \in Working =>
              /\ cur[j][1] \in Selected[sched[j]] \ todo[j]
              /\ \A i \in Items : outcome[j][i] # "none" <=>
                     i \in Selected[sched[j]] \ (todo[j] \cup {cur[j][1]})

Waiting == {"idle", "read", "failed"}

\* Until a new key is published no change of master has come to write anything.
Untouched ==
    /\ vaultKey >= session
    /\ vaultKey = session => change \in Waiting

\* Once a job has started late, the rows under the session's key are those saved with
\* it again, and a late job works on no other item.
LateReadsResaved ==
    /\ late # {} => Replaced
    /\ \A j \in late : pc[j] \in Working => cur[j][1] \in resaved

\* As long as no other job drew its name and the master is unchanged, the file a
\* job is about to hand on is a complete one of its own.
FileComplete(j) ==
    /\ pc[j] = "dumping" => plainFile[cur[j]] # None
    /\ pc[j] = "upload" =>
          IF encryptedDump THEN encFile[cur[j]] = session ELSE plainFile[cur[j]] = Whole

FilesOwned == vaultKey = session => \A j \in Jobs : ~Clash(j) => FileComplete(j)

\* Only a run with encryptedDump encrypts.
EncryptsWhenAsked == \A j \in Jobs : pc[j] \in {"encrypt", "enc_write"} => encryptedDump

-----------------------------------------------------------------------------
(* What moves what                                                         *)

\* The steps that are no job's: the run as a whole, and the other processes.
Aside ==
    \/ Stopped \/ OnceEnds \/ Signal \/ Tick
    \/ MenuChange \/ OtherChange \/ OtherStep

\* A job begins, fired by cron or as the next one of --once.
Started(j, s) ==
    /\ mode = "running"
    /\ Launch(j, s)
    /\ fired' \in {fired, [fired EXCEPT ![s] = second]}
    /\ UNCHANGED <<second, mode, config, vault, changer, files>>

\* Every step is aside, starts a job or is a job's own.
LEMMA NextCases ==
    ASSUME Next
    PROVE  \/ Aside
           \/ \E j \in Jobs, s \in Schedules : Started(j, s)
           \/ \E j \in Jobs : JobStep(j)
<1>1. ASSUME NEW j \in Jobs, NEW s \in Schedules, Fire(j, s) \/ RunNext(j, s)
      PROVE  Started(j, s)
  BY <1>1 DEF Fire, RunNext, Started
<1> QED
  BY <1>1 DEF Next, Daemon, RunStep, Aside

\* Steps aside leave the jobs, the plain files and the bucket as they are.
LEMMA AsideKeeps ==
    ASSUME Aside
    PROVE  UNCHANGED <<config, jobs, plainFile, object>>
<1> USE DEF config, jobs, vault, changer, files
<1>1. CASE Stopped \/ OnceEnds \/ Signal \/ Tick
  BY <1>1 DEF Stopped, OnceEnds, Signal, Tick
<1>2. CASE ChangePublish \/ ListDumps \/ RewriteEnds
  BY <1>2 DEF ChangePublish, ListDumps, RewriteEnds
<1>3. CASE RewriteDone \/ LeaveDumps \/ ChangeStops
  BY <1>3 DEF RewriteDone, LeaveDumps, ChangeStops, ChangeOver
<1>4. CASE \E i \in Items : ChangeRow(i)
  BY <1>4 DEF ChangeRow
<1>5. CASE \E p \in Paths : RewriteBegins(p) \/ RewriteRefused(p) \/ Overlook(p)
  BY <1>5 DEF RewriteBegins, RewriteRefused, Overlook, ChangeOver
<1>6. CASE \E k \in 1..vaultKey, S \in SUBSET Items : ReadRows(k, S)
  BY <1>6 DEF ReadRows
<1>7. CASE OtherStep
  BY <1>7 DEF OtherStep, SavePassword, WipePassword, SaveS3
<1>8. CASE MenuChange
  BY <1>2, <1>3, <1>4, <1>5, <1>8 DEF MenuChange, ReadRows
<1> QED
  BY <1>1, <1>3, <1>5, <1>6, <1>7, <1>8 DEF Aside, OtherChange

\* The other processes leave the run alone; keys only grow, nothing is written before
\* a key is published, and an old one comes to a row by a save with it only.
LEMMA OthersKeep ==
    ASSUME TypeOK, MenuChange \/ OtherChange \/ OtherStep
    PROVE  /\ UNCHANGED mode
           /\ vaultKey' \in {vaultKey, vaultKey + 1}
           /\ vaultKey' = vaultKey /\ change \in Waiting =>
                 change' \in Waiting /\ encFile' = encFile
           /\ resaved \subseteq resaved'
           /\ \A i \in Items : rowKey'[i] = session =>
                 \/ rowKey[i] = session \/ vaultKey = session
                 \/ i \in resaved'
<1> USE AutonomousAssumption DEF vault, changer, files, Waiting
<1>0. vaultKey \in Nat
  BY DEF TypeOK
<1>1. CASE ChangePublish \/ ListDumps \/ RewriteEnds
  BY <1>0, <1>1 DEF ChangePublish, ListDumps, RewriteEnds
<1>2. CASE RewriteDone \/ LeaveDumps \/ ChangeStops
  BY <1>2 DEF RewriteDone, LeaveDumps, ChangeStops, ChangeOver
<1>3. CASE \E i \in Items : ChangeRow(i)
  BY <1>3 DEF ChangeRow
<1>4. CASE \E p \in Paths : RewriteBegins(p) \/ RewriteRefused(p) \/ Overlook(p)
  BY <1>4 DEF RewriteBegins, RewriteRefused, Overlook, ChangeOver
<1>5. CASE \E k \in 1..vaultKey, S \in SUBSET Items : ReadRows(k, S)
  BY <1>5 DEF ReadRows
<1>6. ASSUME NEW x \in Items, NEW k \in 1..vaultKey, SavePassword(x, k)
      PROVE  /\ UNCHANGED <<mode, vaultKey, change, encFile>> /\ resaved \subseteq resaved'
             /\ \A i \in Items : rowKey'[i] = session =>
                   rowKey[i] = session \/ vaultKey = session \/ i \in resaved'
  BY <1>6 DEF SavePassword
<1>7. ASSUME NEW x \in Items, WipePassword(x)
      PROVE  /\ UNCHANGED <<mode, vaultKey, change, encFile>> /\ resaved \subseteq resaved'
             /\ \A i \in Items : rowKey'[i] = session => rowKey[i] = session
  BY <1>7 DEF WipePassword, session
<1>8. CASE \E k \in 1..vaultKey : SaveS3(k)
  BY <1>8 DEF SaveS3
<1>9. CASE MenuChange
  BY <1>1, <1>2, <1>3, <1>4, <1>9 DEF MenuChange, ReadRows
<1>10. CASE OtherStep
  BY <1>6, <1>7, <1>8, <1>10 DEF OtherStep
<1> QED
  BY <1>2, <1>4, <1>5, <1>9, <1>10 DEF OtherChange

\* The steps of a job leave the run, the vault and the other process alone.
LEMMA JobStepKeeps ==
    ASSUME NEW k \in Jobs, JobStep(k)
    PROVE  UNCHANGED <<mode, config, vault, changer>>
<1> USE DEF Rest
<1>1. CASE ScheduleFails(k) \/ BeginItems(k) \/ EndItems(k)
  BY <1>1 DEF ScheduleFails, BeginItems, EndItems
<1>2. CASE \E i \in Items : ReadPassword(k, i) \/ RefuseItem(k, i)
  BY <1>2 DEF ReadPassword, RefuseItem
<1>3. CASE NameDump(k) \/ PgDumpEnds(k) \/ EncryptBegins(k) \/ EncryptEnds(k)
  BY <1>3 DEF NameDump, PgDumpEnds, EncryptBegins, EncryptEnds
<1>4. CASE Upload(k) \/ ItemFails(k)
  BY <1>4 DEF Upload, ItemFails
<1> QED
  BY <1>1, <1>2, <1>3, <1>4 DEF JobStep

\* The types of what finishing an item, or handing its file on, changes.
JobTypes ==
    /\ pc \in [Jobs -> {"free", "start", "item", "done", "failed"} \cup Working]
    /\ cur \in [Jobs -> Paths \cup (Items \X {None}) \cup {None}]
    /\ \A j \in Jobs : pc[j] \in Working \ {"verify"} => cur[j] \in Paths
    /\ outcome \in [Jobs -> [Items -> {"none", "ok", "failed"}]]

\* Finishing an item keeps them.
LEMMA FinishTyped ==
    ASSUME JobTypes, NEW k \in Jobs, NEW what \in {"ok", "failed"}, Finish(k, what)
    PROVE  JobTypes'
<1>1. outcome' \in [Jobs -> [Items -> {"none", "ok", "failed"}]]
  BY DEF Finish, JobTypes
<1>2. QED
  BY <1>1 DEF Finish, JobTypes, Working

\* So does handing its file on.
LEMMA AfterFileTyped ==
    ASSUME JobTypes, NEW k \in Jobs, cur[k] \in Paths, AfterFile(k)
    PROVE  JobTypes'
<1>1. CASE sched[k] \in Uploads
  BY <1>1 DEF AfterFile, JobTypes, Working
<1>2. CASE sched[k] \notin Uploads
  BY <1>2, FinishTyped DEF AfterFile
<1>3. QED
  BY <1>1, <1>2

-----------------------------------------------------------------------------
(* Each part of the invariant is kept                                      *)

\* Every step keeps the types.
LEMMA StepTyped ==
    ASSUME TypeOK, JobOrder, Next
    PROVE  TypeOK'
<1> USE AutonomousAssumption DEF Rest, config, jobs, vault, changer, files, session
<1>1. CASE Stopped
  BY <1>1 DEF Stopped, TypeOK
<1>2. CASE OnceEnds
  BY <1>2 DEF OnceEnds, TypeOK
<1>3. CASE Signal
  BY <1>3 DEF Signal, TypeOK
<1>4. CASE Tick
  BY <1>4 DEF Tick, TypeOK
<1>5. CASE ChangePublish
  BY <1>5 DEF ChangePublish, TypeOK
<1>6. CASE ListDumps
  BY <1>6 DEF ListDumps, TypeOK
<1>7. CASE RewriteEnds
  BY <1>7 DEF RewriteEnds, TypeOK
<1>8. CASE RewriteDone \/ LeaveDumps \/ ChangeStops
  BY <1>8 DEF RewriteDone, LeaveDumps, ChangeStops, ChangeOver, TypeOK
<1>9. ASSUME NEW x \in Items, ChangeRow(x) PROVE TypeOK'
  BY <1>9 DEF ChangeRow, TypeOK
<1>10. ASSUME NEW q \in Paths, RewriteBegins(q) PROVE TypeOK'
  BY <1>10 DEF RewriteBegins, TypeOK
<1>11. ASSUME NEW q \in Paths, RewriteRefused(q) PROVE TypeOK'
  BY <1>11 DEF RewriteRefused, ChangeOver, TypeOK
<1>12. ASSUME NEW q \in Paths, Overlook(q) PROVE TypeOK'
  BY <1>12 DEF Overlook, TypeOK
<1>13. CASE OtherStep
  <2>1. ASSUME NEW x \in Items, NEW n \in 1..vaultKey, SavePassword(x, n) PROVE TypeOK'
    BY <2>1 DEF SavePassword, TypeOK
  <2>2. ASSUME NEW x \in Items, WipePassword(x) PROVE TypeOK'
    BY <2>2 DEF WipePassword, TypeOK
  <2>3. ASSUME NEW n \in 1..vaultKey, SaveS3(n) PROVE TypeOK'
    BY <2>3 DEF SaveS3, TypeOK
  <2> QED
    BY <1>13, <2>1, <2>2, <2>3 DEF OtherStep
<1>14. ASSUME NEW k \in Jobs, NEW s \in Schedules, Started(k, s) PROVE TypeOK'
  <2>1. fired' \in [Schedules -> Nat \cup {None}]
    BY <1>14 DEF Started, TypeOK
  <2> QED
    BY <1>14, <2>1 DEF Started, Launch, TypeOK, Working
<1>15. ASSUME NEW k \in Jobs, ScheduleFails(k) PROVE TypeOK'
  BY <1>15 DEF ScheduleFails, TypeOK, Working
<1>16. ASSUME NEW k \in Jobs, BeginItems(k) PROVE TypeOK'
  BY <1>16 DEF BeginItems, TypeOK, JobOrder, Working
<1>17. ASSUME NEW k \in Jobs, EndItems(k) PROVE TypeOK'
  BY <1>17 DEF EndItems, TypeOK, Working
<1>18. ASSUME NEW k \in Jobs, NEW x \in Items, ReadPassword(k, x) PROVE TypeOK'
  BY <1>18 DEF ReadPassword, TypeOK, Working
<1>19. ASSUME NEW k \in Jobs, NEW x \in Items, RefuseItem(k, x) PROVE TypeOK'
  BY <1>19 DEF RefuseItem, TypeOK
<1>20. ASSUME NEW k \in Jobs, NameDump(k) PROVE TypeOK'
  <2>1. JobTypes'
    BY <1>20 DEF NameDump, JobTypes, TypeOK, JobOrder, Working, Paths
  <2>2. plainFile' \in [Paths -> {None, Torn, Whole}]
    BY <1>20 DEF NameDump, TypeOK
  <2>3. /\ encFile' \in [Paths -> Nat \cup {None, Torn}]
        /\ object' \in [Paths -> Nat \cup {None, Torn, Whole}]
    BY <1>20 DEF NameDump, TypeOK
  <2> named' \in [Jobs -> SUBSET Paths]
    BY <1>20 DEF NameDump, TypeOK, JobOrder, Paths
  <2>4. QED
    BY <1>20, <2>1, <2>2, <2>3 DEF NameDump, TypeOK, JobTypes
<1>21. ASSUME NEW k \in Jobs, PgDumpEnds(k) PROVE TypeOK'
  <2>1. JobTypes'
    <3>1. JobTypes /\ cur[k] \in Paths
      BY <1>21 DEF PgDumpEnds, JobTypes, TypeOK
    <3>2. CASE encryptedDump
      BY <1>21, <3>1, <3>2 DEF PgDumpEnds, JobTypes, Working
    <3>3. CASE ~encryptedDump
      BY <1>21, <3>1, <3>3, AfterFileTyped DEF PgDumpEnds
    <3>4. QED
      BY <3>2, <3>3
  <2>2. plainFile' \in [Paths -> {None, Torn, Whole}]
    BY <1>21 DEF PgDumpEnds, TypeOK
  <2>3. /\ encFile' \in [Paths -> Nat \cup {None, Torn}]
        /\ object' \in [Paths -> Nat \cup {None, Torn, Whole}]
    BY <1>21 DEF PgDumpEnds, TypeOK
  <2>4. QED
    BY <1>21, <2>1, <2>2, <2>3 DEF PgDumpEnds, TypeOK, JobTypes
<1>22. ASSUME NEW k \in Jobs, EncryptBegins(k) PROVE TypeOK'
  BY <1>22 DEF EncryptBegins, TypeOK, Working
<1>23. ASSUME NEW k \in Jobs, EncryptEnds(k) PROVE TypeOK'
  <2>1. JobTypes'
    BY <1>23, AfterFileTyped DEF EncryptEnds, JobTypes, TypeOK
  <2>2. plainFile' \in [Paths -> {None, Torn, Whole}]
    BY <1>23 DEF EncryptEnds, TypeOK
  <2>3. /\ encFile' \in [Paths -> Nat \cup {None, Torn}]
        /\ object' \in [Paths -> Nat \cup {None, Torn, Whole}]
    BY <1>23 DEF EncryptEnds, TypeOK, Working
  <2>4. QED
    BY <1>23, <2>1, <2>2, <2>3 DEF EncryptEnds, TypeOK, JobTypes
<1>24. ASSUME NEW k \in Jobs, Upload(k) PROVE TypeOK'
  <2>1. JobTypes'
    BY <1>24, FinishTyped DEF Upload, JobTypes, TypeOK
  <2>2. plainFile' \in [Paths -> {None, Torn, Whole}]
    BY <1>24 DEF Upload, TypeOK
  <2>3. /\ encFile' \in [Paths -> Nat \cup {None, Torn}]
        /\ object' \in [Paths -> Nat \cup {None, Torn, Whole}]
    BY <1>24 DEF Upload, TypeOK
  <2>4. QED
    BY <1>24, <2>1, <2>2, <2>3 DEF Upload, TypeOK, JobTypes
<1>25. ASSUME NEW k \in Jobs, ItemFails(k) PROVE TypeOK'
  <2>1. JobTypes'
    BY <1>25, FinishTyped DEF ItemFails, JobTypes, TypeOK
  <2>2. plainFile' \in [Paths -> {None, Torn, Whole}]
    BY <1>25 DEF ItemFails, TypeOK
  <2>3. /\ encFile' \in [Paths -> Nat \cup {None, Torn}]
        /\ object' \in [Paths -> Nat \cup {None, Torn, Whole}]
    BY <1>25 DEF ItemFails, TypeOK
  <2>4. QED
    BY <1>25, <2>1, <2>2, <2>3 DEF ItemFails, TypeOK, JobTypes
<1>26. ASSUME NEW n \in 1..vaultKey, NEW S \in SUBSET Items, ReadRows(n, S) PROVE TypeOK'
  BY <1>26 DEF ReadRows, TypeOK
<1> QED
  BY NextCases, <1>1, <1>2, <1>3, <1>4, <1>5, <1>6, <1>7, <1>8, <1>9, <1>10, <1>11, <1>12,
     <1>13, <1>14, <1>15, <1>16, <1>17, <1>18, <1>19, <1>20, <1>21, <1>22, <1>23, <1>24,
     <1>25, <1>26
     DEF JobStep, Aside, MenuChange, OtherChange

\* Every job is over when the program stops, and none starts afterwards.
LEMMA StepStops ==
    ASSUME TypeOK, mode = "stopped" => NoneActive, Next
    PROVE  (mode = "stopped" => NoneActive)'
<1> USE DEF NoneActive, Active
<1>1. CASE Aside
  <2>1. CASE Stopped \/ OnceEnds \/ Signal \/ Tick
    BY <1>1, <2>1, AsideKeeps DEF jobs, Stopped, OnceEnds, Signal, Tick
  <2>2. CASE MenuChange \/ OtherChange \/ OtherStep
    BY <1>1, <2>2, AsideKeeps, OthersKeep DEF jobs
  <2> QED
    BY <1>1, <2>1, <2>2 DEF Aside
<1>2. ASSUME NEW k \in Jobs, NEW s \in Schedules, Started(k, s)
      PROVE  mode' # "stopped"
  BY <1>2 DEF Started
<1>3. ASSUME NEW k \in Jobs, JobStep(k)
      PROVE  mode' # "stopped"
  <2>1. Active(k)
    BY <1>3
       DEF JobStep, ScheduleFails, BeginItems, EndItems, ReadPassword, RefuseItem, NameDump,
           PgDumpEnds, EncryptBegins, EncryptEnds, Upload, ItemFails, Working
  <2> QED
    BY <1>3, <2>1, JobStepKeeps
<1> QED
  BY <1>1, <1>2, <1>3, NextCases

\* Every step leaves each job with what it needs where it is.
LEMMA StepOrder ==
    ASSUME TypeOK, JobOrder, Next
    PROVE  JobOrder'
<1> USE AutonomousAssumption DEF Rest, config, jobs, vault, changer, files, session
<1>1. CASE Aside
  BY <1>1, AsideKeeps DEF JobOrder
<1>2. ASSUME NEW k \in Jobs, NEW s \in Schedules, Started(k, s) PROVE JobOrder'
  BY <1>2 DEF Started, Launch, TypeOK, JobOrder, Working
<1>3. ASSUME NEW k \in Jobs, ScheduleFails(k) PROVE JobOrder'
  BY <1>3 DEF ScheduleFails, JobOrder, Working
<1>4. ASSUME NEW k \in Jobs, BeginItems(k) PROVE JobOrder'
  BY <1>4 DEF BeginItems, JobOrder, Working
<1>5. ASSUME NEW k \in Jobs, EndItems(k) PROVE JobOrder'
  BY <1>5 DEF EndItems, JobOrder, Working
<1>6. ASSUME NEW k \in Jobs, NEW x \in Items, ReadPassword(k, x) PROVE JobOrder'
  BY <1>6 DEF ReadPassword, TypeOK, JobOrder
<1>7. ASSUME NEW k \in Jobs, NEW x \in Items, RefuseItem(k, x) PROVE JobOrder'
  BY <1>7 DEF RefuseItem, JobOrder
<1>8. ASSUME NEW k \in Jobs, NameDump(k) PROVE JobOrder'
  BY <1>8 DEF NameDump, TypeOK, JobOrder
<1>9. ASSUME NEW k \in Jobs, PgDumpEnds(k) PROVE JobOrder'
  BY <1>9 DEF PgDumpEnds, AfterFile, Finish, TypeOK, JobOrder, Working
<1>10. ASSUME NEW k \in Jobs, EncryptBegins(k) PROVE JobOrder'
  BY <1>10 DEF EncryptBegins, TypeOK, JobOrder, Working
<1>11. ASSUME NEW k \in Jobs, EncryptEnds(k) PROVE JobOrder'
  BY <1>11 DEF EncryptEnds, AfterFile, Finish, TypeOK, JobOrder, Working
<1>12. ASSUME NEW k \in Jobs, Upload(k) PROVE JobOrder'
  BY <1>12 DEF Upload, Finish, TypeOK, JobOrder, Working
<1>13. ASSUME NEW k \in Jobs, ItemFails(k) PROVE JobOrder'
  BY <1>13 DEF ItemFails, Finish, TypeOK, JobOrder, Working
<1> QED
  BY NextCases, <1>1, <1>2, <1>3, <1>4, <1>5, <1>6, <1>7, <1>8, <1>9, <1>10, <1>11, <1>12,
     <1>13
     DEF JobStep

\* Every step keeps the count of the items.
LEMMA StepCounted ==
    ASSUME TypeOK, JobOrder, ItemsCounted, Next
    PROVE  ItemsCounted'
<1> USE AutonomousAssumption DEF Rest, config, jobs, vault, changer, files, session
<1>1. CASE Aside
  BY <1>1, AsideKeeps DEF ItemsCounted
<1>2. ASSUME NEW k \in Jobs, NEW s \in Schedules, Started(k, s) PROVE ItemsCounted'
  BY <1>2 DEF Started, Launch, ItemsCounted, Working
<1>3. ASSUME NEW k \in Jobs, ScheduleFails(k) PROVE ItemsCounted'
  BY <1>3 DEF ScheduleFails, ItemsCounted, Working
<1>4. ASSUME NEW k \in Jobs, BeginItems(k) PROVE ItemsCounted'
  BY <1>4 DEF BeginItems, TypeOK, JobOrder, ItemsCounted, Working
<1>5. ASSUME NEW k \in Jobs, EndItems(k) PROVE ItemsCounted'
  BY <1>5 DEF EndItems, ItemsCounted, Working
<1>6. ASSUME NEW k \in Jobs, NEW x \in Items, ReadPassword(k, x) PROVE ItemsCounted'
  BY <1>6 DEF ReadPassword, TypeOK, ItemsCounted
<1>7. ASSUME NEW k \in Jobs, NEW x \in Items, RefuseItem(k, x) PROVE ItemsCounted'
  BY <1>7 DEF RefuseItem, TypeOK, ItemsCounted
<1>8. ASSUME NEW k \in Jobs, NameDump(k) PROVE ItemsCounted'
  BY <1>8 DEF NameDump, ItemsCounted, Working
<1>9. ASSUME NEW k \in Jobs, PgDumpEnds(k) PROVE ItemsCounted'
  BY <1>9 DEF PgDumpEnds, AfterFile, Finish, TypeOK, ItemsCounted, Working
<1>10. ASSUME NEW k \in Jobs, EncryptBegins(k) PROVE ItemsCounted'
  BY <1>10 DEF EncryptBegins, TypeOK, JobOrder, ItemsCounted
<1>11. ASSUME NEW k \in Jobs, EncryptEnds(k) PROVE ItemsCounted'
  BY <1>11
     DEF EncryptEnds, AfterFile, Finish, TypeOK, JobOrder, ItemsCounted, Working, Paths
<1>12. ASSUME NEW k \in Jobs, Upload(k) PROVE ItemsCounted'
  BY <1>12 DEF Upload, Finish, TypeOK, ItemsCounted, Working
<1>13. ASSUME NEW k \in Jobs, ItemFails(k) PROVE ItemsCounted'
  BY <1>13 DEF ItemFails, Finish, TypeOK, JobOrder, ItemsCounted, Working, Paths
<1> QED
  BY NextCases, <1>1, <1>2, <1>3, <1>4, <1>5, <1>6, <1>7, <1>8, <1>9, <1>10, <1>11, <1>12,
     <1>13
     DEF JobStep

\* A job comes to its end with every item counted.
LEMMA StepTried ==
    ASSUME TypeOK, JobOrder, ItemsCounted, EveryItemTried, Next
    PROVE  EveryItemTried'
<1> USE AutonomousAssumption DEF Rest, config, jobs, vault, changer, files, session
<1>1. CASE Aside
  BY <1>1, AsideKeeps DEF EveryItemTried
<1>2. ASSUME NEW k \in Jobs, NEW s \in Schedules, Started(k, s) PROVE EveryItemTried'
  BY <1>2 DEF Started, Launch, TypeOK, JobOrder, ItemsCounted, EveryItemTried, Working
<1>3. ASSUME NEW k \in Jobs, ScheduleFails(k) PROVE EveryItemTried'
  BY <1>3 DEF ScheduleFails, EveryItemTried
<1>4. ASSUME NEW k \in Jobs, BeginItems(k) PROVE EveryItemTried'
  BY <1>4 DEF BeginItems, EveryItemTried
<1>5. ASSUME NEW k \in Jobs, EndItems(k) PROVE EveryItemTried'
  BY <1>5 DEF EndItems, ItemsCounted, EveryItemTried
<1>6. ASSUME NEW k \in Jobs, NEW x \in Items, ReadPassword(k, x) PROVE EveryItemTried'
  BY <1>6 DEF ReadPassword, EveryItemTried
<1>7. ASSUME NEW k \in Jobs, NEW x \in Items, RefuseItem(k, x) PROVE EveryItemTried'
  BY <1>7 DEF RefuseItem, EveryItemTried
<1>8. ASSUME NEW k \in Jobs, NameDump(k) PROVE EveryItemTried'
  <2>1. ASSUME NEW j \in Jobs, pc'[j] = "done"
       PROVE  pc[j] = "done" /\ outcome'[j] = outcome[j] /\ sched'[j] = sched[j]
    BY <1>8, <2>1 DEF NameDump
  <2>2. QED
    BY <2>1 DEF EveryItemTried
<1>9. ASSUME NEW k \in Jobs, PgDumpEnds(k) PROVE EveryItemTried'
  <2>1. ASSUME NEW j \in Jobs, pc'[j] = "done"
       PROVE  pc[j] = "done" /\ outcome'[j] = outcome[j] /\ sched'[j] = sched[j]
    BY <1>9, <2>1 DEF PgDumpEnds, AfterFile, Finish, TypeOK
  <2>2. QED
    BY <2>1 DEF EveryItemTried
<1>10. ASSUME NEW k \in Jobs, EncryptBegins(k) PROVE EveryItemTried'
  BY <1>10 DEF EncryptBegins, EveryItemTried
<1>11. ASSUME NEW k \in Jobs, EncryptEnds(k) PROVE EveryItemTried'
  <2>1. ASSUME NEW j \in Jobs, pc'[j] = "done"
       PROVE  pc[j] = "done" /\ outcome'[j] = outcome[j] /\ sched'[j] = sched[j]
    BY <1>11, <2>1 DEF EncryptEnds, AfterFile, Finish, TypeOK
  <2>2. QED
    BY <2>1 DEF EveryItemTried
<1>12. ASSUME NEW k \in Jobs, Upload(k) PROVE EveryItemTried'
  BY <1>12 DEF Upload, Finish, EveryItemTried
<1>13. ASSUME NEW k \in Jobs, ItemFails(k) PROVE EveryItemTried'
  BY <1>13 DEF ItemFails, Finish, ItemsCounted, EveryItemTried
<1> QED
  BY NextCases, <1>1, <1>2, <1>3, <1>4, <1>5, <1>6, <1>7, <1>8, <1>9, <1>10, <1>11, <1>12,
     <1>13
     DEF JobStep

\* Rows and dumps are written only after a key was published.
LEMMA StepUntouched ==
    ASSUME TypeOK, Untouched, Next
    PROVE  Untouched'
<1> USE DEF vault, changer, session, TypeOK, Untouched, Waiting
<1>1. CASE Stopped \/ OnceEnds \/ Signal \/ Tick
  BY <1>1 DEF Stopped, OnceEnds, Signal, Tick
<1>2. CASE MenuChange \/ OtherChange \/ OtherStep
  BY <1>2, OthersKeep
<1>3. ASSUME NEW k \in Jobs, NEW s \in Schedules, Started(k, s) PROVE Untouched'
  BY <1>3 DEF Started
<1>4. ASSUME NEW k \in Jobs, JobStep(k) PROVE Untouched'
  BY <1>4, JobStepKeeps
<1> QED
  BY <1>1, <1>2, <1>3, <1>4, NextCases DEF Aside

\* While the session's key is the vault's, the other processes leave the encrypted
\* dumps alone.
LEMMA AsideWaits ==
    ASSUME TypeOK, Untouched, Aside, vaultKey' = session
    PROVE  vaultKey = session /\ encFile' = encFile
<1> USE DEF vault, files, session, TypeOK, Untouched, Waiting
<1>1. CASE Stopped \/ OnceEnds \/ Signal \/ Tick
  BY <1>1 DEF Stopped, OnceEnds, Signal, Tick
<1>2. CASE MenuChange \/ OtherChange \/ OtherStep
  BY <1>2, OthersKeep
<1> QED
  BY <1>1, <1>2 DEF Aside

\* Once replaced, the session's key comes to a row only when a password is saved
\* with it again.
LEMMA StaysReplaced ==
    ASSUME TypeOK, Untouched, Aside, Replaced
    PROVE  Replaced' /\ resaved \subseteq resaved'
<1> USE DEF vault, session, TypeOK, Untouched, Replaced
<1>1. CASE Stopped \/ OnceEnds \/ Signal \/ Tick
  BY <1>1 DEF Stopped, OnceEnds, Signal, Tick
<1>2. CASE MenuChange \/ OtherChange \/ OtherStep
  BY <1>2, OthersKeep
<1> QED
  BY <1>1, <1>2 DEF Aside

\* A late job comes to work on no item that was not saved again.
LEMMA StepLate ==
    ASSUME TypeOK, JobOrder, Untouched, LateReadsResaved, Next
    PROVE  LateReadsResaved'
<1> USE AutonomousAssumption DEF Rest, config, jobs, vault, changer, files, session
<1>1. CASE Aside
  BY <1>1, AsideKeeps, StaysReplaced DEF LateReadsResaved
<1>2. ASSUME NEW k \in Jobs, NEW s \in Schedules, Started(k, s) PROVE LateReadsResaved'
  BY <1>2 DEF Started, Launch, TypeOK, LateReadsResaved, Replaced, Working
<1>3. ASSUME NEW k \in Jobs, JobStep(k) PROVE UNCHANGED <<vaultKey, rowKey, resaved, late>>
  BY <1>3, JobStepKeeps
     DEF JobStep, ScheduleFails, BeginItems, EndItems, ReadPassword, RefuseItem, NameDump,
         PgDumpEnds, EncryptBegins, EncryptEnds, Upload, ItemFails
<1>4. ASSUME NEW k \in Jobs, NEW x \in Items, ReadPassword(k, x) PROVE LateReadsResaved'
  <2>1. k \in late => x \in resaved
    BY <1>4 DEF ReadPassword, LateReadsResaved, Replaced
  <2> QED
    BY <1>4, <2>1 DEF ReadPassword, TypeOK, LateReadsResaved, Replaced, Working
<1>5. ASSUME NEW k \in Jobs, JobStep(k), ~\E x \in Items : ReadPassword(k, x)
      PROVE  \A j \in Jobs : pc'[j] \in Working => pc[j] \in Working /\ cur'[j][1] = cur[j][1]
  <2>1. CASE ScheduleFails(k) \/ BeginItems(k) \/ EndItems(k)
    BY <2>1 DEF ScheduleFails, BeginItems, EndItems, TypeOK, Working
  <2>2. CASE \E x \in Items : RefuseItem(k, x)
    BY <2>2 DEF RefuseItem
  <2>3. CASE NameDump(k)
    BY <2>3 DEF NameDump, TypeOK, JobOrder, Working
  <2>4. CASE PgDumpEnds(k)
    BY <2>4 DEF PgDumpEnds, AfterFile, Finish, TypeOK, Working
  <2>5. CASE EncryptBegins(k)
    BY <2>5 DEF EncryptBegins, TypeOK, Working
  <2>6. CASE EncryptEnds(k)
    BY <2>6 DEF EncryptEnds, AfterFile, Finish, TypeOK, Working
  <2>7. CASE Upload(k) \/ ItemFails(k)
    BY <2>7 DEF Upload, ItemFails, Finish, TypeOK, Working
  <2> QED
    BY <1>5, <2>1, <2>2, <2>3, <2>4, <2>5, <2>6, <2>7 DEF JobStep
<1>6. ASSUME NEW k \in Jobs, JobStep(k) PROVE LateReadsResaved'
  <2>1. CASE \E x \in Items : ReadPassword(k, x)
    BY <1>4, <2>1
  <2>2. CASE ~\E x \in Items : ReadPassword(k, x)
    BY <1>3, <1>5, <1>6, <2>2 DEF LateReadsResaved, Replaced, TypeOK
  <2> QED
    BY <2>1, <2>2
<1> QED
  BY NextCases, <1>1, <1>2, <1>6

\* Finishing an item tells of that item only.
LEMMA FinishCounts ==
    ASSUME TypeOK, NEW k \in Jobs, NEW what \in {"ok", "failed"}, Finish(k, what)
    PROVE  \A j \in Jobs, i \in Items : outcome'[j][i] = "ok" =>
               outcome[j][i] = "ok" \/ (j = k /\ i = cur[k][1])
<1>1. \A j \in Jobs \ {k} : outcome'[j] = outcome[j]
  BY DEF Finish, TypeOK
<1>2. outcome'[k] = [outcome[k] EXCEPT ![cur[k][1]] = what]
  BY DEF Finish, TypeOK
<1>3. outcome[k] \in [Items -> {"none", "ok", "failed"}]
  BY DEF TypeOK
<1>4. \A i \in Items : outcome'[k][i] = outcome[k][i] \/ i = cur[k][1]
  BY <1>2, <1>3
<1> QED
  BY <1>1, <1>4

\* A late job names and dumps only items that were saved again.
LEMMA StepLateDumps ==
    ASSUME TypeOK, JobOrder, Untouched, LateReadsResaved, LateJobsDumpResaved, Next
    PROVE  LateJobsDumpResaved'
<1> USE AutonomousAssumption DEF Rest, config, jobs, vault, changer, files, session
<1>1. CASE Aside
  <2>1. late # {} => resaved \subseteq resaved'
    BY <1>1, StaysReplaced DEF LateReadsResaved
  <2> QED
    BY <1>1, <2>1, AsideKeeps DEF LateJobsDumpResaved
<1>2. ASSUME NEW k \in Jobs, NEW s \in Schedules, Started(k, s) PROVE LateJobsDumpResaved'
  BY <1>2 DEF Started, Launch, JobOrder, LateJobsDumpResaved
<1>3. ASSUME NEW k \in Jobs, JobStep(k) PROVE UNCHANGED <<resaved, late>>
  BY <1>3, JobStepKeeps
     DEF JobStep, ScheduleFails, BeginItems, EndItems, ReadPassword, RefuseItem, NameDump,
         PgDumpEnds, EncryptBegins, EncryptEnds, Upload, ItemFails
<1>4. ASSUME NEW k \in Jobs, JobStep(k)
      PROVE  \A j \in Jobs : \A p \in named'[j] \ named[j] :
                 pc[j] \in Working /\ p[1] = cur[j][1]
  <2>1. CASE NameDump(k)
    BY <2>1 DEF NameDump, TypeOK, Working
  <2>2. CASE ~NameDump(k)
    BY <1>4, <2>2
       DEF JobStep, ScheduleFails, BeginItems, EndItems, ReadPassword, RefuseItem,
           PgDumpEnds, EncryptBegins, EncryptEnds, Upload, ItemFails
  <2> QED
    BY <2>1, <2>2
<1>5. ASSUME NEW k \in Jobs, JobStep(k)
      PROVE  \A j \in Jobs, i \in Items : outcome'[j][i] = "ok" =>
                 outcome[j][i] = "ok" \/ (pc[j] \in Working /\ i = cur[j][1])
  <2>1. CASE \/ ScheduleFails(k) \/ BeginItems(k) \/ EndItems(k)
             \/ NameDump(k) \/ EncryptBegins(k)
    BY <2>1 DEF ScheduleFails, BeginItems, EndItems, NameDump, EncryptBegins
  <2>2. CASE \E x \in Items : ReadPassword(k, x) \/ RefuseItem(k, x)
    BY <2>2 DEF ReadPassword, RefuseItem, TypeOK
  <2>3. CASE PgDumpEnds(k)
    BY <2>3, FinishCounts DEF PgDumpEnds, AfterFile, Working
  <2>4. CASE EncryptEnds(k)
    BY <2>4, FinishCounts DEF EncryptEnds, AfterFile, Working
  <2>5. CASE Upload(k) \/ ItemFails(k)
    BY <2>5, FinishCounts DEF Upload, ItemFails, Working
  <2> QED
    BY <1>5, <2>1, <2>2, <2>3, <2>4, <2>5 DEF JobStep
<1>6. ASSUME NEW k \in Jobs, JobStep(k) PROVE LateJobsDumpResaved'
  <2>1. UNCHANGED <<resaved, late>>
    BY <1>3, <1>6
  <2>2. \A j \in late : j \in Jobs /\ (pc[j] \in Working => cur[j][1] \in resaved)
    BY DEF LateReadsResaved, TypeOK
  <2>3. \A j \in late : \A p \in named'[j] : p[1] \in resaved
    <3>1. \A j \in Jobs : \A p \in named'[j] \ named[j] :
              pc[j] \in Working /\ p[1] = cur[j][1]
      BY <1>4, <1>6
    <3> QED
      BY <2>2, <3>1 DEF LateJobsDumpResaved
  <2>4. \A j \in late, i \in Items : outcome'[j][i] = "ok" => i \in resaved
    <3>1. \A j \in Jobs, i \in Items : outcome'[j][i] = "ok" =>
              outcome[j][i] = "ok" \/ (pc[j] \in Working /\ i = cur[j][1])
      BY <1>5, <1>6
    <3> QED
      BY <2>2, <3>1 DEF LateJobsDumpResaved
  <2> QED
    BY <2>1, <2>3, <2>4 DEF LateJobsDumpResaved
<1> QED
  BY NextCases, <1>1, <1>2, <1>6

\* Every step encrypts only when it is asked to.
LEMMA StepEncrypts ==
    ASSUME TypeOK, EncryptsWhenAsked, Next
    PROVE  EncryptsWhenAsked'
<1> USE AutonomousAssumption DEF Rest, config, jobs, vault, changer, files, session
<1>1. CASE Aside
  BY <1>1, AsideKeeps DEF EncryptsWhenAsked
<1>2. ASSUME NEW k \in Jobs, NEW s \in Schedules, Started(k, s) PROVE EncryptsWhenAsked'
  BY <1>2 DEF Started, Launch, EncryptsWhenAsked
<1>3. ASSUME NEW k \in Jobs, ScheduleFails(k) PROVE EncryptsWhenAsked'
  BY <1>3 DEF ScheduleFails, EncryptsWhenAsked
<1>4. ASSUME NEW k \in Jobs, BeginItems(k) PROVE EncryptsWhenAsked'
  BY <1>4 DEF BeginItems, EncryptsWhenAsked
<1>5. ASSUME NEW k \in Jobs, EndItems(k) PROVE EncryptsWhenAsked'
  BY <1>5 DEF EndItems, EncryptsWhenAsked
<1>6. ASSUME NEW k \in Jobs, NEW x \in Items, ReadPassword(k, x) PROVE EncryptsWhenAsked'
  BY <1>6 DEF ReadPassword, EncryptsWhenAsked
<1>7. ASSUME NEW k \in Jobs, NEW x \in Items, RefuseItem(k, x) PROVE EncryptsWhenAsked'
  BY <1>7 DEF RefuseItem, EncryptsWhenAsked
<1>8. ASSUME NEW k \in Jobs, NameDump(k) PROVE EncryptsWhenAsked'
  BY <1>8 DEF NameDump, EncryptsWhenAsked
<1>9. ASSUME NEW k \in Jobs, PgDumpEnds(k) PROVE EncryptsWhenAsked'
  BY <1>9 DEF PgDumpEnds, AfterFile, Finish, TypeOK, EncryptsWhenAsked
<1>10. ASSUME NEW k \in Jobs, EncryptBegins(k) PROVE EncryptsWhenAsked'
  BY <1>10 DEF EncryptBegins, EncryptsWhenAsked
<1>11. ASSUME NEW k \in Jobs, EncryptEnds(k) PROVE EncryptsWhenAsked'
  BY <1>11 DEF EncryptEnds, EncryptsWhenAsked
<1>12. ASSUME NEW k \in Jobs, Upload(k) PROVE EncryptsWhenAsked'
  BY <1>12 DEF Upload, Finish, EncryptsWhenAsked
<1>13. ASSUME NEW k \in Jobs, ItemFails(k) PROVE EncryptsWhenAsked'
  BY <1>13 DEF ItemFails, Finish, EncryptsWhenAsked
<1> QED
  BY NextCases, <1>1, <1>2, <1>3, <1>4, <1>5, <1>6, <1>7, <1>8, <1>9, <1>10, <1>11, <1>12,
     <1>13
     DEF JobStep

\* No step takes the file of a job that has its name to itself.
LEMMA StepOwned ==
    ASSUME TypeOK, JobOrder, Untouched, EncryptsWhenAsked, FilesOwned, Next
    PROVE  FilesOwned'
<1> USE AutonomousAssumption DEF Rest, config, jobs, vault, changer, files, session
<1>1. CASE Aside
  BY <1>1, AsideKeeps, AsideWaits DEF FilesOwned, FileComplete, Clash
<1>2. ASSUME NEW k \in Jobs, NEW s \in Schedules, Started(k, s) PROVE FilesOwned'
  BY <1>2 DEF Started, Launch, FilesOwned, FileComplete, Clash
<1>3. ASSUME NEW k \in Jobs, ScheduleFails(k) PROVE FilesOwned'
  BY <1>3 DEF ScheduleFails, FilesOwned, FileComplete, Clash
<1>4. ASSUME NEW k \in Jobs, BeginItems(k) PROVE FilesOwned'
  BY <1>4 DEF BeginItems, FilesOwned, FileComplete, Clash
<1>5. ASSUME NEW k \in Jobs, EndItems(k) PROVE FilesOwned'
  BY <1>5 DEF EndItems, FilesOwned, FileComplete, Clash
<1>6. ASSUME NEW k \in Jobs, NEW x \in Items, ReadPassword(k, x) PROVE FilesOwned'
  BY <1>6 DEF ReadPassword, FilesOwned, FileComplete, Clash
<1>7. ASSUME NEW k \in Jobs, NEW x \in Items, RefuseItem(k, x) PROVE FilesOwned'
  BY <1>7 DEF RefuseItem, FilesOwned, FileComplete, Clash
<1>8. ASSUME NEW k \in Jobs, NameDump(k) PROVE FilesOwned'
  <2> SUFFICES ASSUME vaultKey' = session, NEW j \in Jobs, ~Clash(j)'
               PROVE  FileComplete(j)'
    BY DEF FilesOwned
  <2>1. vaultKey = session /\ cur'[k] \in Paths
    BY <1>8 DEF NameDump, TypeOK, JobOrder, Paths
  <2>2. CASE j = k
    BY <1>8, <2>1, <2>2 DEF NameDump, TypeOK, FileComplete
  <2>3. CASE j # k
    <3>1. CASE pc[j] \notin {"dumping", "upload"}
      BY <1>8, <2>3, <3>1 DEF NameDump, FileComplete, Working
    <3>2. CASE pc[j] \in {"dumping", "upload"}
      <4>1. cur'[j] = cur[j] /\ pc'[j] = pc[j] /\ cur[j] \in Paths
        BY <1>8, <2>3, <3>2 DEF NameDump, TypeOK, Working
      <4>2. ~Clash(j) /\ cur[j] # cur'[k]
        BY <1>8, <2>3, <4>1 DEF NameDump, Clash, TypeOK
      <4>3. plainFile'[cur[j]] = plainFile[cur[j]] /\ encFile'[cur[j]] = encFile[cur[j]]
        BY <1>8, <2>1, <4>1, <4>2 DEF NameDump, TypeOK
      <4>4. QED
        BY <1>8, <2>1, <4>1, <4>2, <4>3 DEF NameDump, FilesOwned, FileComplete
    <3>3. QED
      BY <3>1, <3>2
  <2>4. QED
    BY <2>2, <2>3
<1>9. ASSUME NEW k \in Jobs, PgDumpEnds(k) PROVE FilesOwned'
  <2> SUFFICES ASSUME vaultKey' = session, NEW j \in Jobs, ~Clash(j)'
               PROVE  FileComplete(j)'
    BY DEF FilesOwned
  <2>1. vaultKey = session /\ cur[k] \in Paths
    BY <1>9 DEF PgDumpEnds, TypeOK
  <2>2. CASE j = k
    BY <1>9, <2>1, <2>2
       DEF PgDumpEnds, AfterFile, Finish, Clash, TypeOK, FilesOwned, FileComplete
  <2>3. CASE j # k
    <3>1. CASE pc[j] \notin {"dumping", "upload"}
      BY <1>9, <2>3, <3>1 DEF PgDumpEnds, FileComplete, TypeOK, Working, AfterFile, Finish
    <3>2. CASE pc[j] \in {"dumping", "upload"}
      <4>1. cur'[j] = cur[j] /\ pc'[j] = pc[j] /\ cur[j] \in Paths
        BY <1>9, <2>3, <3>2 DEF PgDumpEnds, TypeOK, Working, AfterFile, Finish
      <4>2. ~Clash(j) /\ cur[j] # cur[k]
        BY <1>9, <2>3, <4>1 DEF PgDumpEnds, Clash, JobOrder, Working
      <4>3. plainFile'[cur[j]] = plainFile[cur[j]] /\ encFile'[cur[j]] = encFile[cur[j]]
        BY <1>9, <2>1, <4>1, <4>2 DEF PgDumpEnds
      <4>4. QED
        BY <1>9, <2>1, <4>1, <4>2, <4>3 DEF PgDumpEnds, FilesOwned, FileComplete
    <3>3. QED
      BY <3>1, <3>2
  <2>4. QED
    BY <2>2, <2>3
<1>10. ASSUME NEW k \in Jobs, EncryptBegins(k) PROVE FilesOwned'
  <2> SUFFICES ASSUME vaultKey' = session, NEW j \in Jobs, ~Clash(j)'
               PROVE  FileComplete(j)'
    BY DEF FilesOwned
  <2>1. vaultKey = session /\ cur[k] \in Paths
    BY <1>10 DEF EncryptBegins, TypeOK
  <2>2. CASE j = k
    BY <1>10, <2>1, <2>2 DEF EncryptBegins, FileComplete
  <2>3. CASE j # k
    <3>1. CASE pc[j] \notin {"dumping", "upload"}
      BY <1>10, <2>3, <3>1 DEF EncryptBegins, FileComplete, Working
    <3>2. CASE pc[j] \in {"dumping", "upload"}
      <4>1. cur'[j] = cur[j] /\ pc'[j] = pc[j] /\ cur[j] \in Paths
        BY <1>10, <2>3, <3>2 DEF EncryptBegins, TypeOK, Working
      <4>2. ~Clash(j) /\ cur[j] # cur[k]
        BY <1>10, <2>3, <4>1 DEF EncryptBegins, Clash, TypeOK, JobOrder, Working
      <4>3. plainFile'[cur[j]] = plainFile[cur[j]] /\ encFile'[cur[j]] = encFile[cur[j]]
        BY <1>10, <2>1, <4>1, <4>2 DEF EncryptBegins
      <4>4. QED
        BY <1>10, <2>1, <4>1, <4>2, <4>3 DEF EncryptBegins, FilesOwned, FileComplete
    <3>3. QED
      BY <3>1, <3>2
  <2>4. QED
    BY <2>2, <2>3
<1>11. ASSUME NEW k \in Jobs, EncryptEnds(k) PROVE FilesOwned'
  <2> SUFFICES ASSUME vaultKey' = session, NEW j \in Jobs, ~Clash(j)'
               PROVE  FileComplete(j)'
    BY DEF FilesOwned
  <2>1. vaultKey = session /\ cur[k] \in Paths
    BY <1>11 DEF EncryptEnds, TypeOK
  <2>2. CASE j = k
    BY <1>11, <2>1, <2>2
       DEF EncryptEnds, AfterFile, Finish, Clash, TypeOK, EncryptsWhenAsked, FileComplete
  <2>3. CASE j # k
    <3>1. CASE pc[j] \notin {"dumping", "upload"}
      BY <1>11, <2>3, <3>1 DEF EncryptEnds, FileComplete, TypeOK, Working, AfterFile, Finish
    <3>2. CASE pc[j] \in {"dumping", "upload"}
      <4>1. cur'[j] = cur[j] /\ pc'[j] = pc[j] /\ cur[j] \in Paths
        BY <1>11, <2>3, <3>2 DEF EncryptEnds, TypeOK, Working, AfterFile, Finish
      <4>2. ~Clash(j) /\ cur[j] # cur[k]
        BY <1>11, <2>3, <4>1 DEF EncryptEnds, Clash, JobOrder, Working
      <4>3. plainFile'[cur[j]] = plainFile[cur[j]] /\ encFile'[cur[j]] = encFile[cur[j]]
        BY <1>11, <2>1, <4>1, <4>2 DEF EncryptEnds
      <4>4. QED
        BY <1>11, <2>1, <4>1, <4>2, <4>3 DEF EncryptEnds, FilesOwned, FileComplete
    <3>3. QED
      BY <3>1, <3>2
  <2>4. QED
    BY <2>2, <2>3
<1>12. ASSUME NEW k \in Jobs, Upload(k) PROVE FilesOwned'
  BY <1>12 DEF Upload, Finish, TypeOK, FilesOwned, FileComplete, Clash
<1>13. ASSUME NEW k \in Jobs, ItemFails(k) PROVE FilesOwned'
  BY <1>13 DEF ItemFails, Finish, TypeOK, JobOrder, FilesOwned, FileComplete, Clash, Working
<1> QED
  BY NextCases, <1>1, <1>2, <1>3, <1>4, <1>5, <1>6, <1>7, <1>8, <1>9, <1>10, <1>11, <1>12,
     <1>13
     DEF JobStep

\* What jobs have named stays named.
LEMMA NamedGrows ==
    ASSUME Next
    PROVE  \A j \in Jobs : named[j] \subseteq named'[j]
<1>1. CASE Aside
  BY <1>1, AsideKeeps DEF jobs
<1>2. ASSUME NEW k \in Jobs, NEW s \in Schedules, Started(k, s) PROVE named' = named
  BY <1>2 DEF Started, Launch
<1>3. ASSUME NEW k \in Jobs, NameDump(k) PROVE \A j \in Jobs : named[j] \subseteq named'[j]
  BY <1>3 DEF NameDump
<1>4. ASSUME NEW k \in Jobs, JobStep(k), ~NameDump(k) PROVE named' = named
  BY <1>4
     DEF JobStep, ScheduleFails, BeginItems, EndItems, ReadPassword, RefuseItem, PgDumpEnds,
         EncryptBegins, EncryptEnds, Upload, ItemFails
<1> QED
  BY <1>1, <1>2, <1>3, <1>4, NextCases DEF jobs

\* Only an upload changes the bucket, and it takes a complete file there.
LEMMA StepObjects ==
    ASSUME TypeOK, JobOrder, Untouched, FilesOwned, ObjectsComplete, Next
    PROVE  ObjectsComplete'
<1> DEFINE Good(p) ==
        \/ object[p] = IF encryptedDump THEN session ELSE Whole
        \/ vaultKey # session
        \/ \E j, k \in Jobs : j # k /\ p \in named[j] \cap named[k]
<1>1. UNCHANGED encryptedDump /\ (vaultKey # session => vaultKey' # session)
  <2>1. CASE Aside
    BY <2>1, AsideKeeps, AsideWaits DEF config
  <2>2. ASSUME NEW k \in Jobs, NEW s \in Schedules, Started(k, s)
        PROVE  UNCHANGED <<config, vault>>
    BY <2>2 DEF Started
  <2> QED
    BY <2>1, <2>2, JobStepKeeps, NextCases DEF config, vault, session
<1>2. ASSUME NEW p \in Paths, object'[p] = object[p], object'[p] # None PROVE Good(p)'
  <2>1. Good(p)
    BY <1>2 DEF ObjectsComplete
  <2> QED
    BY <1>1, <1>2, <2>1, NamedGrows DEF session
<1>3. ASSUME NEW k \in Jobs, Upload(k), NEW p \in Paths, object'[p] # object[p]
      PROVE  Good(p)'
  <2>1. /\ p = cur[k] /\ p \in named[k] /\ UNCHANGED <<named, vaultKey>>
        /\ object'[p] = IF encryptedDump THEN encFile[p] ELSE plainFile[p]
    BY <1>3 DEF Upload, JobOrder, Working, Rest, vault
  <2>2. CASE Clash(k)
    BY <2>1, <2>2 DEF Clash
  <2>3. CASE vaultKey = session /\ ~Clash(k)
    BY <1>1, <1>3, <2>1, <2>3 DEF FilesOwned, FileComplete, Upload
  <2> QED
    BY <2>1, <2>2, <2>3
<1>4. CASE \E k \in Jobs : Upload(k)
  BY <1>2, <1>3, <1>4 DEF ObjectsComplete
<1>5. CASE UNCHANGED object
  BY <1>2, <1>5 DEF ObjectsComplete
<1>6. UNCHANGED object \/ \E k \in Jobs : Upload(k)
  <2>1. ASSUME NEW k \in Jobs, JobStep(k), ~Upload(k) PROVE UNCHANGED object
    BY <2>1
       DEF JobStep, ScheduleFails, BeginItems, EndItems, ReadPassword, RefuseItem, NameDump,
           PgDumpEnds, EncryptBegins, EncryptEnds, ItemFails, files
  <2> QED
    BY <2>1, AsideKeeps, NextCases DEF Started, files
<1> QED
  BY <1>4, <1>5, <1>6

-----------------------------------------------------------------------------
(* The invariant                                                           *)

AutonomousInv ==
    /\ SessionOutlivesJobs /\ JobOrder /\ ItemsCounted /\ EveryItemTried
    /\ Untouched /\ LateReadsResaved /\ LateJobsDumpResaved
    /\ EncryptsWhenAsked /\ FilesOwned /\ ObjectsComplete

\* It holds when the scheduler starts.
LEMMA AutonomousInit == Init => AutonomousInv
<1> SUFFICES ASSUME Init PROVE AutonomousInv
  OBVIOUS
<1> USE AutonomousAssumption DEF Init, session
<1>1. SessionOutlivesJobs
  BY DEF SessionOutlivesJobs, TypeOK, Working
<1>2. JobOrder /\ ItemsCounted /\ EveryItemTried
  BY DEF JobOrder, ItemsCounted, EveryItemTried, Working
<1>3. Untouched /\ LateReadsResaved /\ LateJobsDumpResaved
  BY DEF Untouched, LateReadsResaved, LateJobsDumpResaved, Waiting
<1>4. EncryptsWhenAsked /\ FilesOwned /\ ObjectsComplete
  BY DEF EncryptsWhenAsked, FilesOwned, FileComplete, ObjectsComplete
<1> QED
  BY <1>1, <1>2, <1>3, <1>4 DEF AutonomousInv

\* Every step keeps it.
LEMMA AutonomousInductive == AutonomousInv /\ [Next]_vars => AutonomousInv'
<1> SUFFICES ASSUME AutonomousInv, [Next]_vars PROVE AutonomousInv'
  OBVIOUS
<1> USE DEF AutonomousInv
<1>1. CASE Next
  <2>1. SessionOutlivesJobs'
    BY <1>1, StepTyped, StepStops DEF SessionOutlivesJobs
  <2>2. JobOrder' /\ ItemsCounted' /\ EveryItemTried'
    BY <1>1, StepOrder, StepCounted, StepTried DEF SessionOutlivesJobs
  <2>3. Untouched' /\ LateReadsResaved' /\ LateJobsDumpResaved'
    BY <1>1, StepUntouched, StepLate, StepLateDumps DEF SessionOutlivesJobs
  <2>4. EncryptsWhenAsked' /\ FilesOwned' /\ ObjectsComplete'
    BY <1>1, StepEncrypts, StepOwned, StepObjects DEF SessionOutlivesJobs
  <2> QED
    BY <2>1, <2>2, <2>3, <2>4
<1>2. CASE UNCHANGED vars
  <2> USE <1>2 DEF vars, config, jobs, vault, changer, files, session
  <2>1. SessionOutlivesJobs'
    BY DEF SessionOutlivesJobs, TypeOK, NoneActive, Active
  <2>2. JobOrder' /\ ItemsCounted' /\ EveryItemTried'
    BY DEF JobOrder, ItemsCounted, EveryItemTried
  <2>3. Untouched' /\ LateReadsResaved' /\ LateJobsDumpResaved'
    BY DEF Untouched, LateReadsResaved, LateJobsDumpResaved, Replaced
  <2>4. EncryptsWhenAsked' /\ FilesOwned' /\ ObjectsComplete'
    BY DEF EncryptsWhenAsked, FilesOwned, FileComplete, Clash, ObjectsComplete
  <2> QED
    BY <2>1, <2>2, <2>3, <2>4
<1> QED
  BY <1>1, <1>2

\* In every reachable state each job has what it needs where it is, and what it is
\* about to hand on is complete unless another drew its name (autonomous.go
\* runScheduledDumpForItem).
THEOREM AutonomousInvariant == Spec => []AutonomousInv
  BY AutonomousInit, AutonomousInductive, PTL DEF Spec

\* The program does not stop, and its session is not closed, before its last job
\* is over, and every variable keeps its type (autonomous.go Run).
THEOREM SessionIsOpen == Spec => []SessionOutlivesJobs
<1>1. AutonomousInv => SessionOutlivesJobs
  BY DEF AutonomousInv
<1> QED
  BY <1>1, AutonomousInvariant, PTL

\* What is in the bucket is a complete dump, encrypted when that is asked for,
\* unless two jobs drew one name or the master was changed (autonomous.go
\* runScheduledDumpForItem, dumps.go NewDumpFileName).
THEOREM ObjectsAreComplete == Spec => []ObjectsComplete
<1>1. AutonomousInv => ObjectsComplete
  BY DEF AutonomousInv
<1> QED
  BY <1>1, AutonomousInvariant, PTL

\* A job that starts after the master was changed dumps no item but one whose password
\* was saved with the replaced key again (autonomous.go runScheduledDumpForItem,
\* session.go GetDBPassword, SetDBPassword).
THEOREM LateJobsNeedASave == Spec => []LateJobsDumpResaved
<1>1. AutonomousInv => LateJobsDumpResaved
  BY DEF AutonomousInv
<1> QED
  BY <1>1, AutonomousInvariant, PTL

\* An item that cannot be dumped keeps none of the others from its turn, in every
\* run, fair or not (autonomous.go runSchedule).
THEOREM EveryItemIsTried == Spec => []EveryItemTried
<1>1. AutonomousInv => EveryItemTried
  BY DEF AutonomousInv
<1> QED
  BY <1>1, AutonomousInvariant, PTL
===============================================================================
