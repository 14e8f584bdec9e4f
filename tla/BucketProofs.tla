---------------------------- MODULE BucketProofs ----------------------------
(***************************************************************************)
(* Theorems about dump files and the bucket, for any number of files,      *)
(* clients and changes of master.                                          *)
(***************************************************************************)
EXTENDS Bucket, TLAPS

-----------------------------------------------------------------------------
(* The inductive invariant                                                 *)

\* Everything there is of a name that is not an encrypted dump's is under no key,
\* and everything of one that is, under one.
KeyByName(f, c) == c # None => ((c.key = 0) <=> (f.kind # "enc"))

NamesTellKeys ==
    /\ \A f \in Files : KeyByName(f, disk[f]) /\ KeyByName(f, bucket[f])
    /\ \A c \in Clients : act[c].file # None => KeyByName(act[c].file, act[c].body)
    /\ chg.file # None => chg.file.kind = "enc"

\* What a client is uploading was listed, what it is downloading is an object.
ClientsHold ==
    \A c \in Clients :
        /\ act[c].pc = "put" =>
               /\ act[c].file # None /\ act[c].file.kind # "temp"
               /\ encryptedDump => act[c].file.kind = "enc"
        /\ act[c].pc \in {"stat", "get", "copy"} =>
               act[c].file # None /\ bucket[act[c].file] # None
        /\ act[c].pc = "copy" => act[c].file \in fetched

\* The files a dump has not come to make are nowhere: a job finds nothing under the
\* names it writes.
NotYet(f) ==
    f.dump \notin taken \/ (f.kind = "enc" /\ job[f.dump].pc \in {"dump", "encrypt"})
Nowhere(f) ==
    /\ disk[f] = None /\ bucket[f] = None
    /\ f \notin fetched /\ chg.file # f
    /\ \A c \in Clients : act[c].file # f
NewNamesFree == \A f \in Files : NotYet(f) => Nowhere(f)

\* Until it is downloaded, a file a job is filling is as the job has left it, or
\* removed, and the walk has not read it.
JobAlone ==
    \A f \in Files : f \notin fetched =>
        /\ f.kind = "plain" /\ job[f.dump].pc = "dump" => disk[f] \in {None, Part(Whole(0))}
        /\ f.kind = "enc" /\ job[f.dump].pc = "enc_write" =>
               disk[f] \in {None, Part(Whole(job[f.dump].key))} /\ chg.file # f

\* Until it is downloaded, a file the walk has read stays, or is removed.
ReadStays ==
    /\ chg.pc # "idle" => chg.old < key
    /\ chg.pc = "truncate" /\ chg.file \notin fetched => disk[chg.file] \in {None, Whole(chg.old)}

\* A download that was not agreed to finds nothing to overwrite, but for what
\* another has downloaded since, or the walk made anew.
NothingToLose ==
    \A c \in Clients : act[c].pc = "get" /\ ~act[c].agreed =>
        disk[act[c].file] = None \/ act[c].file \in fetched \cup revived

\* Until a walk has failed, an encrypted dump that was neither downloaded nor
\* encrypted under a replaced key has the current one, is still to be moved to it, is
\* just being written, or was never completely.
Settled(f) ==
    \/ disk[f] = None \/ disk[f] = Whole(key)
    \/ /\ chg.pc # "idle" /\ f \in chg.todo \ chg.done
       /\ chg.pc = "write" => f # chg.file
       /\ disk[f] = Whole(key - 1)
    \/ chg.pc = "write" /\ chg.file = f /\ disk[f] = Part(Whole(key))
    \/ ~disk[f].whole /\ (f.dump \in broken \/ job[f.dump].pc = "enc_write")

WalkIsComplete ==
    ~stopped => \A f \in Files :
        f.kind = "enc" /\ f \notin fetched /\ f.dump \notin outdated => Settled(f)

BucketInv ==
    /\ BucketConfidential /\ NamesTellKeys /\ ClientsHold /\ NewNamesFree /\ JobAlone
    /\ ReadStays /\ NothingToLose /\ WalkIsComplete


\* What a client may be doing.
Pcs == {"idle", "browse", "put", "list", "stat", "get", "copy"}
Acts == [pc : Pcs, file : Files \cup {None}, body : Content \cup {None}, agreed : BOOLEAN]
ActOK(a) ==
    /\ a \in Acts
    /\ a.pc = "idle" => a = NoAct
    /\ a.pc \in {"put", "copy"} => a.body # None

-----------------------------------------------------------------------------
(* Every step keeps it                                                     *)

\* What whole and partial contents are.
LEMMA WholeContent ==
    ASSUME NEW k \in 0 .. MaxKey
    PROVE  Whole(k) \in Content /\ Whole(k).whole /\ Whole(k).key = k
  BY DEF Whole, Content

\* The same of a part of it.
LEMMA PartContent ==
    ASSUME NEW c \in Content
    PROVE  Part(c) \in Content /\ ~Part(c).whole /\ Part(c).key = c.key
  BY DEF Part, Content

\* A reader gets what it opened the file with, what is there now, or a mixture.
LEMMA ReadContent ==
    ASSUME TypeOK, NEW f \in Files, NEW b \in Content, NEW r \in Readings(f, b)
    PROVE  /\ r \in Content
           /\ disk[f] \in {None, b} => r = b
           /\ r.key = b.key \/ (disk[f] # None /\ r.key = disk[f].key)
  BY PartContent DEF TypeOK, Readings

\* A file that is there stays there, whole only when nobody else was writing.
LEMMA FilledContent ==
    ASSUME TypeOK, NEW f \in Files, NEW b \in Content
    PROVE  /\ Filled(f, b) \in Content \cup {None}
           /\ (Filled(f, b) = None) <=> (disk[f] = None)
           /\ Filled(f, b) # None => Filled(f, b).key = b.key
           /\ Filled(f, b) # None => Filled(f, b) = b \/ ~Filled(f, b).whole
<1>1. None \notin Content
  BY BucketAssumption DEF Content
<1>2. /\ Part(b) \in Content /\ Part(b).key = b.key /\ ~Part(b).whole
      /\ b # None /\ Part(b) # None
  BY <1>1, PartContent
<1>3. \/ disk[f] = None /\ Filled(f, b) = None
      \/ disk[f] # None /\ Filled(f, b) = b
      \/ disk[f] # None /\ Filled(f, b) = Part(b)
  BY <1>1, <1>2 DEF Filled
<1> QED
  BY <1>2, <1>3

\* The types of the other variables follow from the client's and the files'.
LEMMA ClientType ==
    ASSUME TypeOK, NEW c \in Clients, NEW a, ActOK(a), act' = [act EXCEPT ![c] = a],
           disk' \in [Files -> Content \cup {None}], bucket' \in [Files -> Content \cup {None}],
           fetched' \subseteq Files, secret' \in {None, "right", "wrong"},
           UNCHANGED <<encryptedDump, key, jobs, change>>
    PROVE  TypeOK'
<1>1. act \in [Clients -> Acts] /\ a \in Acts
  BY DEF TypeOK, ActOK, Acts, Pcs
<1>2. act' \in [Clients -> Acts]
  BY <1>1
<1>3. ASSUME NEW e \in Clients PROVE ActOK(act[e])
  BY DEF TypeOK, ActOK, Acts, Pcs
<1>4. ASSUME NEW e \in Clients PROVE ActOK(act'[e])
  BY <1>1, <1>3
<1>5. act' \in [Clients -> [pc : {"idle", "browse", "put", "list", "stat", "get", "copy"},
                            file : Files \cup {None}, body : Content \cup {None},
                            agreed : BOOLEAN]]
  BY <1>2 DEF Acts, Pcs
<1>6. \A e \in Clients : /\ act'[e].pc = "idle" => act'[e] = NoAct
                         /\ act'[e].pc \in {"put", "copy"} => act'[e].body # None
  BY <1>4 DEF ActOK
<1>7. Content' = Content /\ NoAct' = NoAct /\ NoChange' = NoChange /\ Dumps' = Dumps
  OBVIOUS
<1> QED
  BY <1>5, <1>6, <1>7 DEF TypeOK, jobs, change

\* The same of one client.
LEMMA ClientActs ==
    ASSUME TypeOK, NEW c \in Clients
    PROVE  ActOK(act[c])
  BY DEF TypeOK, ActOK, Acts, Pcs

\* The change of master goes on to a walk over what there is, if anything.
LEMMA MasterChanges ==
    ASSUME TypeOK, NEW k \in 1 .. key, ChangeMaster(k)
    PROVE  /\ chg = NoChange /\ chg.pc = "idle" /\ chg.file = None
           /\ key' = key + 1 /\ chg'.file = None /\ chg'.old < key'
           /\ chg'.pc \in {"idle", "delete", "rewrite"}
           /\ EncryptedFiles # {} => chg'.pc # "idle"
           /\ chg'.todo = EncryptedFiles /\ chg'.done = {}
<1>1. chg = NoChange /\ key' = key + 1 /\ key \in Nat
  BY DEF TypeOK, ChangeMaster
<1>2. CASE EncryptedFiles = {}
  BY <1>1, <1>2 DEF ChangeMaster, NoChange, TypeOK
<1>3. CASE EncryptedFiles # {}
  <2>1. PICK choice \in {"delete", "rewrite"} :
            chg' = [NoChange EXCEPT !.pc = choice, !.old = k, !.todo = EncryptedFiles]
    BY <1>3 DEF ChangeMaster
  <2> QED
    BY <1>1, <2>1 DEF NoChange
<1> QED
  BY <1>2, <1>3

\* Every step keeps the types.
LEMMA TypeStep ==
    ASSUME TypeOK, ClientsHold, Next
    PROVE  TypeOK'
<1> USE BucketAssumption DEF option, Rest, jobs, change
<1>1. ASSUME NEW c \in Clients, NEW pc \in {"browse", "list"}, StartS3(c, pc)
      PROVE  TypeOK'
  <2>1. CASE secret' = "right"
    <3> DEFINE a == Doing(pc, None, None, FALSE)
    <3>1. a \in Acts
      BY ClientActs DEF ActOK, Acts, Pcs, Doing
    <3>2. ActOK(a)
      BY <3>1, BucketAssumption DEF ActOK, Doing
    <3>3. act' = [act EXCEPT ![c] = a]
      BY <1>1, <2>1 DEF StartS3
    <3>4. /\ disk' \in [Files -> Content \cup {None}]
          /\ bucket' \in [Files -> Content \cup {None}]
          /\ fetched' \subseteq Files /\ secret' \in {None, "right", "wrong"}
          /\ UNCHANGED <<encryptedDump, key, jobs, change>>
      BY <1>1, <2>1 DEF TypeOK, StartS3
    <3> HIDE DEF a
    <3> QED
      BY <3>2, <3>3, <3>4, ClientType
  <2>2. CASE secret' # "right"
    BY <1>1, <2>2 DEF StartS3, TypeOK
  <2> QED
    BY <2>1, <2>2
<1>2. ASSUME NEW c \in Clients, Browse(c)
      PROVE  TypeOK'
  <2>1. PICK f \in Files : /\ disk[f] # None
                         /\ act' = [act EXCEPT ![c] = Doing("put", f, disk[f], FALSE)]
    BY <1>2 DEF Browse, ListBrowserEntries
  <2> DEFINE a == Doing("put", f, disk[f], FALSE)
  <2>2. a \in Acts
    BY ClientActs, <2>1 DEF ActOK, Acts, Pcs, Doing, TypeOK
  <2>3. ActOK(a)
    BY <2>2, BucketAssumption, <2>1 DEF ActOK, Doing
  <2>4. act' = [act EXCEPT ![c] = a]
    BY <1>2, <2>1 DEF Browse
  <2>5. /\ disk' \in [Files -> Content \cup {None}]
        /\ bucket' \in [Files -> Content \cup {None}]
        /\ fetched' \subseteq Files /\ secret' \in {None, "right", "wrong"}
        /\ UNCHANGED <<encryptedDump, key, jobs, change>>
    BY <1>2, <2>1 DEF TypeOK, Browse
  <2> HIDE DEF a
  <2> QED
    BY <2>3, <2>4, <2>5, ClientType
<1>3. ASSUME NEW c \in Clients, PutObject(c)
      PROVE  TypeOK'
  <2>1. act[c].pc = "put" /\ act[c].file \in Files \cup {None} /\ act[c].body \in Content
    BY <1>3, ClientActs DEF PutObject, ActOK, Acts
  <2>2. PICK b \in Readings(act[c].file, act[c].body) :
            bucket' = [bucket EXCEPT ![act[c].file] = b]
    BY <1>3 DEF PutObject
  <2>3. bucket' \in [Files -> Content \cup {None}]
    <3>1. CASE act[c].file \in Files
      BY <3>1, <2>1, <2>2, ReadContent DEF TypeOK
    <3>2. CASE act[c].file \notin Files
      BY <3>2, <2>2 DEF TypeOK
    <3> QED
      BY <3>1, <3>2
  <2>4. act' = [act EXCEPT ![c] = NoAct] /\ ActOK(NoAct)
    BY <1>3 DEF PutObject, ActOK, Acts, Pcs, NoAct, Doing
  <2>5. /\ disk' \in [Files -> Content \cup {None}]
        /\ fetched' \subseteq Files /\ secret' \in {None, "right", "wrong"}
        /\ UNCHANGED <<encryptedDump, key, jobs, change>>
    BY <1>3 DEF TypeOK, PutObject
  <2> QED
    BY <2>3, <2>4, <2>5, ClientType
<1>4. ASSUME NEW c \in Clients, SelectObject(c)
      PROVE  TypeOK'
  <2>1. PICK f \in Files : act' = [act EXCEPT ![c] = Doing("stat", f, None, FALSE)]
    BY <1>4 DEF SelectObject, ListObjects
  <2> DEFINE a == Doing("stat", f, None, FALSE)
  <2>2. a \in Acts
    BY ClientActs, <2>1 DEF ActOK, Acts, Pcs, Doing
  <2>3. ActOK(a)
    BY <2>2, BucketAssumption, <2>1 DEF ActOK, Doing
  <2>4. act' = [act EXCEPT ![c] = a]
    BY <1>4, <2>1 DEF SelectObject
  <2>5. /\ disk' \in [Files -> Content \cup {None}]
        /\ bucket' \in [Files -> Content \cup {None}]
        /\ fetched' \subseteq Files /\ secret' \in {None, "right", "wrong"}
        /\ UNCHANGED <<encryptedDump, key, jobs, change>>
    BY <1>4, <2>1 DEF TypeOK, SelectObject
  <2> HIDE DEF a
  <2> QED
    BY <2>3, <2>4, <2>5, ClientType
<1>5. ASSUME NEW c \in Clients, ConfirmOverwrite(c)
      PROVE  TypeOK'
  <2> DEFINE a == Doing("get", act[c].file, None, (disk[act[c].file] # None))
  <2>1. a \in Acts
    BY ClientActs DEF ActOK, Acts, Pcs, Doing
  <2>2. ActOK(a)
    BY <2>1, BucketAssumption DEF ActOK, Doing
  <2>3. act' = [act EXCEPT ![c] = a]
    BY <1>5 DEF ConfirmOverwrite
  <2>4. /\ disk' \in [Files -> Content \cup {None}]
        /\ bucket' \in [Files -> Content \cup {None}]
        /\ fetched' \subseteq Files /\ secret' \in {None, "right", "wrong"}
        /\ UNCHANGED <<encryptedDump, key, jobs, change>>
    BY <1>5 DEF TypeOK, ConfirmOverwrite
  <2> HIDE DEF a
  <2> QED
    BY <2>2, <2>3, <2>4, ClientType
<1>6. ASSUME NEW c \in Clients, Download(c)
      PROVE  TypeOK'
  <2>1. act[c].pc = "get" /\ act[c].file \in Files /\ bucket[act[c].file] \in Content
    BY <1>6, BucketAssumption DEF Download, ClientsHold, TypeOK
  <2> DEFINE a == Doing("copy", act[c].file, bucket[act[c].file], act[c].agreed)
  <2>2. a \in Acts
    BY ClientActs, <2>1, PartContent DEF ActOK, Acts, Pcs, Doing
  <2>3. ActOK(a)
    BY <2>2, BucketAssumption, <2>1, PartContent DEF ActOK, Doing, Content
  <2>4. act' = [act EXCEPT ![c] = a]
    BY <1>6 DEF Download
  <2>5. /\ disk' \in [Files -> Content \cup {None}]
        /\ bucket' \in [Files -> Content \cup {None}]
        /\ fetched' \subseteq Files /\ secret' \in {None, "right", "wrong"}
        /\ UNCHANGED <<encryptedDump, key, jobs, change>>
    BY <1>6, <2>1, PartContent DEF TypeOK, Download
  <2> HIDE DEF a
  <2> QED
    BY <2>3, <2>4, <2>5, ClientType
<1>7. ASSUME NEW c \in Clients, CopyEnds(c)
      PROVE  TypeOK'
  <2>1. act[c].file \in Files /\ act[c].body \in Content
    BY <1>7, BucketAssumption DEF CopyEnds, ClientsHold, TypeOK
  <2>2. disk' \in [Files -> Content \cup {None}]
    BY <1>7, <2>1, FilledContent DEF TypeOK, CopyEnds
  <2>3. act' = [act EXCEPT ![c] = NoAct] /\ ActOK(NoAct)
    BY <1>7 DEF CopyEnds, ActOK, Acts, Pcs, NoAct, Doing
  <2>4. /\ bucket' \in [Files -> Content \cup {None}]
        /\ fetched' \subseteq Files /\ secret' \in {None, "right", "wrong"}
        /\ UNCHANGED <<encryptedDump, key, jobs, change>>
    BY <1>7 DEF TypeOK, CopyEnds
  <2> QED
    BY <2>2, <2>3, <2>4, ClientType
<1>8. ASSUME NEW c \in Clients, Leaves(c)
      PROVE  TypeOK'
  <2>1. act' = [act EXCEPT ![c] = NoAct] /\ ActOK(NoAct)
    BY <1>8 DEF Leaves, ActOK, Acts, Pcs, NoAct, Doing
  <2>2. /\ disk' \in [Files -> Content \cup {None}]
        /\ bucket' \in [Files -> Content \cup {None}]
        /\ fetched' \subseteq Files /\ secret' \in {None, "right", "wrong"}
        /\ UNCHANGED <<encryptedDump, key, jobs, change>>
    BY <1>8 DEF TypeOK, Leaves
  <2> QED
    BY <2>1, <2>2, ClientType
<1>9. ASSUME NEW d \in Dumps, NEW k \in 1 .. key, StartDump(d, k)
      PROVE  TypeOK'
  <2>1. job' \in [Dumps -> [pc : {"none", "dump", "encrypt", "enc_write"}, key : 0 .. MaxKey]]
    BY <1>9 DEF TypeOK, NoJob, StartDump
  <2>2. \A e \in Dumps : job'[e].pc # "none" => job'[e].key # 0
    BY <1>9 DEF TypeOK, NoJob, StartDump
  <2>3. disk' \in [Files -> Content \cup {None}]
    BY <1>9, WholeContent, PartContent DEF TypeOK, StartDump
  <2> QED
    BY <1>9, <2>1, <2>2, <2>3 DEF TypeOK, StartDump
<1>10. ASSUME NEW d \in Dumps, PgDumpEnds(d)
      PROVE  TypeOK'
  <2>1. job' \in [Dumps -> [pc : {"none", "dump", "encrypt", "enc_write"}, key : 0 .. MaxKey]]
    BY <1>10 DEF TypeOK, NoJob, PgDumpEnds
  <2>2. \A e \in Dumps : job'[e].pc # "none" => job'[e].key # 0
    BY <1>10 DEF TypeOK, NoJob, PgDumpEnds
  <2>3. disk' \in [Files -> Content \cup {None}]
    BY <1>10, WholeContent, FilledContent DEF TypeOK, PgDumpEnds
  <2> QED
    BY <1>10, <2>1, <2>2, <2>3 DEF TypeOK, PgDumpEnds
<1>11. ASSUME NEW d \in Dumps, EncryptBegins(d)
      PROVE  TypeOK'
  <2>1. job' \in [Dumps -> [pc : {"none", "dump", "encrypt", "enc_write"}, key : 0 .. MaxKey]]
    BY <1>11 DEF TypeOK, NoJob, EncryptBegins
  <2>2. \A e \in Dumps : job'[e].pc # "none" => job'[e].key # 0
    BY <1>11 DEF TypeOK, NoJob, EncryptBegins
  <2>3. disk' \in [Files -> Content \cup {None}]
    BY <1>11, WholeContent, PartContent DEF TypeOK, EncryptBegins
  <2> QED
    BY <1>11, <2>1, <2>2, <2>3 DEF TypeOK, EncryptBegins
<1>12. ASSUME NEW d \in Dumps, EncryptEnds(d)
      PROVE  TypeOK'
  <2>1. job' \in [Dumps -> [pc : {"none", "dump", "encrypt", "enc_write"}, key : 0 .. MaxKey]]
    BY <1>12 DEF TypeOK, NoJob, EncryptEnds
  <2>2. \A e \in Dumps : job'[e].pc # "none" => job'[e].key # 0
    BY <1>12 DEF TypeOK, NoJob, EncryptEnds
  <2>3. disk' \in [Files -> Content \cup {None}]
    BY <1>12, WholeContent, FilledContent DEF TypeOK, EncryptEnds
  <2> QED
    BY <1>12, <2>1, <2>2, <2>3 DEF TypeOK, EncryptEnds
<1>13. ASSUME NEW d \in Dumps, JobFails(d)
      PROVE  TypeOK'
  <2>1. job' \in [Dumps -> [pc : {"none", "dump", "encrypt", "enc_write"}, key : 0 .. MaxKey]]
    BY <1>13 DEF TypeOK, NoJob, JobFails
  <2>2. \A e \in Dumps : job'[e].pc # "none" => job'[e].key # 0
    BY <1>13 DEF TypeOK, NoJob, JobFails
  <2>3. disk' \in [Files -> Content \cup {None}]
    BY <1>13 DEF TypeOK, JobFails
  <2> QED
    BY <1>13, <2>1, <2>2, <2>3 DEF TypeOK, JobFails
<1>14. ASSUME NEW f \in Files, Decrypted(f)
      PROVE  TypeOK'
  BY <1>14 DEF TypeOK, Content, Decrypted, Whole
<1>15. ASSUME NEW f \in Files, UserRemoves(f)
      PROVE  TypeOK'
  BY <1>15 DEF TypeOK, UserRemoves
<1>16. ASSUME NEW f \in Files, DeleteOne(f)
      PROVE  TypeOK'
  BY <1>16 DEF TypeOK, DeleteOne
<1>17. ASSUME NEW f \in Files, RewriteReads(f)
      PROVE  TypeOK'
  <2>1. /\ chg' \in [pc : {"idle", "delete", "rewrite", "truncate", "write"}, old : 0 .. MaxKey,
                    todo : SUBSET Files, done : SUBSET Files, file : Files \cup {None}]
        /\ chg'.pc = "truncate" /\ chg'.file = f
    BY <1>17 DEF TypeOK, RewriteReads
  <2> QED
    BY <1>17, <2>1 DEF TypeOK, RewriteReads
<1>18. ASSUME NEW f \in Files, RewriteRefused(f)
      PROVE  TypeOK'
  BY <1>18 DEF TypeOK, NoChange, RewriteRefused
<1>19. ASSUME NEW k \in 1 .. key, ChangeMaster(k)
      PROVE  TypeOK'
  <2>1. key' \in 1 .. MaxKey /\ k \in 0 .. MaxKey /\ EncryptedFiles \subseteq Files
    BY <1>19 DEF TypeOK, ChangeMaster, EncryptedFiles
  <2>2. CASE chg' = chg
    BY <1>19, <2>1, <2>2 DEF TypeOK, ChangeMaster
  <2>3. CASE chg' # chg
    <3>1. PICK choice \in {"delete", "rewrite"} :
              chg' = [NoChange EXCEPT !.pc = choice, !.old = k, !.todo = EncryptedFiles]
      BY <1>19, <2>3 DEF ChangeMaster
    <3>2. chg' = [pc |-> choice, old |-> k, todo |-> EncryptedFiles, done |-> {}, file |-> None]
      BY <3>1 DEF NoChange
    <3> QED
      BY <1>19, <2>1, <3>2 DEF TypeOK, ChangeMaster
  <2> QED
    BY <2>2, <2>3
<1>20. CASE RewriteTruncates
  <2>1. chg.file \in Files /\ Part(Whole(key)) \in Content
    BY <1>20, WholeContent, PartContent DEF TypeOK, RewriteTruncates
  <2>2. disk' \in [Files -> Content \cup {None}] /\ revived' \subseteq Files
    BY <1>20, <2>1 DEF TypeOK, RewriteTruncates
  <2>3. /\ chg' \in [pc : {"idle", "delete", "rewrite", "truncate", "write"}, old : 0 .. MaxKey,
                    todo : SUBSET Files, done : SUBSET Files, file : Files \cup {None}]
        /\ chg'.pc = "write" /\ chg'.file # None
    BY <1>20 DEF TypeOK, RewriteTruncates
  <2> QED
    BY <1>20, <2>2, <2>3 DEF TypeOK, RewriteTruncates
<1>21. CASE RewriteEnds
  <2>1. Whole(key) \in Content /\ chg.file \in Files
    BY <1>21, WholeContent DEF TypeOK, RewriteEnds
  <2>2. disk' \in [Files -> Content \cup {None}]
    BY <1>21, <2>1, FilledContent DEF TypeOK, RewriteEnds
  <2>3. /\ chg' \in [pc : {"idle", "delete", "rewrite", "truncate", "write"}, old : 0 .. MaxKey,
                    todo : SUBSET Files, done : SUBSET Files, file : Files \cup {None}]
        /\ chg'.pc = "rewrite" /\ chg'.file = None
    BY <1>21, <2>1 DEF TypeOK, RewriteEnds
  <2> QED
    BY <1>21, <2>2, <2>3 DEF TypeOK, RewriteEnds
<1>22. CASE WalkEnds
  BY <1>22 DEF TypeOK, NoChange, WalkEnds
<1>23. CASE WalkStops
  BY <1>23 DEF TypeOK, NoChange, WalkStops
<1> QED
  BY <1>1, <1>2, <1>3, <1>4, <1>5, <1>6, <1>7, <1>8, <1>9, <1>10, <1>11, <1>12, <1>13,
     <1>14, <1>15, <1>16, <1>17, <1>18, <1>19, <1>20, <1>21, <1>22, <1>23 DEF Next

\* Names keep telling keys.
LEMMA NamesStep ==
    ASSUME TypeOK, NamesTellKeys, ClientsHold, Next
    PROVE  NamesTellKeys'
<1> USE BucketAssumption DEF option, Rest, jobs, change
<1>1. ASSUME NEW c \in Clients, NEW pc \in {"browse", "list"}, StartS3(c, pc)
      PROVE  NamesTellKeys'
  BY <1>1 DEF Doing, NamesTellKeys, StartS3
<1>2. ASSUME NEW c \in Clients, Browse(c)
      PROVE  NamesTellKeys'
  BY <1>2 DEF Doing, NamesTellKeys, Browse, ListBrowserEntries
<1>3. ASSUME NEW c \in Clients, PutObject(c)
      PROVE  NamesTellKeys'
  BY <1>3 DEF TypeOK, Content, NoAct, Doing, NamesTellKeys, KeyByName, PutObject, Readings, Part
<1>4. ASSUME NEW c \in Clients, SelectObject(c)
      PROVE  NamesTellKeys'
  BY <1>4 DEF Doing, NamesTellKeys, KeyByName, SelectObject
<1>5. ASSUME NEW c \in Clients, ConfirmOverwrite(c)
      PROVE  NamesTellKeys'
  BY <1>5 DEF Doing, NamesTellKeys, KeyByName, ConfirmOverwrite
<1>6. ASSUME NEW c \in Clients, Download(c)
      PROVE  NamesTellKeys'
  <2> DEFINE f == act[c].file
  <2>1. f \in Files /\ bucket[f] \in Content
    BY <1>6, BucketAssumption DEF Download, ClientsHold, TypeOK
  <2>2. KeyByName(f, Part(bucket[f]))
    BY <2>1, PartContent, BucketAssumption DEF NamesTellKeys, KeyByName, Content
  <2>3. /\ disk' = [disk EXCEPT ![f] = Part(bucket[f])]
        /\ act' = [act EXCEPT ![c] = Doing("copy", f, bucket[f], act[c].agreed)]
        /\ bucket' = bucket /\ chg' = chg
    BY <1>6 DEF Download
  <2>4. \A g \in Files : KeyByName(g, disk'[g]) /\ KeyByName(g, bucket'[g])
    BY <2>2, <2>3 DEF NamesTellKeys
  <2>5. \A e \in Clients : act'[e].file # None => KeyByName(act'[e].file, act'[e].body)
    BY <2>1, <2>3 DEF NamesTellKeys, Doing
  <2> QED
    BY <2>3, <2>4, <2>5 DEF NamesTellKeys
<1>7. ASSUME NEW c \in Clients, CopyEnds(c)
      PROVE  NamesTellKeys'
  BY <1>7 DEF TypeOK, NoAct, Doing, NamesTellKeys, KeyByName, CopyEnds, Filled, Part
<1>8. ASSUME NEW c \in Clients, Leaves(c)
      PROVE  NamesTellKeys'
  BY <1>8 DEF NoAct, Doing, NamesTellKeys, Leaves
<1>9. ASSUME NEW d \in Dumps, NEW k \in 1 .. key, StartDump(d, k)
      PROVE  NamesTellKeys'
  <2>1. \A g \in Files : KeyByName(g, disk'[g])
    BY <1>9 DEF TypeOK, NamesTellKeys, KeyByName, OfDump, StartDump, Whole, Part
  <2> QED
    BY <1>9, <2>1 DEF NamesTellKeys, StartDump
<1>10. ASSUME NEW d \in Dumps, PgDumpEnds(d)
      PROVE  NamesTellKeys'
  <2>1. \A g \in Files : KeyByName(g, disk'[g])
    BY <1>10, WholeContent, FilledContent DEF TypeOK, NamesTellKeys, KeyByName, OfDump, PgDumpEnds
  <2> QED
    BY <1>10, <2>1 DEF NamesTellKeys, PgDumpEnds
<1>11. ASSUME NEW d \in Dumps, EncryptBegins(d)
      PROVE  NamesTellKeys'
  <2>1. Whole(job[d].key) \in Content /\ Whole(job[d].key).key = job[d].key /\ job[d].key # 0
    BY <1>11, WholeContent DEF TypeOK, EncryptBegins
  <2>2. \A g \in Files : KeyByName(g, disk'[g])
    BY <1>11, <2>1, WholeContent, PartContent, FilledContent DEF TypeOK, NamesTellKeys, KeyByName, OfDump, EncryptBegins
  <2> QED
    BY <1>11, <2>2 DEF NamesTellKeys, EncryptBegins
<1>12. ASSUME NEW d \in Dumps, EncryptEnds(d)
      PROVE  NamesTellKeys'
  <2>1. Whole(job[d].key) \in Content /\ Whole(job[d].key).key = job[d].key /\ job[d].key # 0
    BY <1>12, WholeContent DEF TypeOK, EncryptEnds
  <2>2. \A g \in Files : KeyByName(g, disk'[g])
    BY <1>12, <2>1, WholeContent, PartContent, FilledContent DEF TypeOK, NamesTellKeys, KeyByName, OfDump, EncryptEnds
  <2> QED
    BY <1>12, <2>2 DEF NamesTellKeys, EncryptEnds
<1>13. ASSUME NEW d \in Dumps, JobFails(d)
      PROVE  NamesTellKeys'
  BY <1>13 DEF TypeOK, NamesTellKeys, KeyByName, JobFails
<1>14. ASSUME NEW f \in Files, Decrypted(f)
      PROVE  NamesTellKeys'
  BY <1>14 DEF NamesTellKeys, KeyByName, Decrypted, Whole
<1>15. ASSUME NEW f \in Files, UserRemoves(f)
      PROVE  NamesTellKeys'
  BY <1>15 DEF NamesTellKeys, KeyByName, UserRemoves
<1>16. ASSUME NEW f \in Files, DeleteOne(f)
      PROVE  NamesTellKeys'
  BY <1>16 DEF NamesTellKeys, KeyByName, DeleteOne
<1>17. ASSUME NEW f \in Files, RewriteReads(f)
      PROVE  NamesTellKeys'
  BY <1>17 DEF TypeOK, NamesTellKeys, RewriteReads, EncryptedFiles, IsEncryptedDumpName
<1>18. ASSUME NEW f \in Files, RewriteRefused(f)
      PROVE  NamesTellKeys'
  BY <1>18 DEF NoChange, NamesTellKeys, RewriteRefused
<1>19. ASSUME NEW k \in 1 .. key, ChangeMaster(k)
      PROVE  NamesTellKeys'
  BY <1>19 DEF TypeOK, NamesTellKeys, NoChange, ChangeMaster
<1>20. CASE RewriteTruncates
  BY <1>20 DEF TypeOK, NamesTellKeys, KeyByName, RewriteTruncates, Whole, Part
<1>21. CASE RewriteEnds
  <2>1. chg.file \in Files /\ Whole(key) \in Content /\ Whole(key).key # 0
    BY <1>21, WholeContent DEF RewriteEnds, TypeOK
  <2>2. KeyByName(chg.file, Filled(chg.file, Whole(key)))
    BY <1>21, <2>1, FilledContent DEF RewriteEnds, NamesTellKeys, KeyByName
  <2>3. \A g \in Files : KeyByName(g, disk'[g])
    BY <1>21, <2>2 DEF RewriteEnds, NamesTellKeys
  <2> QED
    BY <1>21, <2>3 DEF RewriteEnds, NamesTellKeys
<1>22. CASE WalkEnds
  BY <1>22 DEF NoChange, NamesTellKeys, WalkEnds
<1>23. CASE WalkStops
  BY <1>23 DEF NoChange, NamesTellKeys, WalkStops
<1> QED
  BY <1>1, <1>2, <1>3, <1>4, <1>5, <1>6, <1>7, <1>8, <1>9, <1>10, <1>11, <1>12, <1>13,
     <1>14, <1>15, <1>16, <1>17, <1>18, <1>19, <1>20, <1>21, <1>22, <1>23 DEF Next

\* Clients keep to what they were shown.
LEMMA ClientsStep ==
    ASSUME TypeOK, ClientsHold, Next
    PROVE  ClientsHold'
<1> USE BucketAssumption DEF option, Rest, jobs, change
<1>1. ASSUME NEW c \in Clients, NEW pc \in {"browse", "list"}, StartS3(c, pc)
      PROVE  ClientsHold'
  BY <1>1 DEF Doing, ClientsHold, StartS3
<1>2. ASSUME NEW c \in Clients, Browse(c)
      PROVE  ClientsHold'
  BY <1>2 DEF TypeOK, Doing, ClientsHold, Browse, ListBrowserEntries, IsEncryptedDumpName
<1>3. ASSUME NEW c \in Clients, PutObject(c)
      PROVE  ClientsHold'
  <2>1. act[c].pc = "put" /\ act[c].file \in Files /\ act[c].body \in Content
    BY <1>3, BucketAssumption DEF PutObject, ClientsHold, TypeOK
  <2>2. PICK b \in Readings(act[c].file, act[c].body) : bucket' = [bucket EXCEPT ![act[c].file] = b]
    BY <1>3 DEF PutObject
  <2>3. b # None
    BY <2>1, ReadContent, BucketAssumption DEF Content
  <2>4. /\ act' = [act EXCEPT ![c] = NoAct]
        /\ UNCHANGED <<disk, encryptedDump, fetched>>
    BY <1>3 DEF PutObject
  <2>6. \A f \in Files : bucket[f] # None => bucket'[f] # None
    BY <2>2, <2>3
  <2>7. ASSUME NEW e \in Clients, e # c
        PROVE  act'[e] = act[e] /\ act[e].file \in Files \cup {None}
    BY <2>4, <2>7 DEF TypeOK
  <2>8. act'[c] = NoAct
    BY <2>4 DEF TypeOK
  <2> QED
    BY <2>4, <2>6, <2>7, <2>8 DEF ClientsHold, NoAct, Doing
<1>4. ASSUME NEW c \in Clients, SelectObject(c)
      PROVE  ClientsHold'
  BY <1>4 DEF Doing, ClientsHold, SelectObject, ListObjects
<1>5. ASSUME NEW c \in Clients, ConfirmOverwrite(c)
      PROVE  ClientsHold'
  BY <1>5 DEF Doing, ClientsHold, ConfirmOverwrite
<1>6. ASSUME NEW c \in Clients, Download(c)
      PROVE  ClientsHold'
  BY <1>6 DEF Doing, ClientsHold, Download
<1>7. ASSUME NEW c \in Clients, CopyEnds(c)
      PROVE  ClientsHold'
  BY <1>7 DEF NoAct, Doing, ClientsHold, CopyEnds
<1>8. ASSUME NEW c \in Clients, Leaves(c)
      PROVE  ClientsHold'
  BY <1>8 DEF NoAct, Doing, ClientsHold, Leaves
<1>9. ASSUME NEW d \in Dumps, NEW k \in 1 .. key, StartDump(d, k)
      PROVE  ClientsHold'
  BY <1>9 DEF ClientsHold, StartDump
<1>10. ASSUME NEW d \in Dumps, PgDumpEnds(d)
      PROVE  ClientsHold'
  BY <1>10 DEF ClientsHold, PgDumpEnds
<1>11. ASSUME NEW d \in Dumps, EncryptBegins(d)
      PROVE  ClientsHold'
  BY <1>11 DEF ClientsHold, EncryptBegins
<1>12. ASSUME NEW d \in Dumps, EncryptEnds(d)
      PROVE  ClientsHold'
  BY <1>12 DEF ClientsHold, EncryptEnds
<1>13. ASSUME NEW d \in Dumps, JobFails(d)
      PROVE  ClientsHold'
  BY <1>13 DEF ClientsHold, JobFails
<1>14. ASSUME NEW f \in Files, Decrypted(f)
      PROVE  ClientsHold'
  BY <1>14 DEF ClientsHold, Decrypted, Opens
<1>15. ASSUME NEW f \in Files, UserRemoves(f)
      PROVE  ClientsHold'
  BY <1>15 DEF ClientsHold, UserRemoves
<1>16. ASSUME NEW f \in Files, DeleteOne(f)
      PROVE  ClientsHold'
  BY <1>16 DEF ClientsHold, DeleteOne
<1>17. ASSUME NEW f \in Files, RewriteReads(f)
      PROVE  ClientsHold'
  BY <1>17 DEF ClientsHold, RewriteReads
<1>18. ASSUME NEW f \in Files, RewriteRefused(f)
      PROVE  ClientsHold'
  BY <1>18 DEF ClientsHold, RewriteRefused
<1>19. ASSUME NEW k \in 1 .. key, ChangeMaster(k)
      PROVE  ClientsHold'
  BY <1>19 DEF ClientsHold, ChangeMaster
<1>20. CASE RewriteTruncates
  BY <1>20 DEF ClientsHold, RewriteTruncates
<1>21. CASE RewriteEnds
  BY <1>21 DEF ClientsHold, RewriteEnds, Filled
<1>22. CASE WalkEnds
  BY <1>22 DEF ClientsHold, WalkEnds
<1>23. CASE WalkStops
  BY <1>23 DEF ClientsHold, WalkStops
<1> QED
  BY <1>1, <1>2, <1>3, <1>4, <1>5, <1>6, <1>7, <1>8, <1>9, <1>10, <1>11, <1>12, <1>13,
     <1>14, <1>15, <1>16, <1>17, <1>18, <1>19, <1>20, <1>21, <1>22, <1>23 DEF Next

\* Nothing plain goes up.
LEMMA ConfidentialStep ==
    ASSUME TypeOK, NamesTellKeys, ClientsHold, BucketConfidential, Next
    PROVE  (TypeOK' => BucketConfidential')
<1> USE BucketAssumption DEF option, Rest, jobs, change
<1>1. ASSUME NEW c \in Clients, NEW pc \in {"browse", "list"}, StartS3(c, pc)
      PROVE  (TypeOK' => BucketConfidential')
  BY <1>1 DEF BucketConfidential, StartS3
<1>2. ASSUME NEW c \in Clients, Browse(c)
      PROVE  (TypeOK' => BucketConfidential')
  BY <1>2 DEF BucketConfidential, Browse
<1>3. ASSUME NEW c \in Clients, PutObject(c)
      PROVE  (TypeOK' => BucketConfidential')
  BY <1>3 DEF TypeOK, Content, NamesTellKeys, KeyByName, ClientsHold, BucketConfidential,
     PutObject, Readings, Part
<1>4. ASSUME NEW c \in Clients, SelectObject(c)
      PROVE  (TypeOK' => BucketConfidential')
  BY <1>4 DEF BucketConfidential, SelectObject
<1>5. ASSUME NEW c \in Clients, ConfirmOverwrite(c)
      PROVE  (TypeOK' => BucketConfidential')
  BY <1>5 DEF BucketConfidential, ConfirmOverwrite
<1>6. ASSUME NEW c \in Clients, Download(c)
      PROVE  (TypeOK' => BucketConfidential')
  BY <1>6 DEF BucketConfidential, Download
<1>7. ASSUME NEW c \in Clients, CopyEnds(c)
      PROVE  (TypeOK' => BucketConfidential')
  BY <1>7 DEF BucketConfidential, CopyEnds
<1>8. ASSUME NEW c \in Clients, Leaves(c)
      PROVE  (TypeOK' => BucketConfidential')
  BY <1>8 DEF BucketConfidential, Leaves
<1>9. ASSUME NEW d \in Dumps, NEW k \in 1 .. key, StartDump(d, k)
      PROVE  (TypeOK' => BucketConfidential')
  BY <1>9 DEF BucketConfidential, StartDump
<1>10. ASSUME NEW d \in Dumps, PgDumpEnds(d)
      PROVE  (TypeOK' => BucketConfidential')
  BY <1>10 DEF BucketConfidential, PgDumpEnds
<1>11. ASSUME NEW d \in Dumps, EncryptBegins(d)
      PROVE  (TypeOK' => BucketConfidential')
  BY <1>11 DEF BucketConfidential, EncryptBegins
<1>12. ASSUME NEW d \in Dumps, EncryptEnds(d)
      PROVE  (TypeOK' => BucketConfidential')
  BY <1>12 DEF BucketConfidential, EncryptEnds
<1>13. ASSUME NEW d \in Dumps, JobFails(d)
      PROVE  (TypeOK' => BucketConfidential')
  BY <1>13 DEF BucketConfidential, JobFails
<1>14. ASSUME NEW f \in Files, Decrypted(f)
      PROVE  (TypeOK' => BucketConfidential')
  BY <1>14 DEF BucketConfidential, Decrypted
<1>15. ASSUME NEW f \in Files, UserRemoves(f)
      PROVE  (TypeOK' => BucketConfidential')
  BY <1>15 DEF BucketConfidential, UserRemoves
<1>16. ASSUME NEW f \in Files, DeleteOne(f)
      PROVE  (TypeOK' => BucketConfidential')
  BY <1>16 DEF BucketConfidential, DeleteOne
<1>17. ASSUME NEW f \in Files, RewriteReads(f)
      PROVE  (TypeOK' => BucketConfidential')
  BY <1>17 DEF BucketConfidential, RewriteReads
<1>18. ASSUME NEW f \in Files, RewriteRefused(f)
      PROVE  (TypeOK' => BucketConfidential')
  BY <1>18 DEF BucketConfidential, RewriteRefused
<1>19. ASSUME NEW k \in 1 .. key, ChangeMaster(k)
      PROVE  (TypeOK' => BucketConfidential')
  BY <1>19 DEF BucketConfidential, ChangeMaster
<1>20. CASE RewriteTruncates
  BY <1>20 DEF BucketConfidential, RewriteTruncates
<1>21. CASE RewriteEnds
  BY <1>21 DEF BucketConfidential, RewriteEnds
<1>22. CASE WalkEnds
  BY <1>22 DEF BucketConfidential, WalkEnds
<1>23. CASE WalkStops
  BY <1>23 DEF BucketConfidential, WalkStops
<1> QED
  BY <1>1, <1>2, <1>3, <1>4, <1>5, <1>6, <1>7, <1>8, <1>9, <1>10, <1>11, <1>12, <1>13,
     <1>14, <1>15, <1>16, <1>17, <1>18, <1>19, <1>20, <1>21, <1>22, <1>23 DEF Next

\* A download that was not agreed to has nothing to lose.
LEMMA LoseStep ==
    ASSUME TypeOK, ClientsHold, BucketConfidential, NewNamesFree, NothingToLose, Next
    PROVE  NothingToLose'
<1> USE BucketAssumption DEF option, Rest, jobs, change
<1>0. \A c \in Clients : act[c].pc = "get" => act[c].file \in Files
  BY DEF TypeOK, ClientsHold
<1>1. ASSUME NEW c \in Clients, NEW pc \in {"browse", "list"}, StartS3(c, pc)
      PROVE  NothingToLose'
  BY <1>1 DEF Doing, BucketConfidential, NothingToLose, StartS3
<1>2. ASSUME NEW c \in Clients, Browse(c)
      PROVE  NothingToLose'
  BY <1>2 DEF Doing, BucketConfidential, NothingToLose, Browse
<1>3. ASSUME NEW c \in Clients, PutObject(c)
      PROVE  NothingToLose'
  BY <1>3 DEF NoAct, Doing, BucketConfidential, NothingToLose, PutObject
<1>4. ASSUME NEW c \in Clients, SelectObject(c)
      PROVE  NothingToLose'
  BY <1>4 DEF Doing, BucketConfidential, NothingToLose, SelectObject
<1>5. ASSUME NEW c \in Clients, ConfirmOverwrite(c)
      PROVE  NothingToLose'
  BY <1>5 DEF TypeOK, Doing, BucketConfidential, NothingToLose, ConfirmOverwrite
<1>6. ASSUME NEW c \in Clients, Download(c)
      PROVE  NothingToLose'
  BY <1>6 DEF TypeOK, Doing, NothingToLose, Download
<1>7. ASSUME NEW c \in Clients, CopyEnds(c)
      PROVE  NothingToLose'
  BY <1>7 DEF NoAct, Doing, BucketConfidential, NothingToLose, CopyEnds, Filled
<1>8. ASSUME NEW c \in Clients, Leaves(c)
      PROVE  NothingToLose'
  BY <1>8 DEF NoAct, Doing, BucketConfidential, NothingToLose, Leaves
<1>9. ASSUME NEW d \in Dumps, NEW k \in 1 .. key, StartDump(d, k)
      PROVE  NothingToLose'
  BY <1>0, <1>9 DEF TypeOK, NothingToLose, NewNamesFree, NotYet, Nowhere, OfDump, StartDump
<1>10. ASSUME NEW d \in Dumps, PgDumpEnds(d)
      PROVE  NothingToLose'
  BY <1>0, <1>10 DEF TypeOK, NothingToLose, Filled, OfDump, PgDumpEnds
<1>11. ASSUME NEW d \in Dumps, EncryptBegins(d)
      PROVE  NothingToLose'
  BY <1>0, <1>11 DEF TypeOK, NothingToLose, NewNamesFree, NotYet, Nowhere, OfDump, EncryptBegins
<1>12. ASSUME NEW d \in Dumps, EncryptEnds(d)
      PROVE  NothingToLose'
  BY <1>0, <1>12 DEF TypeOK, NothingToLose, Filled, OfDump, EncryptEnds
<1>13. ASSUME NEW d \in Dumps, JobFails(d)
      PROVE  NothingToLose'
  BY <1>0, <1>13 DEF TypeOK, NothingToLose, OfDump, JobFails
<1>14. ASSUME NEW f \in Files, Decrypted(f)
      PROVE  NothingToLose'
  BY <1>14 DEF ClientsHold, BucketConfidential, NothingToLose, Decrypted
<1>15. ASSUME NEW f \in Files, UserRemoves(f)
      PROVE  NothingToLose'
  BY <1>15 DEF BucketConfidential, NothingToLose, UserRemoves
<1>16. ASSUME NEW f \in Files, DeleteOne(f)
      PROVE  NothingToLose'
  BY <1>16 DEF BucketConfidential, NothingToLose, DeleteOne
<1>17. ASSUME NEW f \in Files, RewriteReads(f)
      PROVE  NothingToLose'
  BY <1>17 DEF NothingToLose, BucketConfidential, RewriteReads
<1>18. ASSUME NEW f \in Files, RewriteRefused(f)
      PROVE  NothingToLose'
  BY <1>18 DEF BucketConfidential, NothingToLose, RewriteRefused
<1>19. ASSUME NEW k \in 1 .. key, ChangeMaster(k)
      PROVE  NothingToLose'
  BY <1>19 DEF BucketConfidential, NothingToLose, ChangeMaster
<1>20. CASE RewriteTruncates
  BY <1>20 DEF TypeOK, NothingToLose, RewriteTruncates
<1>21. CASE RewriteEnds
  BY <1>21 DEF TypeOK, NothingToLose, RewriteEnds, Filled
<1>22. CASE WalkEnds
  BY <1>22 DEF BucketConfidential, NothingToLose, WalkEnds
<1>23. CASE WalkStops
  BY <1>23 DEF BucketConfidential, NothingToLose, WalkStops
<1> QED
  BY <1>1, <1>2, <1>3, <1>4, <1>5, <1>6, <1>7, <1>8, <1>9, <1>10, <1>11, <1>12, <1>13,
     <1>14, <1>15, <1>16, <1>17, <1>18, <1>19, <1>20, <1>21, <1>22, <1>23 DEF Next

\* New names stay free.
LEMMA NamesFreeStep ==
    ASSUME TypeOK, NamesTellKeys, ClientsHold, BucketConfidential, NewNamesFree, Next
    PROVE  NewNamesFree'
<1> USE BucketAssumption DEF option, Rest, jobs, change
<1>1. ASSUME NEW c \in Clients, NEW pc \in {"browse", "list"}, StartS3(c, pc)
      PROVE  NewNamesFree'
  BY <1>1 DEF TypeOK, NewNamesFree, NotYet, Nowhere, Doing, StartS3
<1>2. ASSUME NEW c \in Clients, Browse(c)
      PROVE  NewNamesFree'
  BY <1>2 DEF TypeOK, NewNamesFree, NotYet, Nowhere, Doing, Browse, ListBrowserEntries
<1>3. ASSUME NEW c \in Clients, PutObject(c)
      PROVE  NewNamesFree'
  BY <1>3 DEF TypeOK, NewNamesFree, NotYet, Nowhere, NoAct, Doing, ClientsHold, PutObject
<1>4. ASSUME NEW c \in Clients, SelectObject(c)
      PROVE  NewNamesFree'
  BY <1>4 DEF TypeOK, NewNamesFree, NotYet, Nowhere, Doing, ListObjects, SelectObject
<1>5. ASSUME NEW c \in Clients, ConfirmOverwrite(c)
      PROVE  NewNamesFree'
  BY <1>5 DEF TypeOK, NewNamesFree, NotYet, Nowhere, Doing, ConfirmOverwrite
<1>6. ASSUME NEW c \in Clients, Download(c)
      PROVE  NewNamesFree'
  BY <1>6 DEF TypeOK, NewNamesFree, NotYet, Nowhere, Doing, ClientsHold, Download
<1>7. ASSUME NEW c \in Clients, CopyEnds(c)
      PROVE  NewNamesFree'
  BY <1>7 DEF TypeOK, NewNamesFree, NotYet, Nowhere, NoAct, Doing, ClientsHold, CopyEnds
<1>8. ASSUME NEW c \in Clients, Leaves(c)
      PROVE  NewNamesFree'
  BY <1>8 DEF TypeOK, NewNamesFree, NotYet, Nowhere, NoAct, Doing, Leaves
<1>9. ASSUME NEW d \in Dumps, NEW k \in 1 .. key, StartDump(d, k)
      PROVE  NewNamesFree'
  BY <1>9 DEF TypeOK, NewNamesFree, NotYet, Nowhere, OfDump, StartDump
<1>10. ASSUME NEW d \in Dumps, PgDumpEnds(d)
      PROVE  NewNamesFree'
  BY <1>10 DEF TypeOK, NewNamesFree, NotYet, Nowhere, OfDump, NoJob, Filled, PgDumpEnds
<1>11. ASSUME NEW d \in Dumps, EncryptBegins(d)
      PROVE  NewNamesFree'
  BY <1>11 DEF TypeOK, NewNamesFree, NotYet, Nowhere, OfDump, EncryptBegins
<1>12. ASSUME NEW d \in Dumps, EncryptEnds(d)
      PROVE  NewNamesFree'
  BY <1>12 DEF TypeOK, NewNamesFree, NotYet, Nowhere, OfDump, NoJob, Filled, EncryptEnds
<1>13. ASSUME NEW d \in Dumps, JobFails(d)
      PROVE  NewNamesFree'
  BY <1>13 DEF TypeOK, NewNamesFree, NotYet, Nowhere, OfDump, NoJob, JobFails
<1>14. ASSUME NEW f \in Files, Decrypted(f)
      PROVE  NewNamesFree'
  BY <1>14 DEF TypeOK, NewNamesFree, NotYet, Nowhere, OfDump, Decrypted
<1>15. ASSUME NEW f \in Files, UserRemoves(f)
      PROVE  NewNamesFree'
  BY <1>15 DEF TypeOK, NewNamesFree, NotYet, Nowhere, UserRemoves
<1>16. ASSUME NEW f \in Files, DeleteOne(f)
      PROVE  NewNamesFree'
  BY <1>16 DEF TypeOK, NewNamesFree, NotYet, Nowhere, DeleteOne
<1>17. ASSUME NEW f \in Files, RewriteReads(f)
      PROVE  NewNamesFree'
  BY <1>17 DEF TypeOK, NewNamesFree, NotYet, Nowhere, EncryptedFiles, RewriteReads
<1>18. ASSUME NEW f \in Files, RewriteRefused(f)
      PROVE  NewNamesFree'
  BY <1>18 DEF TypeOK, NewNamesFree, NotYet, Nowhere, NoChange, RewriteRefused
<1>19. ASSUME NEW k \in 1 .. key, ChangeMaster(k)
      PROVE  NewNamesFree'
  BY <1>19, MasterChanges DEF NewNamesFree, NotYet, Nowhere, ChangeMaster
<1>20. CASE RewriteTruncates
  BY <1>20 DEF TypeOK, NewNamesFree, NotYet, Nowhere, RewriteTruncates
<1>21. CASE RewriteEnds
  BY <1>21 DEF TypeOK, NewNamesFree, NotYet, Nowhere, Filled, RewriteEnds
<1>22. CASE WalkEnds
  BY <1>22 DEF TypeOK, NewNamesFree, NotYet, Nowhere, NoChange, WalkEnds
<1>23. CASE WalkStops
  BY <1>23 DEF TypeOK, NewNamesFree, NotYet, Nowhere, NoChange, WalkStops
<1> QED
  BY <1>1, <1>2, <1>3, <1>4, <1>5, <1>6, <1>7, <1>8, <1>9, <1>10, <1>11, <1>12, <1>13,
     <1>14, <1>15, <1>16, <1>17, <1>18, <1>19, <1>20, <1>21, <1>22, <1>23 DEF Next

\* A job stays alone with its files.
LEMMA JobAloneStep ==
    ASSUME TypeOK, NamesTellKeys, ClientsHold, NewNamesFree, JobAlone, Next
    PROVE  JobAlone'
<1> USE BucketAssumption DEF option, Rest, jobs, change
<1>1. ASSUME NEW c \in Clients, NEW pc \in {"browse", "list"}, StartS3(c, pc)
      PROVE  JobAlone'
  BY <1>1 DEF TypeOK, JobAlone, StartS3
<1>2. ASSUME NEW c \in Clients, Browse(c)
      PROVE  JobAlone'
  BY <1>2 DEF TypeOK, JobAlone, Browse
<1>3. ASSUME NEW c \in Clients, PutObject(c)
      PROVE  JobAlone'
  BY <1>3 DEF TypeOK, JobAlone, PutObject
<1>4. ASSUME NEW c \in Clients, SelectObject(c)
      PROVE  JobAlone'
  BY <1>4 DEF TypeOK, JobAlone, SelectObject
<1>5. ASSUME NEW c \in Clients, ConfirmOverwrite(c)
      PROVE  JobAlone'
  BY <1>5 DEF TypeOK, JobAlone, ConfirmOverwrite
<1>6. ASSUME NEW c \in Clients, Download(c)
      PROVE  JobAlone'
  BY <1>6 DEF TypeOK, JobAlone, Download
<1>7. ASSUME NEW c \in Clients, CopyEnds(c)
      PROVE  JobAlone'
  BY <1>7 DEF TypeOK, JobAlone, ClientsHold, CopyEnds
<1>8. ASSUME NEW c \in Clients, Leaves(c)
      PROVE  JobAlone'
  BY <1>8 DEF TypeOK, JobAlone, Leaves
<1>9. ASSUME NEW d \in Dumps, NEW k \in 1 .. key, StartDump(d, k)
      PROVE  JobAlone'
  BY <1>9 DEF TypeOK, JobAlone, NewNamesFree, NotYet, Nowhere, OfDump, StartDump
<1>10. ASSUME NEW d \in Dumps, PgDumpEnds(d)
      PROVE  JobAlone'
  BY <1>10 DEF TypeOK, JobAlone, OfDump, NoJob, PgDumpEnds
<1>11. ASSUME NEW d \in Dumps, EncryptBegins(d)
      PROVE  JobAlone'
  BY <1>11 DEF TypeOK, JobAlone, NewNamesFree, NotYet, Nowhere, OfDump, EncryptBegins
<1>12. ASSUME NEW d \in Dumps, EncryptEnds(d)
      PROVE  JobAlone'
  BY <1>12 DEF TypeOK, JobAlone, OfDump, NoJob, EncryptEnds
<1>13. ASSUME NEW d \in Dumps, JobFails(d)
      PROVE  JobAlone'
  BY <1>13 DEF TypeOK, JobAlone, OfDump, NoJob, JobFails
<1>14. ASSUME NEW f \in Files, Decrypted(f)
      PROVE  JobAlone'
  BY <1>14 DEF TypeOK, JobAlone, Decrypted
<1>15. ASSUME NEW f \in Files, UserRemoves(f)
      PROVE  JobAlone'
  BY <1>15 DEF TypeOK, JobAlone, UserRemoves
<1>16. ASSUME NEW f \in Files, DeleteOne(f)
      PROVE  JobAlone'
  BY <1>16 DEF TypeOK, JobAlone, DeleteOne
<1>17. ASSUME NEW f \in Files, RewriteReads(f)
      PROVE  JobAlone'
  <2>1. ASSUME f.kind = "enc", job[f.dump].pc = "enc_write", f \notin fetched
        PROVE  FALSE
    <3>1. /\ disk[f] = Whole(chg.old) /\ disk[f] # None
          /\ chg.old \in 0 .. MaxKey /\ job[f.dump].key \in 0 .. MaxKey
      BY <1>17 DEF TypeOK, RewriteReads, OldContent, EncryptedFiles, Dumps
    <3>2. disk[f] = Part(Whole(job[f.dump].key))
      BY <2>1, <3>1 DEF JobAlone
    <3>3. Whole(chg.old).whole /\ Whole(job[f.dump].key) \in Content
      BY <3>1, WholeContent
    <3>4. ~Part(Whole(job[f.dump].key)).whole
      BY <3>3, PartContent
    <3> QED
      BY <3>1, <3>2, <3>3, <3>4
  <2> QED
    BY <1>17, <2>1 DEF TypeOK, JobAlone, RewriteReads
<1>18. ASSUME NEW f \in Files, RewriteRefused(f)
      PROVE  JobAlone'
  BY <1>18 DEF TypeOK, JobAlone, NoChange, RewriteRefused
<1>19. ASSUME NEW k \in 1 .. key, ChangeMaster(k)
      PROVE  JobAlone'
  <2>1. UNCHANGED <<disk, job, fetched>>
    BY <1>19 DEF ChangeMaster
  <2>2. \A f \in Files : chg'.file # f
    BY <1>19, MasterChanges
  <2> QED
    BY <2>1, <2>2 DEF JobAlone
<1>20. CASE RewriteTruncates
  BY <1>20 DEF TypeOK, JobAlone, NamesTellKeys, RewriteTruncates
<1>21. CASE RewriteEnds
  BY <1>21 DEF TypeOK, JobAlone, NamesTellKeys, RewriteEnds
<1>22. CASE WalkEnds
  BY <1>22 DEF TypeOK, JobAlone, NoChange, WalkEnds
<1>23. CASE WalkStops
  BY <1>23 DEF TypeOK, JobAlone, NoChange, WalkStops
<1> QED
  BY <1>1, <1>2, <1>3, <1>4, <1>5, <1>6, <1>7, <1>8, <1>9, <1>10, <1>11, <1>12, <1>13,
     <1>14, <1>15, <1>16, <1>17, <1>18, <1>19, <1>20, <1>21, <1>22, <1>23 DEF Next

\* The file the walk has read stays.
LEMMA ReadStaysStep ==
    ASSUME TypeOK, NamesTellKeys, ClientsHold, NewNamesFree, JobAlone, ReadStays, Next
    PROVE  ReadStays'
<1> USE BucketAssumption DEF option, Rest, jobs, change
<1>1. ASSUME NEW c \in Clients, NEW pc \in {"browse", "list"}, StartS3(c, pc)
      PROVE  ReadStays'
  BY <1>1 DEF TypeOK, ReadStays, StartS3
<1>2. ASSUME NEW c \in Clients, Browse(c)
      PROVE  ReadStays'
  BY <1>2 DEF TypeOK, ReadStays, Browse
<1>3. ASSUME NEW c \in Clients, PutObject(c)
      PROVE  ReadStays'
  BY <1>3 DEF TypeOK, ReadStays, PutObject
<1>4. ASSUME NEW c \in Clients, SelectObject(c)
      PROVE  ReadStays'
  BY <1>4 DEF TypeOK, ReadStays, SelectObject
<1>5. ASSUME NEW c \in Clients, ConfirmOverwrite(c)
      PROVE  ReadStays'
  BY <1>5 DEF TypeOK, ReadStays, ConfirmOverwrite
<1>6. ASSUME NEW c \in Clients, Download(c)
      PROVE  ReadStays'
  BY <1>6 DEF TypeOK, ReadStays, Download
<1>7. ASSUME NEW c \in Clients, CopyEnds(c)
      PROVE  ReadStays'
  BY <1>7 DEF TypeOK, ReadStays, ClientsHold, CopyEnds
<1>8. ASSUME NEW c \in Clients, Leaves(c)
      PROVE  ReadStays'
  BY <1>8 DEF TypeOK, ReadStays, Leaves
<1>9. ASSUME NEW d \in Dumps, NEW k \in 1 .. key, StartDump(d, k)
      PROVE  ReadStays'
  BY <1>9 DEF TypeOK, ReadStays, NamesTellKeys, OfDump, StartDump
<1>10. ASSUME NEW d \in Dumps, PgDumpEnds(d)
      PROVE  ReadStays'
  BY <1>10 DEF TypeOK, ReadStays, NamesTellKeys, OfDump, PgDumpEnds
<1>11. ASSUME NEW d \in Dumps, EncryptBegins(d)
      PROVE  ReadStays'
  BY <1>11 DEF TypeOK, ReadStays, NewNamesFree, NotYet, Nowhere, OfDump, EncryptBegins
<1>12. ASSUME NEW d \in Dumps, EncryptEnds(d)
      PROVE  ReadStays'
  BY <1>12 DEF TypeOK, ReadStays, NamesTellKeys, JobAlone, OfDump, EncryptEnds
<1>13. ASSUME NEW d \in Dumps, JobFails(d)
      PROVE  ReadStays'
  BY <1>13 DEF TypeOK, ReadStays, NamesTellKeys, OfDump, JobFails
<1>14. ASSUME NEW f \in Files, Decrypted(f)
      PROVE  ReadStays'
  BY <1>14 DEF TypeOK, ReadStays, NamesTellKeys, Decrypted
<1>15. ASSUME NEW f \in Files, UserRemoves(f)
      PROVE  ReadStays'
  BY <1>15 DEF TypeOK, ReadStays, UserRemoves
<1>16. ASSUME NEW f \in Files, DeleteOne(f)
      PROVE  ReadStays'
  BY <1>16 DEF TypeOK, ReadStays, DeleteOne
<1>17. ASSUME NEW f \in Files, RewriteReads(f)
      PROVE  ReadStays'
  BY <1>17 DEF TypeOK, ReadStays, OldContent, RewriteReads
<1>18. ASSUME NEW f \in Files, RewriteRefused(f)
      PROVE  ReadStays'
  BY <1>18 DEF TypeOK, ReadStays, NoChange, RewriteRefused
<1>19. ASSUME NEW k \in 1 .. key, ChangeMaster(k)
      PROVE  ReadStays'
  BY <1>19, MasterChanges DEF ReadStays
<1>20. CASE RewriteTruncates
  BY <1>20 DEF TypeOK, ReadStays, RewriteTruncates
<1>21. CASE RewriteEnds
  BY <1>21 DEF TypeOK, ReadStays, RewriteEnds
<1>22. CASE WalkEnds
  BY <1>22 DEF TypeOK, ReadStays, NoChange, WalkEnds
<1>23. CASE WalkStops
  BY <1>23 DEF TypeOK, ReadStays, NoChange, WalkStops
<1> QED
  BY <1>1, <1>2, <1>3, <1>4, <1>5, <1>6, <1>7, <1>8, <1>9, <1>10, <1>11, <1>12, <1>13,
     <1>14, <1>15, <1>16, <1>17, <1>18, <1>19, <1>20, <1>21, <1>22, <1>23 DEF Next

\* A walk leaves no dump behind.
LEMMA WalkStep ==
    ASSUME TypeOK, ClientsHold, NewNamesFree, JobAlone, WalkIsComplete, Next
    PROVE  WalkIsComplete'
<1> USE BucketAssumption DEF option, Rest, jobs, change
<1>1. ASSUME NEW c \in Clients, NEW pc \in {"browse", "list"}, StartS3(c, pc)
      PROVE  WalkIsComplete'
  BY <1>1 DEF WalkIsComplete, Settled, StartS3
<1>2. ASSUME NEW c \in Clients, Browse(c)
      PROVE  WalkIsComplete'
  BY <1>2 DEF WalkIsComplete, Settled, Browse
<1>3. ASSUME NEW c \in Clients, PutObject(c)
      PROVE  WalkIsComplete'
  BY <1>3 DEF WalkIsComplete, Settled, PutObject
<1>4. ASSUME NEW c \in Clients, SelectObject(c)
      PROVE  WalkIsComplete'
  BY <1>4 DEF WalkIsComplete, Settled, SelectObject
<1>5. ASSUME NEW c \in Clients, ConfirmOverwrite(c)
      PROVE  WalkIsComplete'
  BY <1>5 DEF WalkIsComplete, Settled, ConfirmOverwrite
<1>6. ASSUME NEW c \in Clients, Download(c)
      PROVE  WalkIsComplete'
  BY <1>6 DEF WalkIsComplete, Settled, Download
<1>7. ASSUME NEW c \in Clients, CopyEnds(c)
      PROVE  WalkIsComplete'
  <2>1. act[c].file \in fetched
    BY <1>7 DEF CopyEnds, ClientsHold
  <2>2. \A f \in Files : f # act[c].file => disk'[f] = disk[f]
    BY <1>7 DEF CopyEnds
  <2> QED
    BY <1>7, <2>1, <2>2 DEF CopyEnds, WalkIsComplete, Settled
<1>8. ASSUME NEW c \in Clients, Leaves(c)
      PROVE  WalkIsComplete'
  BY <1>8 DEF WalkIsComplete, Settled, Leaves
<1>9. ASSUME NEW d \in Dumps, NEW k \in 1 .. key, StartDump(d, k)
      PROVE  WalkIsComplete'
  BY <1>9 DEF TypeOK, WalkIsComplete, Settled, NewNamesFree, NotYet, Nowhere, OfDump, StartDump
<1>10. ASSUME NEW d \in Dumps, PgDumpEnds(d)
      PROVE  WalkIsComplete'
  BY <1>10 DEF TypeOK, WalkIsComplete, Settled, OfDump, NoJob, PgDumpEnds
<1>11. ASSUME NEW d \in Dumps, EncryptBegins(d)
      PROVE  WalkIsComplete'
  <2>1. ~Part(Whole(job[d].key)).whole
    BY WholeContent, PartContent DEF TypeOK
  <2> QED
    BY <1>11, <2>1 DEF TypeOK, WalkIsComplete, Settled, OfDump, EncryptBegins
<1>12. ASSUME NEW d \in Dumps, EncryptEnds(d)
      PROVE  WalkIsComplete'
  <2> SUFFICES ASSUME ~stopped, NEW f \in Files, f.kind = "enc", f \notin fetched,
                      f.dump \notin outdated'
               PROVE  Settled(f)'
    BY <1>12 DEF WalkIsComplete, EncryptEnds
  <2>1. Settled(f)
    BY <1>12 DEF WalkIsComplete, EncryptEnds
  <2>2. CASE f.dump = d
    <3>1. job[d].key = key /\ disk[f] \in {None, Part(Whole(key))}
      BY <1>12, <2>2 DEF TypeOK, EncryptEnds, JobAlone
    <3>2. disk'[f] \in {None, Whole(key)}
      BY <1>12, <2>2, <3>1 DEF TypeOK, EncryptEnds, OfDump, Filled
    <3> QED
      BY <1>12, <3>2 DEF EncryptEnds, Settled
  <2>3. CASE f.dump # d
    BY <1>12, <2>1, <2>3 DEF TypeOK, EncryptEnds, OfDump, Settled
  <2> QED
    BY <2>2, <2>3
<1>13. ASSUME NEW d \in Dumps, JobFails(d)
      PROVE  WalkIsComplete'
  BY <1>13 DEF TypeOK, WalkIsComplete, Settled, OfDump, NoJob, JobFails
<1>14. ASSUME NEW f \in Files, Decrypted(f)
      PROVE  WalkIsComplete'
  BY <1>14 DEF WalkIsComplete, Settled, Decrypted
<1>15. ASSUME NEW f \in Files, UserRemoves(f)
      PROVE  WalkIsComplete'
  BY <1>15 DEF WalkIsComplete, Settled, UserRemoves
<1>16. ASSUME NEW f \in Files, DeleteOne(f)
      PROVE  WalkIsComplete'
  BY <1>16 DEF TypeOK, WalkIsComplete, Settled, DeleteOne
<1>17. ASSUME NEW f \in Files, RewriteReads(f)
      PROVE  WalkIsComplete'
  BY <1>17 DEF TypeOK, WalkIsComplete, Settled, RewriteReads
<1>18. ASSUME NEW f \in Files, RewriteRefused(f)
      PROVE  WalkIsComplete'
  BY <1>18 DEF NoChange, WalkIsComplete, RewriteRefused
<1>19. ASSUME NEW k \in 1 .. key, ChangeMaster(k)
      PROVE  WalkIsComplete'
  <2> SUFFICES ASSUME ~stopped, NEW f \in Files, f.kind = "enc", f \notin fetched,
                      f.dump \notin outdated
               PROVE  Settled(f)'
    BY <1>19 DEF WalkIsComplete, ChangeMaster
  <2>1. Settled(f) /\ chg.pc = "idle" /\ key' = key + 1
    BY <1>19 DEF WalkIsComplete, ChangeMaster
  <2>2. CASE disk[f] = Whole(key)
    <3>1. disk[f] # None
      BY <2>2, WholeContent DEF TypeOK, Content
    <3>2. chg'.pc \in {"delete", "rewrite"} /\ f \in chg'.todo \ chg'.done
      BY <1>19, <3>1, MasterChanges DEF EncryptedFiles, IsEncryptedDumpName
    <3>3. disk' = disk /\ key' - 1 = key
      BY <1>19, <2>1 DEF TypeOK, ChangeMaster
    <3>4. disk'[f] = Whole(key' - 1)
      BY <2>2, <3>3
    <3> QED
      BY <3>2, <3>4 DEF Settled, Whole
  <2>3. CASE disk[f] # Whole(key)
    BY <1>19, <2>1, <2>3 DEF Settled, ChangeMaster
  <2> QED
    BY <2>2, <2>3
<1>20. CASE RewriteTruncates
  <2>1. chg'.pc = "write" /\ chg'.file = chg.file /\ chg'.todo = chg.todo /\ chg'.done = chg.done
    BY <1>20 DEF TypeOK, RewriteTruncates
  <2> QED
    BY <1>20, <2>1 DEF TypeOK, WalkIsComplete, Settled, RewriteTruncates
<1>21. CASE RewriteEnds
  <2>1. chg.file \in Files
    BY <1>21 DEF RewriteEnds, TypeOK
  <2>2. /\ disk' = [disk EXCEPT ![chg.file] = Filled(chg.file, Whole(key))]
        /\ chg'.pc = "rewrite" /\ chg'.todo = chg.todo /\ chg'.done = chg.done \cup {chg.file}
        /\ UNCHANGED <<key, stopped, fetched, outdated, broken, job>>
    BY <1>21 DEF TypeOK, RewriteEnds
  <2>3. ASSUME NEW f \in Files, f.kind = "enc", f \notin fetched, f.dump \notin outdated, ~stopped
        PROVE  Settled(f)'
    <3>1. Settled(f) /\ chg.pc = "write"
      BY <1>21, <2>3 DEF WalkIsComplete, RewriteEnds
    <3>2. CASE f = chg.file
      <4>1. disk'[f] = Filled(f, Whole(key))
        BY <2>1, <2>2, <3>2 DEF TypeOK
      <4>2. CASE disk[f] \in {None, Whole(key), Part(Whole(key))}
        BY <2>2, <4>1, <4>2 DEF Filled, Settled
      <4>3. CASE disk[f] \notin {None, Whole(key), Part(Whole(key))}
        <5>1. f.dump \in broken \/ job[f.dump].pc = "enc_write"
          BY <3>1, <3>2, <4>3 DEF Settled
        <5>2. disk'[f] = Part(Whole(key)) /\ ~Part(Whole(key)).whole
          BY <4>1, <4>3, WholeContent, PartContent DEF Filled, TypeOK
        <5> QED
          BY <2>2, <5>1, <5>2 DEF Settled
      <4> QED
        BY <4>2, <4>3
    <3>3. CASE f # chg.file
      BY <2>1, <2>2, <3>1, <3>3 DEF Settled
    <3> QED
      BY <3>2, <3>3
  <2> QED
    BY <2>2, <2>3 DEF WalkIsComplete
<1>22. CASE WalkEnds
  BY <1>22 DEF NoChange, WalkIsComplete, Settled, WalkEnds, EncryptedFiles, IsEncryptedDumpName
<1>23. CASE WalkStops
  BY <1>23 DEF NoChange, WalkIsComplete, WalkStops
<1> QED
  BY <1>1, <1>2, <1>3, <1>4, <1>5, <1>6, <1>7, <1>8, <1>9, <1>10, <1>11, <1>12, <1>13,
     <1>14, <1>15, <1>16, <1>17, <1>18, <1>19, <1>20, <1>21, <1>22, <1>23 DEF Next

\* How a dump that can be opened may change or go: see LocalKept.
Moved(f) ==
    \/ DeleteOne(f) \/ UserRemoves(f) \/ Decrypted(f)
    \/ f.kind = "plain" /\ EncryptEnds(f.dump)
    \/ f \in fetched \cup revived
    \/ \E c \in Clients : act[c].file = f /\ act[c].agreed

MovedOnly == \A f \in Files : Opens(disk[f]) /\ disk'[f] # disk[f] => Moved(f)

\* No other step takes one.
LEMMA MovedStep ==
    ASSUME TypeOK, NamesTellKeys, ClientsHold, NewNamesFree, JobAlone, ReadStays, NothingToLose,
           Next
    PROVE  MovedOnly
<1> USE BucketAssumption DEF option, Rest, jobs, change, MovedOnly
<1>1. ASSUME NEW c \in Clients, NEW pc \in {"browse", "list"}, StartS3(c, pc)
      PROVE  MovedOnly
  BY <1>1 DEF StartS3
<1>2. ASSUME NEW c \in Clients, Browse(c)
      PROVE  MovedOnly
  BY <1>2 DEF Browse
<1>3. ASSUME NEW c \in Clients, PutObject(c)
      PROVE  MovedOnly
  BY <1>3 DEF PutObject
<1>4. ASSUME NEW c \in Clients, SelectObject(c)
      PROVE  MovedOnly
  BY <1>4 DEF SelectObject
<1>5. ASSUME NEW c \in Clients, ConfirmOverwrite(c)
      PROVE  MovedOnly
  BY <1>5 DEF ConfirmOverwrite
<1>6. ASSUME NEW c \in Clients, Download(c)
      PROVE  MovedOnly
  BY <1>6 DEF Download, Moved, NothingToLose, Opens
<1>7. ASSUME NEW c \in Clients, CopyEnds(c)
      PROVE  MovedOnly
  BY <1>7 DEF CopyEnds, Moved, ClientsHold
<1>8. ASSUME NEW c \in Clients, Leaves(c)
      PROVE  MovedOnly
  BY <1>8 DEF Leaves
<1>9. ASSUME NEW d \in Dumps, NEW k \in 1 .. key, StartDump(d, k)
      PROVE  MovedOnly
  BY <1>9 DEF TypeOK, Moved, Opens, NewNamesFree, NotYet, Nowhere, OfDump, StartDump
<1>10. ASSUME NEW d \in Dumps, PgDumpEnds(d)
      PROVE  MovedOnly
  <2> SUFFICES ASSUME NEW f \in Files, Opens(disk[f]), disk'[f] # disk[f], f \notin fetched
               PROVE  Moved(f)
    BY DEF Moved
  <2>1. disk[f] # None /\ disk[f].whole
    BY DEF Opens
  <2> QED
    BY <1>10, <2>1, WholeContent, PartContent DEF TypeOK, JobAlone, OfDump, Moved, PgDumpEnds
<1>11. ASSUME NEW d \in Dumps, EncryptBegins(d)
      PROVE  MovedOnly
  BY <1>11 DEF TypeOK, Moved, Opens, NewNamesFree, NotYet, Nowhere, OfDump, EncryptBegins
<1>12. ASSUME NEW d \in Dumps, EncryptEnds(d)
      PROVE  MovedOnly
  <2> SUFFICES ASSUME NEW f \in Files, Opens(disk[f]), disk'[f] # disk[f], f \notin fetched
               PROVE  Moved(f)
    BY DEF Moved
  <2>1. disk[f] # None /\ disk[f].whole
    BY DEF Opens
  <2> QED
    <3>1. CASE OfDump(f, d, "enc")
      <4>1. disk[f] = Part(Whole(job[d].key)) /\ job[d].key \in 0 .. MaxKey
        BY <1>12, <2>1, <3>1 DEF TypeOK, JobAlone, OfDump, EncryptEnds
      <4> QED
        BY <2>1, <4>1, WholeContent, PartContent
    <3>2. CASE OfDump(f, d, "plain")
      BY <1>12, <3>2 DEF Moved, OfDump
    <3>3. CASE ~OfDump(f, d, "enc") /\ ~OfDump(f, d, "plain")
      BY <1>12, <3>3 DEF TypeOK, EncryptEnds
    <3> QED
      BY <3>1, <3>2, <3>3
<1>13. ASSUME NEW d \in Dumps, JobFails(d)
      PROVE  MovedOnly
  <2> SUFFICES ASSUME NEW f \in Files, Opens(disk[f]), disk'[f] # disk[f], f \notin fetched
               PROVE  Moved(f)
    BY DEF Moved
  <2>1. disk[f] # None /\ disk[f].whole
    BY DEF Opens
  <2> QED
    BY <1>13, <2>1, WholeContent, PartContent DEF TypeOK, JobAlone, OfDump, Moved, JobFails
<1>14. ASSUME NEW f \in Files, Decrypted(f)
      PROVE  MovedOnly
  BY <1>14 DEF Decrypted, Moved, TypeOK
<1>15. ASSUME NEW f \in Files, UserRemoves(f)
      PROVE  MovedOnly
  BY <1>15 DEF UserRemoves, Moved, TypeOK
<1>16. ASSUME NEW f \in Files, DeleteOne(f)
      PROVE  MovedOnly
  BY <1>16 DEF DeleteOne, Moved, TypeOK
<1>17. ASSUME NEW f \in Files, RewriteReads(f)
      PROVE  MovedOnly
  BY <1>17 DEF RewriteReads
<1>18. ASSUME NEW f \in Files, RewriteRefused(f)
      PROVE  MovedOnly
  BY <1>18 DEF RewriteRefused
<1>19. ASSUME NEW k \in 1 .. key, ChangeMaster(k)
      PROVE  MovedOnly
  BY <1>19 DEF ChangeMaster
<1>20. CASE RewriteTruncates
  <2> SUFFICES ASSUME NEW f \in Files, Opens(disk[f]), disk'[f] # disk[f], f \notin fetched
               PROVE  FALSE
    BY DEF Moved
  <2>1. f = chg.file /\ f.kind = "enc" /\ disk[f] # None /\ chg.old < key
    BY <1>20 DEF TypeOK, RewriteTruncates, NamesTellKeys, ReadStays, Opens
  <2>2. disk[f] = Whole(chg.old)
    BY <1>20, <2>1 DEF RewriteTruncates, ReadStays
  <2>3. disk[f].key = chg.old /\ disk[f].key # 0
    BY <2>1, <2>2, WholeContent DEF TypeOK, NamesTellKeys, KeyByName
  <2> QED
    BY <2>1, <2>3 DEF Opens, TypeOK
<1>21. CASE RewriteEnds
  <2> SUFFICES ASSUME NEW f \in Files, Opens(disk[f]), disk'[f] # disk[f]
               PROVE  FALSE
    OBVIOUS
  <2>1. f = chg.file /\ f.kind = "enc" /\ disk[f] \in Content /\ disk[f].whole
    BY <1>21 DEF TypeOK, RewriteEnds, NamesTellKeys, Opens
  <2>2. disk[f].key = key
    BY <2>1 DEF Opens, NamesTellKeys, KeyByName
  <2>3. disk[f] = Whole(key)
    BY <2>1, <2>2 DEF Content, Whole
  <2> QED
    BY <1>21, <2>1, <2>3 DEF TypeOK, RewriteEnds, Filled
<1>22. CASE WalkEnds
  BY <1>22 DEF WalkEnds
<1>23. CASE WalkStops
  BY <1>23 DEF WalkStops
<1> QED
  BY <1>1, <1>2, <1>3, <1>4, <1>5, <1>6, <1>7, <1>8, <1>9, <1>10, <1>11, <1>12, <1>13,
     <1>14, <1>15, <1>16, <1>17, <1>18, <1>19, <1>20, <1>21, <1>22, <1>23 DEF Next

\* An upload replaces an object by what it read.
LEMMA UploadStep ==
    ASSUME TypeOK, ClientsHold, Next, NEW f \in Files,
           Opens(bucket[f]), ~Opens(bucket'[f]), key' = key
    PROVE  \E c \in Clients :
               /\ act[c].pc = "put" /\ act[c].file = f
               /\ ~Opens(act[c].body) \/ disk[f] # act[c].body
<1>1. bucket' # bucket
  OBVIOUS
<1>2. PICK c \in Clients : PutObject(c)
  BY <1>1 DEF Next, option, Rest, jobs, change, StartS3, Browse, SelectObject, ConfirmOverwrite, Download,
     CopyEnds, Leaves, StartDump, PgDumpEnds, EncryptBegins, EncryptEnds, JobFails, Decrypted,
     UserRemoves, DeleteOne, RewriteReads, RewriteRefused, ChangeMaster, RewriteTruncates,
     RewriteEnds, WalkEnds, WalkStops
<1>3. act[c].pc = "put" /\ act[c].file \in Files
  BY <1>2, BucketAssumption DEF PutObject
<1>4. PICK b \in Readings(act[c].file, act[c].body) :
          bucket' = [bucket EXCEPT ![act[c].file] = b]
  BY <1>2 DEF PutObject
<1>5. act[c].file = f /\ bucket'[f] = b
  BY <1>3, <1>4
<1>6. disk[f] = act[c].body => b = act[c].body
  BY <1>4, <1>5 DEF Readings
<1> QED
  BY <1>3, <1>5, <1>6

-----------------------------------------------------------------------------
(* The theorems                                                            *)

\* It holds at the start.
LEMMA BucketInit == Init => BucketInv
<1> SUFFICES ASSUME Init PROVE BucketInv
  OBVIOUS
<1> USE BucketAssumption
<1>1. 1 \in 0 .. MaxKey /\ key \in 1 .. MaxKey /\ key = 1
  BY DEF Init
<1>2. Whole(1) \in Content /\ Whole(1).key = 1 /\ Whole(1) # None
  BY <1>1, WholeContent DEF Content
<1>3. disk \in [Files -> Content \cup {None}] /\ bucket \in [Files -> Content \cup {None}]
  BY <1>2 DEF Init
<1>4. /\ act = [c \in Clients |-> NoAct] /\ NoAct.pc = "idle" /\ NoAct.file = None
      /\ chg = NoChange /\ NoChange.pc = "idle" /\ NoChange.file = None
  BY DEF Init, NoAct, Doing, NoChange
<1>5. TypeOK
  <2>1. act \in [Clients -> [pc : {"idle", "browse", "put", "list", "stat", "get", "copy"},
                            file : Files \cup {None}, body : Content \cup {None},
                            agreed : BOOLEAN]]
    BY <1>4 DEF NoAct, Doing
  <2>2. /\ chg \in [pc : {"idle", "delete", "rewrite", "truncate", "write"}, old : 0 .. MaxKey,
                   todo : SUBSET Files, done : SUBSET Files, file : Files \cup {None}]
        /\ job \in [Dumps -> [pc : {"none", "dump", "encrypt", "enc_write"}, key : 0 .. MaxKey]]
        /\ \A d \in Dumps : job[d].pc = "none"
    BY <1>1, <1>4 DEF Init, NoChange, NoJob
  <2>3. \A c \in Clients : act[c] = NoAct
    BY <1>4
  <2>4. \A c \in Clients : /\ act[c].pc = "idle" => act[c] = NoAct
                           /\ act[c].pc \in {"put", "copy"} => act[c].body # None
    BY <1>4, <2>3
  <2>5. /\ taken \subseteq Dumps /\ outdated \subseteq Dumps /\ broken \subseteq Dumps
        /\ fetched \subseteq Files /\ revived \subseteq Files /\ stopped \in BOOLEAN
    BY DEF Init, Dumps
  <2>6. encryptedDump \in BOOLEAN /\ secret \in {None, "right", "wrong"}
    BY DEF Init
  <2> QED
    BY <1>1, <1>3, <1>4, <2>1, <2>2, <2>4, <2>5, <2>6 DEF TypeOK
<1>6. BucketConfidential
  BY <1>5 DEF Init, BucketConfidential
<1>7. NamesTellKeys
  BY <1>2, <1>4 DEF Init, NamesTellKeys, KeyByName
<1>8. ClientsHold /\ NothingToLose
  BY <1>4 DEF Init, ClientsHold, NothingToLose
<1>9. WalkIsComplete
  BY <1>1, <1>4 DEF Init, WalkIsComplete, Settled
<1>10. NewNamesFree
  BY <1>4, <1>5 DEF Init, NewNamesFree, NotYet, Nowhere, NoJob, TypeOK
<1>11. JobAlone /\ ReadStays
  <2>1. \A f \in Files : job[f.dump].pc = "none"
    BY DEF Init, NoJob, Dumps
  <2> QED
    BY <1>4, <2>1 DEF JobAlone, ReadStays
<1> QED
  BY <1>6, <1>7, <1>8, <1>9, <1>10, <1>11 DEF BucketInv

\* Every step keeps it.
LEMMA BucketInductive == BucketInv /\ [Next]_vars => BucketInv'
<1> SUFFICES ASSUME BucketInv, [Next]_vars PROVE BucketInv'
  OBVIOUS
<1>1. /\ TypeOK /\ BucketConfidential /\ NamesTellKeys /\ ClientsHold /\ NewNamesFree
      /\ JobAlone /\ ReadStays /\ NothingToLose /\ WalkIsComplete
  BY DEF BucketInv, BucketConfidential
<1>2. CASE UNCHANGED vars
  BY <1>2 DEF vars, option, jobs, change, BucketInv, BucketConfidential, TypeOK, Content, NoAct,
     Doing, NoChange, Dumps, NamesTellKeys, KeyByName, ClientsHold, NewNamesFree, NotYet, Nowhere,
     JobAlone, ReadStays, NothingToLose, WalkIsComplete, Settled, Whole, Part
<1>3. CASE Next
  <2>1. TypeOK' /\ NamesTellKeys' /\ ClientsHold'
    BY <1>1, <1>3, TypeStep, NamesStep, ClientsStep
  <2>2. NewNamesFree' /\ JobAlone' /\ ReadStays'
    BY <1>1, <1>3, NamesFreeStep, JobAloneStep, ReadStaysStep
  <2>3. BucketConfidential' /\ NothingToLose' /\ WalkIsComplete'
    BY <1>1, <1>3, <2>1, ConfidentialStep, LoseStep, WalkStep
  <2> QED
    BY <2>1, <2>2, <2>3 DEF BucketInv
<1> QED
  BY <1>2, <1>3

\* In every reachable state names tell whether a file is under a key, and each
\* client has the file it was shown (app/app.go, dumps/dumps.go).
THEOREM BucketInvariant == Spec => []BucketInv
  BY BucketInit, BucketInductive, PTL DEF Spec

\* With encryptedDump on, no plain dump and no decrypted copy goes to the bucket
\* (dumps.go ListBrowserEntries).
THEOREM NothingPlainGoesUp == Spec => []BucketConfidential
<1>1. BucketInv => BucketConfidential
  BY DEF BucketInv
<1> QED
  BY <1>1, BucketInvariant, PTL

\* A whole dump the current key does not open was downloaded, encrypted by a program
\* that still had a replaced key, or a walk over the dumps is going on or did not come
\* to its end (dumps.go EncryptDumpFile, ReencryptAllDumps).
THEOREM StaleDumpsExplained == Spec => []StaleExplained
<1>1. ASSUME BucketInv PROVE StaleExplained
  <2> SUFFICES ASSUME NEW f \in Files, disk[f] # None, disk[f].whole, ~Opens(disk[f]),
                      f \notin fetched, f.dump \notin outdated, ~stopped
               PROVE  chg.pc # "idle"
    BY DEF StaleExplained
  <2>1. f.kind = "enc" /\ disk[f].key # key
    BY <1>1 DEF BucketInv, NamesTellKeys, KeyByName, Opens
  <2>2. Settled(f)
    BY <1>1, <2>1 DEF BucketInv, WalkIsComplete
  <2> QED
    BY <2>1, <2>2 DEF Settled, Whole, Part
<1> QED
  BY <1>1, BucketInvariant, PTL

\* How a change of master may come to stop at a dump: see RefusedExplained.
Refusable(f) ==
    \/ f \in fetched \/ f.dump \in outdated \cup broken
    \/ job[f.dump].pc = "enc_write" \/ disk[f] = Whole(key)
    \/ stopped \/ chg.old # key - 1

RefusedOnly == \A f \in Files : RewriteRefused(f) => Refusable(f)

\* A change of master stops only at a dump that was downloaded, left by an earlier
\* walk, not completely encrypted, encrypted under a replaced key or the new one, or
\* when its own session is under a replaced key (dumps.go ReencryptAllDumps).
THEOREM RefusalsExplained == Spec => RefusedExplained
<1>1. ASSUME BucketInv, NEW f \in Files, RewriteRefused(f)
      PROVE  Refusable(f)
  <2>1. /\ chg.pc = "rewrite" /\ f.kind = "enc"
        /\ disk[f] # None /\ disk[f] # Whole(chg.old)
    BY <1>1 DEF RewriteRefused, EncryptedFiles, IsEncryptedDumpName, OldContent
  <2> QED
    BY <1>1, <2>1 DEF BucketInv, WalkIsComplete, Settled, Refusable
<1>2. BucketInv /\ [Next]_vars => [RefusedOnly]_vars
  BY <1>1 DEF RefusedOnly
<1>3. [][RefusedOnly]_vars => RefusedExplained
  BY PTL DEF RefusedExplained, RefusedOnly, Refusable
<1> QED
  BY <1>2, <1>3, BucketInvariant, PTL DEF Spec

\* A dump that can be opened is taken, or changed, only by its user, a restore or job
\* done with its own plain copy, or a download after the user has agreed, unless the
\* file was downloaded or revived by the walk (app.go RunS3Action, dumps.go).
THEOREM LocalDumpsKept == Spec => LocalKept
<1>1. BucketInv /\ [Next]_vars => [MovedOnly]_vars
  BY MovedStep DEF BucketInv, BucketConfidential
<1>2. [][MovedOnly]_vars => LocalKept
  BY PTL DEF LocalKept, MovedOnly, Moved
<1> QED
  BY <1>1, <1>2, BucketInvariant, PTL DEF Spec

\* An upload spoils an object that can be opened only with a file that cannot be,
\* or that was being written (app.go RunS3Action, s3.go Upload).
THEOREM ObjectsAreKept == Spec => ObjectsKept
<1>1. BucketInv /\ [Next]_vars => [\A f \in Files : Opens(bucket[f]) /\ ~Opens(bucket'[f]) =>
           key' # key \/ \E c \in Clients :
               /\ act[c].pc = "put" /\ act[c].file = f
               /\ ~Opens(act[c].body) \/ disk[f] # act[c].body]_vars
  <2> SUFFICES ASSUME BucketInv, Next, NEW f \in Files,
                      Opens(bucket[f]), ~Opens(bucket'[f]), key' = key
               PROVE  \E c \in Clients :
                          /\ act[c].pc = "put" /\ act[c].file = f
                          /\ ~Opens(act[c].body) \/ disk[f] # act[c].body
    OBVIOUS
  <2> QED
    BY UploadStep DEF BucketInv, BucketConfidential
<1> QED
  BY <1>1, BucketInvariant, PTL DEF Spec, ObjectsKept
=============================================================================
