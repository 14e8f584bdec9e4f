-------------------------------- MODULE Bucket --------------------------------
(***************************************************************************)
(* Dump files and the S3 bucket they are copied to and from by the menu's  *)
(* and the command line's upload and download (src/internal/app, s3,       *)
(* prompt, dumps), while dumps are taken, restored, and re-encrypted under *)
(* a new master.                                                           *)
(*                                                                         *)
(* A file is named by its path below the dumps directory, which is also    *)
(* the key of its object: ObjectKey and LocalPathForObject undo each other *)
(* on the names dumpmgr gives.  Its content is whole or not and under a    *)
(* key, 0 for a plain dump.  Filling a file and reading one take time, so  *)
(* they may meet a writer; an object appears at once.  A dump is taken and *)
(* encrypted by a job of any program, with the key its session was         *)
(* unlocked with; what an encrypted file is whole of may be a broken dump. *)
(* One change of master goes on at a time (module Vault has two), and its  *)
(* session, too, may be under a key that was replaced before.              *)
(***************************************************************************)
EXTENDS Naturals, FiniteSets

CONSTANTS
    Files,      \* records [dump, kind]
    Clients,    \* processes that upload and download
    None,
    MaxKey      \* bound: master keys derived

Kinds == {"plain", "enc", "temp"}
Dumps == {f.dump : f \in Files}

ASSUME BucketAssumption ==
    /\ \A f \in Files : f.kind \in Kinds
    /\ None \notin Files \cup [whole : BOOLEAN, key : Nat]
    /\ MaxKey \in Nat \ {0}

VARIABLES
    encryptedDump,  \* the option
    disk, bucket,   \* content of each file and object
    key,            \* number of the current key
    secret,         \* vault: the S3 secret, None, "right" or "wrong"
    act,            \* what each client is doing
    job,            \* each dump's job, with the key of its session
    chg,            \* the change of master: the key of its session, the dumps there
                    \* when its walk began, the ones it is done with, the one at hand
    taken,          \* history: dumps begun
    outdated,       \* history: dumps encrypted under a key that had been replaced
    broken,         \* history: dumps whose encrypting was cut short
    fetched,        \* history: files written by a download
    revived,        \* history: files the walk made anew after they had been removed
    stopped         \* history: a walk over the dumps did not come to its end

option == <<encryptedDump, secret, key>>
jobs == <<job, taken, outdated, broken>>
change == <<chg, revived, stopped>>
vars == <<option, disk, bucket, act, jobs, change, fetched>>

Content == [whole : BOOLEAN, key : 0 .. MaxKey]
Whole(k) == [whole |-> TRUE, key |-> k]
Part(c) == [c EXCEPT !.whole = FALSE]
Opens(c) == c # None /\ c.whole /\ c.key \in {0, key}

\* What a client is doing, with which file; what it holds of it; whether the
\* user has agreed to lose a local file.
Doing(pc, file, body, agreed) == [pc |-> pc, file |-> file, body |-> body, agreed |-> agreed]
NoAct == Doing("idle", None, None, FALSE)
NoChange == [pc |-> "idle", old |-> 0, todo |-> {}, done |-> {}, file |-> None]
NoJob == [pc |-> "none", key |-> 0]

\* Encrypted dumps may be there from before the option was last changed.
Init ==
    /\ encryptedDump \in BOOLEAN
    /\ disk \in [Files -> {None, Whole(1)}]
    /\ \A f \in Files : disk[f] # None => f.kind = "enc"
    /\ bucket = [f \in Files |-> None]
    /\ key = 1 /\ secret = None
    /\ act = [c \in Clients |-> NoAct] /\ job = [d \in Dumps |-> NoJob] /\ chg = NoChange
    /\ taken = {f.dump : f \in {e \in Files : disk[e] # None}}
    /\ outdated = {} /\ broken = {} /\ fetched = {} /\ revived = {} /\ stopped = FALSE

-----------------------------------------------------------------------------
(* Names and listings *)

\* encIDRE; of the names dumpmgr gives, the ones with an enc_id.
IsEncryptedDumpName(f) == f.kind = "enc"

\* Mutant of ListBrowserEntries: names with a dot are not skipped.
ListDottedEntries ==
    {f \in Files : disk[f] # None /\ IsEncryptedDumpName(f) = encryptedDump}

\* The browser skips names that begin with a dot, which the decrypted copies
\* of a restore have, and shows encrypted dumps or plain ones, never both.
ListBrowserEntries ==
    {f \in Files : /\ disk[f] # None /\ f.kind # "temp"
                   /\ IsEncryptedDumpName(f) = encryptedDump}

ListObjects == {f \in Files : bucket[f] # None}

\* What is in a file after a writer has filled it with body: another writer
\* may have been there as well; a file that is gone stays gone.
Filled(f, body) ==
    IF disk[f] \in {None, body} THEN disk[f]
    ELSE IF disk[f] = Part(body) THEN body ELSE Part(body)

\* What a reader gets of a file it found with content body.
Readings(f, body) ==
    IF disk[f] \in {None, body} THEN {body} ELSE {body, disk[f], Part(body)}

-----------------------------------------------------------------------------
(* An upload or a download *)

Rest == <<jobs, change, fetched>>

\* requireS3Session: the secret is typed when none is saved, and saved before
\* it is tried; VerifyBucket lists the bucket, and a wrong secret is an error.
StartS3(c, pc) ==
    /\ act[c].pc = "idle"
    /\ secret' \in IF secret = None THEN {"right", "wrong"} ELSE {secret}
    /\ act' = IF secret' = "right"
              THEN [act EXCEPT ![c] = Doing(pc, None, None, FALSE)] ELSE act
    /\ UNCHANGED <<encryptedDump, key, disk, bucket, Rest>>

\* BrowseDumpFile, then Upload opens the file.
Browse(c) ==
    /\ act[c].pc = "browse"
    /\ \E f \in ListBrowserEntries :
           act' = [act EXCEPT ![c] = Doing("put", f, disk[f], FALSE)]
    /\ UNCHANGED <<option, disk, bucket, Rest>>

\* Mutant of PutObject: an upload that breaks off leaves what has arrived.
PutInParts(c) ==
    /\ act[c].pc = "put"
    /\ \E body \in {act[c].body, Part(act[c].body)} :
           bucket' = [bucket EXCEPT ![act[c].file] = body]
    /\ act' = [act EXCEPT ![c] = NoAct]
    /\ UNCHANGED <<option, disk, Rest>>

\* PutObject replaces the object of that key, and asks nothing.
PutObject(c) ==
    /\ act[c].pc = "put"
    /\ \E body \in Readings(act[c].file, act[c].body) :
           bucket' = [bucket EXCEPT ![act[c].file] = body]
    /\ act' = [act EXCEPT ![c] = NoAct]
    /\ UNCHANGED <<option, disk, Rest>>

\* SelectS3Object
SelectObject(c) ==
    /\ act[c].pc = "list"
    /\ \E f \in ListObjects : act' = [act EXCEPT ![c] = Doing("stat", f, None, FALSE)]
    /\ UNCHANGED <<option, disk, bucket, Rest>>

\* Mutant of ConfirmOverwrite: the user is not asked.
OverwriteUnasked(c) ==
    /\ act[c].pc = "stat"
    /\ act' = [act EXCEPT ![c] = Doing("get", act[c].file, None, FALSE)]
    /\ UNCHANGED <<option, disk, bucket, Rest>>

\* A file that is there is overwritten with --yes or after asking; a no is Leaves.
ConfirmOverwrite(c) ==
    /\ act[c].pc = "stat"
    /\ act' = [act EXCEPT ![c] = Doing("get", act[c].file, None, disk[act[c].file] # None)]
    /\ UNCHANGED <<option, disk, bucket, Rest>>

\* GetObject, then os.Create truncates the file.
Download(c) ==
    LET f == act[c].file
    IN  /\ act[c].pc = "get"
        /\ disk' = [disk EXCEPT ![f] = Part(bucket[f])]
        /\ act' = [act EXCEPT ![c] = Doing("copy", f, bucket[f], act[c].agreed)]
        /\ fetched' = fetched \cup {f}
        /\ UNCHANGED <<option, bucket, jobs, change>>

\* io.Copy comes to its end; when it fails the file is left as it is (Leaves).
CopyEnds(c) ==
    /\ act[c].pc = "copy"
    /\ disk' = [disk EXCEPT ![act[c].file] = Filled(act[c].file, act[c].body)]
    /\ act' = [act EXCEPT ![c] = NoAct]
    /\ UNCHANGED <<option, bucket, Rest>>

\* An error of the bucket or of a file, a no or a cancel, or a crash.
Leaves(c) ==
    /\ act[c].pc # "idle"
    /\ act' = [act EXCEPT ![c] = NoAct]
    /\ UNCHANGED <<option, disk, bucket, Rest>>

-----------------------------------------------------------------------------
(* Dump files come and go *)

\* File of a kind of a dump.
OfDump(f, d, kind) == f.dump = d /\ f.kind = kind

\* A dump under a new name, by a program whose session is under any key so far.
StartDump(d, k) ==
    /\ d \notin taken /\ taken' = taken \cup {d}
    /\ job' = [job EXCEPT ![d] = [pc |-> "dump", key |-> k]]
    /\ disk' = [f \in Files |-> IF OfDump(f, d, "plain") THEN Part(Whole(0)) ELSE disk[f]]
    /\ UNCHANGED <<option, bucket, act, outdated, broken, change, fetched>>

PgDumpEnds(d) ==
    /\ job[d].pc = "dump"
    /\ disk' = [f \in Files |-> IF OfDump(f, d, "plain") THEN Filled(f, Whole(0)) ELSE disk[f]]
    /\ job' = [job EXCEPT ![d] = IF encryptedDump THEN [@ EXCEPT !.pc = "encrypt"] ELSE NoJob]
    /\ UNCHANGED <<option, bucket, act, taken, outdated, broken, change, fetched>>

\* EncryptDumpFile reads the plain file, then makes or truncates the encrypted one.
EncryptBegins(d) ==
    /\ job[d].pc = "encrypt"
    /\ \E f \in Files : OfDump(f, d, "plain") /\ disk[f] # None
    /\ disk' = [f \in Files |->
           IF OfDump(f, d, "enc") THEN Part(Whole(job[d].key)) ELSE disk[f]]
    /\ job' = [job EXCEPT ![d].pc = "enc_write"]
    /\ UNCHANGED <<option, bucket, act, taken, outdated, broken, change, fetched>>

\* The encrypted file is filled; removing the plain one may fail unnoticed.
EncryptEnds(d) ==
    /\ job[d].pc = "enc_write"
    /\ \E removed \in BOOLEAN :
           disk' = [f \in Files |->
               IF OfDump(f, d, "enc") THEN Filled(f, Whole(job[d].key))
               ELSE IF OfDump(f, d, "plain") /\ removed THEN None ELSE disk[f]]
    /\ job' = [job EXCEPT ![d] = NoJob]
    /\ outdated' = IF job[d].key = key THEN outdated ELSE outdated \cup {d}
    /\ UNCHANGED <<option, bucket, act, taken, broken, change, fetched>>

\* pg_dump or a file operation fails, there is no key, or the program ends: what is
\* on disk stays, but pg_dump may not have come to make its file.
JobFails(d) ==
    /\ job[d].pc # "none"
    /\ \/ UNCHANGED disk
       \/ /\ job[d].pc = "dump"
          /\ disk' = [f \in Files |-> IF OfDump(f, d, "plain") THEN None ELSE disk[f]]
    /\ job' = [job EXCEPT ![d] = NoJob]
    /\ broken' = IF job[d].pc = "enc_write" THEN broken \cup {d} ELSE broken
    /\ UNCHANGED <<option, bucket, act, taken, outdated, change, fetched>>

\* A restore of an encrypted dump decrypts it beside itself and removes the copy.
Decrypted(f) ==
    /\ f.kind = "temp"
    /\ disk' = [disk EXCEPT ![f] = IF @ = None THEN Whole(0) ELSE None]
    /\ disk[f] = None =>
           \E e \in Files : OfDump(e, f.dump, "enc") /\ disk[e] # None /\ disk[e].whole
    /\ UNCHANGED <<option, bucket, act, Rest>>

\* The user deletes a local file.
UserRemoves(f) ==
    /\ disk[f] # None
    /\ disk' = [disk EXCEPT ![f] = None]
    /\ UNCHANGED <<option, bucket, act, Rest>>

-----------------------------------------------------------------------------
(* The change of master: publishing it, and the walk over the dumps *)

EncryptedFiles == {f \in Files : IsEncryptedDumpName(f) /\ disk[f] # None}

\* By a program whose session is under key k (module Vault: the rows it cannot
\* read are skipped).
ChangeMaster(k) ==
    /\ chg.pc = "idle" /\ key < MaxKey
    /\ key' = key + 1
    /\ IF EncryptedFiles = {} THEN UNCHANGED chg
       ELSE \E choice \in {"delete", "rewrite"} :
                chg' = [NoChange EXCEPT !.pc = choice, !.old = k, !.todo = EncryptedFiles]
    /\ UNCHANGED <<encryptedDump, secret, disk, bucket, act, jobs, revived, stopped, fetched>>

DeleteOne(f) ==
    /\ chg.pc = "delete" /\ f \in EncryptedFiles \ chg.done
    /\ disk' = [disk EXCEPT ![f] = None]
    /\ chg' = [chg EXCEPT !.done = @ \cup {f}]
    /\ UNCHANGED <<option, bucket, act, jobs, revived, stopped, fetched>>

\* Mutant of OldContent: the new key is tried on the old file.
NewContent(f) == disk[f] = Whole(key)

OldContent(f) == disk[f] = Whole(chg.old)

\* The file is read and decrypted with the old key.
RewriteReads(f) ==
    /\ chg.pc = "rewrite"
    /\ f \in EncryptedFiles \ chg.done /\ OldContent(f)
    /\ chg' = [chg EXCEPT !.pc = "truncate", !.file = f]
    /\ UNCHANGED <<option, disk, bucket, act, jobs, revived, stopped, fetched>>

\* os.WriteFile truncates what is there now, or makes a file that is gone anew.
RewriteTruncates ==
    /\ chg.pc = "truncate"
    /\ disk' = [disk EXCEPT ![chg.file] = Part(Whole(key))]
    /\ chg' = [chg EXCEPT !.pc = "write"]
    /\ revived' = IF disk[chg.file] = None THEN revived \cup {chg.file} ELSE revived
    /\ UNCHANGED <<option, bucket, act, jobs, stopped, fetched>>

RewriteEnds ==
    /\ chg.pc = "write"
    /\ disk' = [disk EXCEPT ![chg.file] = Filled(chg.file, Whole(key))]
    /\ chg' = [chg EXCEPT !.pc = "rewrite", !.file = None, !.done = @ \cup {chg.file}]
    /\ UNCHANGED <<option, bucket, act, jobs, revived, stopped, fetched>>

\* The first file the old key does not open ends the walk with an error.
RewriteRefused(f) ==
    /\ chg.pc = "rewrite"
    /\ f \in EncryptedFiles \ chg.done /\ ~OldContent(f)
    /\ chg' = NoChange /\ stopped' = TRUE
    /\ UNCHANGED <<option, disk, bucket, act, jobs, revived, fetched>>

\* Mutant of WalkEnds: the walk does not enter the directories of the items.
WalkEndsEarly ==
    /\ chg.pc \in {"delete", "rewrite"}
    /\ chg' = NoChange
    /\ UNCHANGED <<option, disk, bucket, act, jobs, revived, stopped, fetched>>

\* A file that has come since the walk began may be met or missed.
WalkEnds ==
    /\ chg.pc \in {"delete", "rewrite"}
    /\ chg.todo \cap EncryptedFiles \subseteq chg.done
    /\ chg' = NoChange
    /\ UNCHANGED <<option, disk, bucket, act, jobs, revived, stopped, fetched>>

\* A cancelled choice, an error of a file, or a crash; or a directory that cannot
\* be read, here or when dumps are looked for, which is passed over in silence.
WalkStops ==
    /\ chg.pc # "idle"
    /\ chg' = NoChange /\ stopped' = TRUE
    /\ UNCHANGED <<option, disk, bucket, act, jobs, revived, fetched>>

Next ==
    \/ \E c \in Clients :
        \/ \E pc \in {"browse", "list"} : StartS3(c, pc)
        \/ Browse(c) \/ PutObject(c)
        \/ SelectObject(c) \/ ConfirmOverwrite(c) \/ Download(c) \/ CopyEnds(c)
        \/ Leaves(c)
    \/ \E d \in Dumps :
        \/ \E k \in 1 .. key : StartDump(d, k)
        \/ PgDumpEnds(d) \/ EncryptBegins(d) \/ EncryptEnds(d) \/ JobFails(d)
    \/ \E f \in Files :
        \/ Decrypted(f) \/ UserRemoves(f) \/ DeleteOne(f)
        \/ RewriteReads(f) \/ RewriteRefused(f)
    \/ \E k \in 1 .. key : ChangeMaster(k)
    \/ RewriteTruncates \/ RewriteEnds \/ WalkEnds \/ WalkStops

Spec == Init /\ [][Next]_vars

-----------------------------------------------------------------------------
(* Properties *)

\* Every variable stays in its range, and an operation that is over leaves
\* nothing of itself behind.
TypeOK ==
    /\ encryptedDump \in BOOLEAN /\ key \in 1 .. MaxKey
    /\ secret \in {None, "right", "wrong"}
    /\ disk \in [Files -> Content \cup {None}] /\ bucket \in [Files -> Content \cup {None}]
    /\ act \in [Clients -> [pc : {"idle", "browse", "put", "list", "stat", "get", "copy"},
                            file : Files \cup {None}, body : Content \cup {None},
                            agreed : BOOLEAN]]
    /\ \A c \in Clients : /\ act[c].pc = "idle" => act[c] = NoAct
                          /\ act[c].pc \in {"put", "copy"} => act[c].body # None
    /\ job \in [Dumps -> [pc : {"none", "dump", "encrypt", "enc_write"}, key : 0 .. MaxKey]]
    /\ \A d \in Dumps : job[d].pc # "none" => job[d].key # 0
    /\ chg \in [pc : {"idle", "delete", "rewrite", "truncate", "write"}, old : 0 .. MaxKey,
                todo : SUBSET Files, done : SUBSET Files, file : Files \cup {None}]
    /\ chg.pc = "idle" => chg = NoChange
    /\ chg.file # None <=> chg.pc \in {"truncate", "write"}
    /\ taken \subseteq Dumps /\ outdated \subseteq Dumps /\ broken \subseteq Dumps
    /\ fetched \subseteq Files /\ revived \subseteq Files /\ stopped \in BOOLEAN

\* In every state, all of them well typed: with encryptedDump on no plain dump
\* goes to the bucket, whatever a failed encryption has left, and never the
\* decrypted copy a restore makes (dumps.go ListBrowserEntries, prompt.go
\* BrowseDumpFile).
BucketConfidential ==
    /\ TypeOK
    /\ \A f \in Files : bucket[f] # None =>
           f.kind # "temp" /\ (encryptedDump => f.kind = "enc" /\ bucket[f].key # 0)

\* A whole local dump that the current key does not open was downloaded (objects
\* keep the key of their day), encrypted by a program that still had a replaced key,
\* or a walk over the dumps was cut short, refused or is still going on (dumps.go
\* ReencryptAllDumps, EncryptDumpFile, s3.go Download).
StaleExplained ==
    \A f \in Files : disk[f] # None /\ disk[f].whole /\ ~Opens(disk[f]) =>
        f \in fetched \/ f.dump \in outdated \/ stopped \/ chg.pc # "idle"

\* The change of master stops at a dump only when that dump came out of the
\* bucket; when a program encrypted it under a replaced key, or under the new one
\* meanwhile, or is or was stopped in the middle; when a walk before did not come to
\* its end; or when the session that changes it was under a replaced key itself.
RefusedExplained ==
    [][\A f \in Files : RewriteRefused(f) =>
           \/ f \in fetched \/ f.dump \in outdated \cup broken
           \/ job[f.dump].pc = "enc_write" \/ disk[f] = Whole(key)
           \/ stopped \/ chg.old # key - 1]_vars

\* A dump that can be opened goes from the disk, or changes, only when the user
\* deletes it, or has agreed to a download over it; when a restore removes its copy,
\* or a job the plain file it has encrypted; or when the file had come from the bucket
\* itself, or out of a walk that met its removal.
LocalKept ==
    [][\A f \in Files : Opens(disk[f]) /\ disk'[f] # disk[f] =>
           \/ DeleteOne(f) \/ UserRemoves(f) \/ Decrypted(f)
           \/ f.kind = "plain" /\ EncryptEnds(f.dump)
           \/ f \in fetched \cup revived
           \/ \E c \in Clients : act[c].file = f /\ act[c].agreed]_vars

\* An object that can be opened is replaced by one that cannot only when the
\* file it was uploaded from could not be opened either or was being written:
\* uploading asks nothing and compares nothing (app.go RunS3Action).
ObjectsKept ==
    [][\A f \in Files : Opens(bucket[f]) /\ ~Opens(bucket'[f]) =>
           key' # key \/ \E c \in Clients :
               /\ act[c].pc = "put" /\ act[c].file = f
               /\ ~Opens(act[c].body) \/ disk[f] # act[c].body]_vars
===============================================================================
