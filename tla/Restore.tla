-------------------------------- MODULE Restore --------------------------------
(***************************************************************************)
(* Restoring a dump, or dumping and restoring at once, into a destination  *)
(* of the configuration: connecting, preparing the destination database,   *)
(* pg_restore and what is recorded of it (src/internal/app, docker,        *)
(* prompt), beside an administrator who uses the same PostgreSQL server.   *)
(*                                                                         *)
(* Every docker run is a step of its own and may fail.  The steps of       *)
(* taking, encrypting and decrypting the dump are in module Dumps; here    *)
(* they succeed or fail.  Ctrl-C at a prompt exits the program with        *)
(* "Aborted."; a kill, which may come anywhere, tells nothing.             *)
(***************************************************************************)
EXTENDS Naturals, FiniteSets

CONSTANTS
    Items,          \* configured databases, nested ones included
    Nested,         \* those among them that are nested below a parent
    ParentOf,       \* the parent of each nested item
    UserOf,         \* the PostgreSQL role of each item
    DatabaseOf,     \* the database of each item
    Users, Databases, Passwords,
    None,
    Unreadable,     \* a saved password the current key does not open
    MaxOps,         \* bound: restores started
    MaxAdmin        \* bound: steps of the administrator

ASSUME RestoreAssumption ==
    /\ Nested \subseteq Items
    /\ ParentOf \in [Nested -> Items \ Nested]
    /\ UserOf \in [Items -> Users] /\ DatabaseOf \in [Items -> Databases]
    /\ None \notin Passwords \cup Users \cup Items /\ Unreadable \notin Passwords
    /\ None # Unreadable
    /\ MaxOps \in Nat /\ MaxAdmin \in Nat

VARIABLES
    db,         \* what each database holds
    rolePw,     \* password of each role on the server
    saved,      \* vault: the saved password of each item
    lastRow,    \* vault: the newest row of restore_history
    session,    \* whether passwords are remembered and the vault is open
    pc,         \* where the program is
    op,         \* what the running operation has found and decided
    result,     \* what the user was last told
    stale,      \* history: items whose saved password was overtaken
    ops, admins \* bounds

server == <<db, rolePw>>
vault == <<saved, lastRow>>
bounds == <<ops, admins>>
vars == <<server, vault, session, pc, op, result, stale, bounds>>

\* old: what was there; new: the dump; gaps: the dump but for ignored errors; torn:
\* what a pg_restore that stopped has put in.  With mixed, over what was there.
Contents == {"gone", "empty", "old", "new", "gaps", "torn", "mixed", "mixed_gaps", "mixed_torn"}
Valuable == {"old", "new", "gaps", "mixed", "mixed_gaps", "mixed_torn"}
Whole == {"new", "mixed"}
Gapped == {"gaps", "mixed_gaps"}

Phases == {"password", "connect", "exists", "choose", "ask_create", "drop", "create", "confirm",
           "child_password", "role", "grant", "save", "overwrite", "replace", "source",
           "pg_restore", "running", "record"}

\* Between two operations.
Idle == [mode |-> "none", dest |-> None, src |-> None, yes |-> FALSE, connecting |-> "none",
         login |-> None, existed |-> FALSE, choice |-> "none", user |-> None, pw |-> None,
         clean |-> FALSE, outcome |-> "none", unseen |-> FALSE]

TypeOK ==
    /\ db \in [Databases -> Contents]
    /\ rolePw \in [Users -> Passwords \cup {None}]
    /\ saved \in [Items -> Passwords \cup {None, Unreadable}]
    /\ lastRow \in [dest : Items \cup {None}, status : {"none", "success", "failure"}]
    /\ session \in BOOLEAN
    /\ pc \in Phases \cup {"off", "menu", "panicked"}
    /\ op \in [mode : {"none", "restore", "sync"}, dest : Items \cup {None}, src : Items \cup {None},
               yes : BOOLEAN, connecting : {"none", "source", "parent", "flat"},
               login : Passwords \cup {None}, existed : BOOLEAN,
               choice : {"none", "into", "drop", "create"}, user : Users \cup {None},
               pw : Passwords \cup {None}, clean : BOOLEAN,
               outcome : {"none", "ok", "warned", "failed"}, unseen : BOOLEAN]
    /\ (pc \in {"off", "menu", "panicked"}) = (op = Idle)
    /\ result \in {"none", "ok", "warned", "failed", "cancelled"}
    /\ stale \subseteq Items
    /\ ops \in 0 .. MaxOps /\ admins \in 0 .. MaxAdmin

Init ==
    /\ db \in [Databases -> {"gone", "old"}]
    /\ rolePw \in [Users -> Passwords \cup {None}]
    /\ \A i \in Items \ Nested : rolePw[UserOf[i]] # None
    /\ \E i \in Items : saved \in {[k \in Items |-> None],
                                [k \in Items |-> IF k = i THEN Unreadable ELSE None]}
    /\ lastRow = [dest |-> None, status |-> "none"]
    /\ session \in BOOLEAN
    /\ pc = "off" /\ op = Idle /\ result = "none"
    /\ stale = {} /\ ops = 0 /\ admins = 0

Target == DatabaseOf[op.dest]
IsNested == op.dest \in Nested

\* The item a connection is being made for.
Connecting ==
    CASE op.connecting = "source" -> op.src
      [] op.connecting = "parent" -> ParentOf[op.dest]
      [] op.connecting = "flat" -> op.dest

\* The program goes on to phase p with the operation's record changed to o.
Goto(p, o) == pc' = p /\ op' = o

\* The operation is over and the user was told r.
Ends(r) == pc' = "menu" /\ op' = Idle /\ result' = r

\* psql as a role into a database of the server.
CanConnect(user, pw, d) == rolePw[user] = pw /\ (d # None => db[d] # "gone")

-----------------------------------------------------------------------------
(* Choosing and connecting                                                 *)

Start ==
    /\ pc \in {"off", "panicked"}
    /\ pc' = "menu" /\ session' \in BOOLEAN /\ result' = "none"
    /\ UNCHANGED <<server, vault, op, stale, bounds>>

\* Destination and source are different items; they may name one database.
StartRestore(dest, y) ==
    /\ pc = "menu" /\ ops < MaxOps
    /\ ops' = ops + 1
    /\ Goto("password", [Idle EXCEPT !.mode = "restore", !.dest = dest, !.yes = y,
                                     !.connecting = IF dest \in Nested THEN "parent" ELSE "flat"])
    /\ result' = "none"
    /\ UNCHANGED <<server, vault, session, stale, admins>>

StartDumpRestore(src, dest, y) ==
    /\ pc = "menu" /\ ops < MaxOps /\ src # dest
    /\ ops' = ops + 1
    /\ Goto("password", [Idle EXCEPT !.mode = "sync", !.src = src, !.dest = dest, !.yes = y,
                                     !.connecting = "source"])
    /\ result' = "none"
    /\ UNCHANGED <<server, vault, session, stale, admins>>

\* Saving makes the item's saved password right again, or wrong.
Save(i, p) ==
    /\ saved' = [saved EXCEPT ![i] = p]
    /\ stale' = IF rolePw[UserOf[i]] = p THEN stale \ {i} ELSE stale \cup {i}

\* A saved password is used as it is; a typed one is saved before it is tried.
ResolveDBPassword ==
    /\ pc = "password"
    /\ \/ /\ session /\ saved[Connecting] \in Passwords
          /\ Goto("connect", [op EXCEPT !.login = saved[Connecting]])
          /\ UNCHANGED <<saved, stale>>
       \/ /\ ~session \/ saved[Connecting] = None
          /\ \E p \in Passwords :
                /\ Goto("connect", [op EXCEPT !.login = p])
                /\ IF session THEN Save(Connecting, p) ELSE UNCHANGED <<saved, stale>>
    /\ UNCHANGED <<server, lastRow, session, result, bounds>>

\* The saved password cannot be decrypted: the operation ends with the error.
PasswordUnreadable ==
    /\ pc = "password" /\ session /\ saved[Connecting] = Unreadable
    /\ Ends("failed")
    /\ UNCHANGED <<server, vault, session, stale, bounds>>

\* docker.VerifyConnection: a flat destination through the maintenance database.
VerifyConnection ==
    CanConnect(UserOf[Connecting], op.login,
               IF op.connecting = "flat" THEN None ELSE DatabaseOf[Connecting])

Connected ==
    /\ pc = "connect" /\ VerifyConnection
    /\ IF op.connecting = "source"
       THEN Goto("password", [op EXCEPT !.connecting = IF IsNested THEN "parent" ELSE "flat"])
       ELSE Goto("exists", op)
    /\ UNCHANGED <<server, vault, session, result, stale, bounds>>

\* ConnectWithRetry logs the error of an outer variable, which is nil.
ConnectWithRetry ==
    /\ pc = "connect"
    /\ Goto("panicked", Idle)
    /\ UNCHANGED <<server, vault, session, result, stale, bounds>>

-----------------------------------------------------------------------------
(* Preparing the destination                                               *)

\* Mutant of Prepared: a restore asks once more as well.
PreparedAsks(o) == Goto("overwrite", o)

\* Where a prepared destination leads: dump-restore asks once more.
Prepared(o) == Goto(IF op.mode = "sync" THEN "overwrite" ELSE "replace", o)

DatabaseExists ==
    /\ pc = "exists"
    /\ LET o == [op EXCEPT !.existed = db[Target] # "gone"]
       IN  IF IsNested THEN Goto("choose", o)
           ELSE IF o.existed THEN Goto("confirm", o)
           ELSE Goto(IF op.yes THEN "create" ELSE "ask_create", o)
    /\ UNCHANGED <<server, vault, session, result, stale, bounds>>

\* A nested destination always asks, --yes or not.
SelectNestedRestoreAction ==
    /\ pc = "choose"
    /\ \/ Ends("cancelled")
       \/ /\ op.existed
          /\ Prepared([op EXCEPT !.choice = "into", !.user = UserOf[ParentOf[op.dest]], !.pw = op.login])
          /\ UNCHANGED result
       \/ op.existed /\ Goto("drop", [op EXCEPT !.choice = "drop"]) /\ UNCHANGED result
       \/ ~op.existed /\ Goto("create", [op EXCEPT !.choice = "create"]) /\ UNCHANGED result
    /\ UNCHANGED <<server, vault, session, stale, bounds>>

\* "Create it?", asked of a flat destination.
AskCreate ==
    /\ pc = "ask_create"
    /\ \/ Goto("create", op) /\ UNCHANGED result
       \/ Ends("failed")
    /\ UNCHANGED <<server, vault, session, stale, bounds>>

\* Terminate the other sessions, then DROP DATABASE IF EXISTS.
DropDatabase ==
    /\ pc = "drop"
    /\ db' = [db EXCEPT ![Target] = "gone"]
    /\ Goto("create", op)
    /\ UNCHANGED <<rolePw, vault, session, result, stale, bounds>>

CreateDatabase ==
    /\ pc = "create" /\ db[Target] = "gone"
    /\ db' = [db EXCEPT ![Target] = "empty"]
    /\ IF ~IsNested THEN Goto("confirm", op)
       ELSE IF UserOf[ParentOf[op.dest]] = UserOf[op.dest]
       THEN Prepared([op EXCEPT !.user = UserOf[op.dest], !.pw = op.login])
       ELSE Goto("child_password", op)
    /\ UNCHANGED <<rolePw, vault, session, result, stale, bounds>>

\* A flat destination: the question comes after the database was created.
ConfirmOrYes ==
    /\ pc = "confirm"
    /\ \/ /\ Prepared([op EXCEPT !.user = UserOf[op.dest], !.pw = op.login])
          /\ UNCHANGED result
       \/ ~op.yes /\ Ends("cancelled")
    /\ UNCHANGED <<server, vault, session, stale, bounds>>

\* Whose password a new nested database is restored with; --yes: the parent's.
SelectNestedCreatePassword ==
    /\ pc = "child_password"
    /\ \/ Prepared([op EXCEPT !.user = UserOf[ParentOf[op.dest]], !.pw = op.login])
       \/ /\ ~op.yes /\ session /\ saved[op.dest] \in Passwords
          /\ Prepared([op EXCEPT !.user = UserOf[op.dest], !.pw = saved[op.dest]])
       \/ /\ ~op.yes
          /\ \E p \in Passwords : Goto("role", [op EXCEPT !.user = UserOf[op.dest], !.pw = p])
    /\ UNCHANGED <<server, vault, session, result, stale, bounds>>

\* ConfirmedPassword: typed differently the second time.
PasswordsDiffer ==
    /\ pc = "child_password" /\ ~op.yes
    /\ Ends("failed")
    /\ UNCHANGED <<server, vault, session, stale, bounds>>

\* The items whose saved password a new password of a role overtakes, with those
\* overtaken before that it does not make right again.
Overtaken(user, p, items) ==
    LET sharing == {i \in Items : UserOf[i] = user /\ saved[i] \in Passwords}
    IN  (stale \ {i \in sharing : saved[i] = p}) \cup {i \in sharing \cap items : saved[i] # p}

\* CREATE ROLE, or ALTER ROLE PASSWORD of a role other items may share.
EnsureRole ==
    /\ pc = "role"
    /\ rolePw' = [rolePw EXCEPT ![op.user] = op.pw]
    /\ stale' = Overtaken(op.user, op.pw, Items \ {op.dest})
    /\ Goto("grant", op)
    /\ UNCHANGED <<db, vault, session, result, bounds>>

\* GRANT on the database, then on its public schema.  What a role may do is not
\* told apart: a pg_restore may always be refused.
GrantPrivileges ==
    /\ pc = "grant" /\ db[Target] # "gone"
    /\ IF session THEN Goto("save", op) /\ UNCHANGED stale
       ELSE Prepared(op) /\ stale' = stale \cup {op.dest}
    /\ UNCHANGED <<db, rolePw, vault, session, result, bounds>>

\* Mutant of SaveLogin: the new password is not saved.
ForgetLogin ==
    /\ pc = "save"
    /\ Prepared(op)
    /\ UNCHANGED <<server, vault, session, result, stale, bounds>>

SaveLogin ==
    /\ pc = "save"
    /\ Save(op.dest, op.pw)
    /\ Prepared(op)
    /\ UNCHANGED <<server, lastRow, session, result, bounds>>

-----------------------------------------------------------------------------
(* pg_restore                                                              *)

\* "Overwrite destination?": the destination has been prepared already.
ConfirmOverwrite ==
    /\ pc = "overwrite"
    /\ \/ Goto("replace", op) /\ UNCHANGED result
       \/ ~op.yes /\ Ends("cancelled")
    /\ UNCHANGED <<server, vault, session, stale, bounds>>

IntoExisting == IF IsNested THEN op.choice = "into" ELSE op.existed

\* Mutant of ReplaceChoices: --yes cleans whatever the destination is.
ReplaceWhenYes == IF op.yes THEN {TRUE} ELSE IF IntoExisting THEN BOOLEAN ELSE {FALSE}

\* resolveRestoreClean
ReplaceChoices ==
    IF ~IntoExisting THEN {FALSE} ELSE IF op.yes THEN {TRUE} ELSE BOOLEAN

SelectReplace ==
    /\ pc = "replace"
    /\ \E c \in ReplaceChoices : Goto("source", [op EXCEPT !.clean = c])
    /\ UNCHANGED <<server, vault, session, result, stale, bounds>>

\* The dump is decrypted, or taken from the source just now.
SourceReady ==
    /\ pc = "source"
    /\ op.mode = "sync" => db[DatabaseOf[op.src]] # "gone"
    /\ Goto("pg_restore", op)
    /\ UNCHANGED <<server, vault, session, result, stale, bounds>>

PgRestoreBegins ==
    /\ pc = "pg_restore" /\ CanConnect(op.user, op.pw, Target)
    /\ db' = [db EXCEPT ![Target] = IF op.clean \/ @ = "empty" THEN "torn" ELSE "mixed_torn"]
    /\ Goto("running", op)
    /\ UNCHANGED <<rolePw, vault, session, result, stale, bounds>>

\* What pg_restore --jobs, or the docker that runs it, can end with: what its output
\* says, and how much of the dump is then in.  It counts the errors it ignored when it
\* has gone through the whole dump, and stops part way with any other error it names; an
\* exit 1 need not say a word the code looks for.
Runs == {r \in [exit : 0 .. 2, fatal : BOOLEAN, error : BOOLEAN, ignored : BOOLEAN,
                reached : {"none", "some", "most", "all"}] :
            /\ (r.exit = 0) = (r.reached = "all")
            /\ r.exit # 1 => ~r.fatal /\ ~r.error /\ ~r.ignored
            /\ r.error /\ r.ignored /\ ~r.fatal => r.reached = "most"
            /\ r.reached = "most" => r.exit = 1 /\ ~r.fatal /\ (r.error => r.ignored)}

\* Mutant of RestoreOutcome: a lost connection is an ignored error like any other.
OutcomeByErrors(r) ==
    IF r.exit > 1 \/ (r.error /\ ~r.ignored) THEN "failed" ELSE IF r.error THEN "warned" ELSE "ok"

RestoreOutcome(r) ==
    IF r.exit > 1 \/ r.fatal \/ (r.error /\ ~r.ignored) THEN "failed"
    ELSE IF r.exit = 1 /\ r.error THEN "warned" ELSE "ok"

\* History: an exit 1 in whose output the code recognises no error.
UnseenFailure(r) == r.exit = 1 /\ ~r.fatal /\ ~r.error

\* The operation's record once pg_restore has ended with r.
Judged(r) == [op EXCEPT !.outcome = RestoreOutcome(r), !.unseen = UnseenFailure(r)]

\* What of the dump is in, over what was there or not.
Filled(c, r) ==
    CASE r.reached = "all" -> IF c = "torn" THEN "new" ELSE "mixed"
      [] r.reached = "most" -> IF c = "torn" THEN "gaps" ELSE "mixed_gaps"
      [] r.reached = "some" -> c

PgRestoreEnds ==
    /\ pc = "running"
    /\ \E r \in {q \in Runs : q.reached # "none"} :
          /\ Goto("record", Judged(r))
          /\ db' = [db EXCEPT ![Target] = Filled(@, r)]
    /\ UNCHANGED <<rolePw, vault, session, result, stale, bounds>>

\* The container cannot be run, or the login is refused: nothing is put in.
PgRestoreRefused ==
    /\ pc = "pg_restore"
    /\ \E r \in {q \in Runs : q.reached = "none"} : Goto("record", Judged(r))
    /\ UNCHANGED <<server, vault, session, result, stale, bounds>>

\* recordRestore: its own errors are ignored.  A dump-restore writes an audit
\* line instead, and only when it succeeds; encrypting the dump may still fail.
RecordRestore ==
    /\ pc = "record"
    /\ \/ /\ op.mode = "restore" /\ session
          /\ lastRow' = [dest |-> op.dest,
                         status |-> IF op.outcome = "failed" THEN "failure" ELSE "success"]
       \/ UNCHANGED lastRow
    /\ \/ Ends(op.outcome)
       \/ op.mode = "sync" /\ Ends("failed")
    /\ UNCHANGED <<server, saved, session, stale, bounds>>

-----------------------------------------------------------------------------
(* What can go wrong anywhere                                              *)

\* A docker run, a vault statement or reading the dump fails: the operation
\* returns its error to the menu.
StepFails ==
    /\ pc \in {"password", "exists", "drop", "create", "role", "grant", "save", "source"}
    /\ stale' = IF pc \in {"grant", "save"} THEN stale \cup {op.dest} ELSE stale
    /\ Ends("failed")
    /\ UNCHANGED <<server, vault, session, bounds>>

\* The program is killed.
Crash ==
    /\ pc \notin {"off", "panicked"}
    /\ stale' = IF pc \in {"grant", "save"} THEN stale \cup {op.dest} ELSE stale
    /\ Goto("off", Idle) /\ result' = "none"
    /\ UNCHANGED <<server, vault, session, bounds>>

\* A running operation waits at a prompt.
Asking ==
    \/ pc = "password" /\ (~session \/ saved[Connecting] = None)
    \/ pc = "choose"
    \/ pc \in {"ask_create", "confirm", "child_password", "overwrite"} /\ ~op.yes
    \/ pc = "replace" /\ IntoExisting /\ ~op.yes

\* "Aborted.": Ctrl-C at any prompt exits the program.
OnCancel ==
    /\ Asking
    /\ Goto("off", Idle) /\ result' = "cancelled"
    /\ UNCHANGED <<server, vault, session, stale, bounds>>

\* The administrator creates or fills a database, or changes a role's password.
AdminCreates(d) ==
    /\ db[d] \in {"gone", "empty"} /\ admins < MaxAdmin
    /\ db' = [db EXCEPT ![d] = "old"] /\ admins' = admins + 1
    /\ UNCHANGED <<rolePw, vault, session, pc, op, result, stale, ops>>

AdminAlters(u, p) ==
    /\ rolePw[u] # p /\ admins < MaxAdmin
    /\ rolePw' = [rolePw EXCEPT ![u] = p] /\ admins' = admins + 1
    /\ stale' = Overtaken(u, p, Items)
    /\ UNCHANGED <<db, vault, session, pc, op, result, ops>>

Prepare ==
    \/ DatabaseExists \/ SelectNestedRestoreAction \/ AskCreate \/ DropDatabase \/ CreateDatabase
    \/ ConfirmOrYes \/ SelectNestedCreatePassword \/ PasswordsDiffer \/ EnsureRole
    \/ GrantPrivileges \/ SaveLogin

Next ==
    \/ Start
    \/ \E d \in Items, y \in BOOLEAN : StartRestore(d, y)
                                       \/ \E s \in Items : StartDumpRestore(s, d, y)
    \/ ResolveDBPassword \/ PasswordUnreadable \/ Connected \/ ConnectWithRetry
    \/ Prepare
    \/ ConfirmOverwrite \/ SelectReplace \/ SourceReady \/ PgRestoreBegins \/ PgRestoreEnds
    \/ PgRestoreRefused \/ RecordRestore \/ StepFails \/ Crash \/ OnCancel
    \/ \E d \in Databases : AdminCreates(d)
    \/ \E u \in Users, p \in Passwords : AdminAlters(u, p)

Spec == Init /\ [][Next]_vars

-----------------------------------------------------------------------------
(* Properties                                                              *)

\* In every state, all of them well typed: a saved password opens its role, or
\* something is known to have overtaken it: the administrator, a typing error, a
\* new password for a role it shares, a new login while passwords are not remembered,
\* or a grant that stopped between the server and the vault.
SavedPasswordsWork ==
    /\ TypeOK
    /\ \A i \in Items : saved[i] \in Passwords =>
           \/ saved[i] = rolePw[UserOf[i]]
           \/ i \in stale
           \/ pc \in {"grant", "save"} /\ op.dest = i

\* Only the destination of the running operation loses what it held, and only
\* after it was found to exist: by DROP when the user picked that, by --clean
\* when the restore goes into the existing database.  A database that appeared
\* after the check keeps its data, whatever --yes says.
LossWasAgreed ==
    [][\A d \in Databases : db[d] \in Valuable /\ db'[d] \notin Valuable =>
          /\ d = Target /\ op.existed
          /\ IF db'[d] = "gone" THEN op.choice = "drop" ELSE op.clean /\ op.choice # "drop"]_vars

\* What the user and restore_history are told is true of the destination: a success
\* holds the whole dump and warnings all but the ignored errors, over what was there
\* or not.  One success is none: a pg_restore that exits with 1 and says no word the
\* code knows for an error (docker.go:387), whatever it has put in.
OutcomeIsTrue ==
    [][/\ result' = "ok" /\ result # "ok" => db[Target] \in Whole \/ op.unseen
       /\ result' = "warned" /\ result # "warned" => db[Target] \in Gapped
       /\ lastRow' # lastRow /\ lastRow'.status = "success" =>
              db[Target] \in Whole \cup Gapped \/ op.unseen]_vars

\* A restore the user calls off, by an answer or by Ctrl-C, leaves the destination's
\* data alone.  Two questions come after the drop, and never with --yes: the last one
\* of a dump-restore, and a new database's password when its role is not the parent's.
\* The database is there again then, empty.
CancelKeepsData ==
    [][result' = "cancelled" /\ result # "cancelled" /\ op.existed =>
          /\ db[Target] # "gone"
          /\ op.choice = "drop" =>
                 /\ ~op.yes
                 /\ \/ pc = "overwrite" /\ op.mode = "sync"
                    \/ /\ pc = "child_password"
                       /\ UserOf[op.dest] # UserOf[ParentOf[op.dest]]]_vars

\* "Connection failed. What next?": a failed connection asks.
RetryOffered == pc # "panicked"
==============================================================================
