---------------------------- MODULE RestoreProofs ----------------------------
(***************************************************************************)
(* Theorems about restores, for any number of items, roles, databases,     *)
(* passwords, restores and steps of the administrator.                     *)
(***************************************************************************)
EXTENDS Restore, TLAPS

-----------------------------------------------------------------------------
(* The inductive invariant                                                 *)

\* A running operation knows its items and tells the user nothing before its end.
OperationKnown ==
    pc \in Phases =>
        /\ op.mode # "none" /\ op.dest \in Items
        /\ op.mode = "sync" => op.src \in Items
        /\ result = "none"

\* Whose password is asked for while it connects, and what it has logged in with.
LoginKnown ==
    /\ pc \in {"password", "connect"} =>
           \/ op.mode = "sync" /\ op.connecting = "source"
           \/ op.connecting = IF IsNested THEN "parent" ELSE "flat"
    /\ pc \in Phases \ {"password"} => op.login \in Passwords
    /\ pc \in {"role", "grant", "save", "overwrite", "replace", "source", "pg_restore",
               "running"} =>
           op.user \in Users /\ op.pw \in Passwords

\* What was found and decided of the destination: drop and into are choices about a
\* nested one that exists, and --clean comes last, for what is restored into.
ChoiceFits ==
    /\ pc \in {"choose", "drop", "child_password", "role", "grant", "save"} => IsNested
    /\ pc \in {"ask_create", "confirm"} => ~IsNested
    /\ pc \in {"password", "connect", "exists"} => ~op.existed
    /\ pc \in {"password", "connect", "exists", "choose"} => op.choice = "none"
    /\ op.choice # "none" => IsNested
    /\ op.choice \in {"into", "drop"} => op.existed
    /\ pc = "drop" => op.choice = "drop"
    /\ op.clean => IntoExisting /\ pc \in {"source", "pg_restore", "running", "record"}
    /\ pc = "overwrite" => op.mode = "sync"
    /\ pc = "child_password" => UserOf[op.dest] # UserOf[ParentOf[op.dest]]

\* The destination is what the operation has made of it: nobody else drops a
\* database, or touches one with data in it.
DestinationFits ==
    /\ op.existed /\ pc # "create" => db[Target] # "gone"
    /\ pc = "running" => db[Target] \in {"torn", "mixed_torn"}
    /\ pc = "record" =>
           /\ op.outcome # "none"
           /\ op.outcome = "ok" => db[Target] \in Whole \/ op.unseen
           /\ op.outcome = "warned" => db[Target] \in Gapped

-----------------------------------------------------------------------------
(* What the steps make of the operation's record                           *)

Ops == [mode : {"none", "restore", "sync"},
        dest : Items \cup {None}, src : Items \cup {None},
        yes : BOOLEAN, connecting : {"none", "source", "parent", "flat"},
        login : Passwords \cup {None}, existed : BOOLEAN,
        choice : {"none", "into", "drop", "create"}, user : Users \cup {None},
        pw : Passwords \cup {None}, clean : BOOLEAN,
        outcome : {"none", "ok", "warned", "failed"}, unseen : BOOLEAN]

\* The request is the same: what, where from, and --yes.
SameRequest ==
    /\ op' \in Ops
    /\ op'.mode = op.mode /\ op'.dest = op.dest /\ op'.src = op.src /\ op'.yes = op.yes
    /\ op'.connecting = op.connecting /\ op'.clean = op.clean /\ op'.outcome = op.outcome

SameFindings == op'.login = op.login /\ op'.existed = op.existed

\* Logged in as a role whose password is known.
LoggedIn(o) == o.user \in Users /\ o.pw \in Passwords

PreparedPhase == IF op.mode = "sync" THEN "overwrite" ELSE "replace"

\* Nothing is decided between two operations.
LEMMA IdleFields ==
    /\ Idle \in Ops
    /\ Idle.mode = "none" /\ ~Idle.existed /\ Idle.choice = "none" /\ ~Idle.clean
  BY DEF Idle, Ops

\* What a restore begins with: nothing is found or decided.
LEMMA RestoreBegins ==
    ASSUME NEW d \in Items, NEW y \in BOOLEAN, StartRestore(d, y)
    PROVE  /\ pc = "menu" /\ ops' = ops + 1 /\ ops < MaxOps
           /\ UNCHANGED <<server, vault, session, stale, admins>>
           /\ op' \in Ops /\ pc' = "password" /\ result' = "none"
           /\ op'.dest = d /\ ~op'.existed /\ op'.choice = "none" /\ ~op'.clean
           /\ op'.mode = "restore"
           /\ op'.connecting = IF d \in Nested THEN "parent" ELSE "flat"
  BY DEF StartRestore, Goto, Idle, Ops

\* And a dump-restore.
LEMMA SyncBegins ==
    ASSUME NEW s \in Items, NEW d \in Items, NEW y \in BOOLEAN, StartDumpRestore(s, d, y)
    PROVE  /\ pc = "menu" /\ ops' = ops + 1 /\ ops < MaxOps
           /\ UNCHANGED <<server, vault, session, stale, admins>>
           /\ op' \in Ops /\ pc' = "password" /\ result' = "none"
           /\ op'.dest = d /\ ~op'.existed /\ op'.choice = "none" /\ ~op'.clean
           /\ op'.mode = "sync" /\ op'.src = s /\ op'.connecting = "source"
  BY DEF StartDumpRestore, Goto, Idle, Ops

\* The check for the database keeps all but what it found.
LEMMA ExistsMoves ==
    ASSUME op \in Ops, DatabaseExists
    PROVE  /\ pc = "exists" /\ UNCHANGED <<server, vault, session, result, stale, bounds>>
           /\ SameRequest /\ op'.login = op.login /\ op'.choice = op.choice
           /\ op'.existed = (db[Target] # "gone")
           /\ pc' = IF IsNested THEN "choose" ELSE IF op'.existed THEN "confirm"
                    ELSE IF op.yes THEN "create" ELSE "ask_create"
<1> DEFINE e == db[Target] # "gone"
           o == [op EXCEPT !.existed = e]
<1>1. op' = o /\ pc' = IF IsNested THEN "choose" ELSE IF o.existed THEN "confirm"
                       ELSE IF op.yes THEN "create" ELSE "ask_create"
  BY DEF DatabaseExists, Goto
<1>2. e \in BOOLEAN
  OBVIOUS
<1> HIDE DEF e
<1>3. /\ o \in Ops /\ o.existed = e
      /\ o.mode = op.mode /\ o.dest = op.dest /\ o.src = op.src /\ o.yes = op.yes
      /\ o.connecting = op.connecting /\ o.clean = op.clean /\ o.outcome = op.outcome
      /\ o.login = op.login /\ o.choice = op.choice
  BY <1>2 DEF Ops
<1> HIDE DEF o
<1>4. SameRequest /\ op'.login = op.login /\ op'.choice = op.choice /\ op'.existed = e
  BY <1>1, <1>3 DEF SameRequest
<1> QED
  BY <1>1, <1>3, <1>4 DEF e, DatabaseExists

\* The choice about a nested destination: into and drop for one that exists.
LEMMA ChoiceMoves ==
    ASSUME op \in Ops, op.dest \in Items, IsNested, op.login \in Passwords,
           SelectNestedRestoreAction
    PROVE  \/ pc' = "menu" /\ op' = Idle /\ result' = "cancelled"
           \/ /\ SameRequest /\ SameFindings /\ UNCHANGED result
              /\ \/ /\ op.existed /\ op'.choice = "into" /\ LoggedIn(op')
                    /\ pc' = PreparedPhase
                 \/ op.existed /\ op'.choice = "drop" /\ pc' = "drop"
                 \/ ~op.existed /\ op'.choice = "create" /\ pc' = "create"
<1> USE RestoreAssumption DEF Goto, SameRequest, SameFindings, LoggedIn
<1>1. CASE Ends("cancelled")
  BY <1>1 DEF Ends
<1>2. CASE /\ op.existed
           /\ Prepared([op EXCEPT !.choice = "into", !.user = UserOf[ParentOf[op.dest]],
                                  !.pw = op.login])
           /\ UNCHANGED result
  <2> DEFINE u == UserOf[ParentOf[op.dest]]
             c == [op EXCEPT !.choice = "into"]
             s == [c EXCEPT !.user = u, !.pw = op.login]
  <2>1. u \in Users
    BY DEF IsNested
  <2>2. pc' = PreparedPhase /\ op' = s
    <3>1. s.mode = op.mode
      OBVIOUS
    <3> QED
      BY <1>2, <3>1 DEF Prepared, PreparedPhase
  <2>3. /\ c \in Ops /\ c.choice = "into"
        /\ c.mode = op.mode /\ c.dest = op.dest /\ c.src = op.src /\ c.yes = op.yes
        /\ c.connecting = op.connecting /\ c.clean = op.clean /\ c.outcome = op.outcome
        /\ c.login = op.login /\ c.existed = op.existed
    BY DEF Ops
  <2> HIDE DEF u, c
  <2>4. /\ s \in Ops /\ s.user = u /\ s.pw = op.login /\ s.choice = "into"
        /\ s.mode = op.mode /\ s.dest = op.dest /\ s.src = op.src /\ s.yes = op.yes
        /\ s.connecting = op.connecting /\ s.clean = op.clean /\ s.outcome = op.outcome
        /\ s.login = op.login /\ s.existed = op.existed
    BY <2>1, <2>3 DEF Ops
  <2> HIDE DEF s
  <2> QED
    BY <1>2, <2>1, <2>2, <2>4
<1>3. CASE op.existed /\ Goto("drop", [op EXCEPT !.choice = "drop"]) /\ UNCHANGED result
  BY <1>3 DEF Ops
<1>4. CASE /\ ~op.existed /\ Goto("create", [op EXCEPT !.choice = "create"])
           /\ UNCHANGED result
  BY <1>4 DEF Ops
<1> QED
  BY <1>1, <1>2, <1>3, <1>4 DEF SelectNestedRestoreAction

\* How pg_restore ended is all that is noted of it: success and warnings say truly how
\* much of the dump is in, but for an error nobody has seen.
LEMMA JudgedFields ==
    ASSUME op \in Ops, NEW r \in Runs
    PROVE  /\ Judged(r) \in Ops
           /\ Judged(r).mode = op.mode /\ Judged(r).dest = op.dest /\ Judged(r).src = op.src
           /\ Judged(r).yes = op.yes /\ Judged(r).connecting = op.connecting
           /\ Judged(r).clean = op.clean /\ Judged(r).login = op.login
           /\ Judged(r).existed = op.existed /\ Judged(r).choice = op.choice
           /\ Judged(r).user = op.user /\ Judged(r).pw = op.pw
           /\ Judged(r).outcome # "none"
           /\ Judged(r).outcome = "ok" => r.reached = "all" \/ Judged(r).unseen
           /\ Judged(r).outcome = "warned" => r.reached = "most"
<1> DEFINE oc == RestoreOutcome(r)
           un == UnseenFailure(r)
           c == [op EXCEPT !.outcome = oc]
           s == [c EXCEPT !.unseen = un]
<1>1. /\ oc \in {"ok", "warned", "failed"} /\ un \in BOOLEAN
      /\ oc = "ok" => r.reached = "all" \/ un
      /\ oc = "warned" => r.reached = "most"
  BY DEF Runs, RestoreOutcome, UnseenFailure
<1> HIDE DEF oc, un
<1>2. /\ c \in Ops /\ c.outcome = oc
      /\ c.mode = op.mode /\ c.dest = op.dest /\ c.src = op.src /\ c.yes = op.yes
      /\ c.connecting = op.connecting /\ c.clean = op.clean /\ c.login = op.login
      /\ c.existed = op.existed /\ c.choice = op.choice /\ c.user = op.user /\ c.pw = op.pw
  BY <1>1 DEF Ops
<1>3. Judged(r) = s
  BY DEF Judged, oc, un
<1> HIDE DEF c
<1>4. /\ s \in Ops /\ s.outcome = oc /\ s.unseen = un
      /\ s.mode = op.mode /\ s.dest = op.dest /\ s.src = op.src /\ s.yes = op.yes
      /\ s.connecting = op.connecting /\ s.clean = op.clean /\ s.login = op.login
      /\ s.existed = op.existed /\ s.choice = op.choice /\ s.user = op.user /\ s.pw = op.pw
  BY <1>1, <1>2 DEF Ops
<1> HIDE DEF s
<1> QED
  BY <1>1, <1>3, <1>4

\* Deciding on a login changes nothing else.
LEMMA LoginMoves ==
    ASSUME op \in Ops, NEW u \in Users, NEW p \in Passwords, NEW phase,
           Goto(phase, [op EXCEPT !.user = u, !.pw = p])
    PROVE  /\ SameRequest /\ SameFindings /\ op'.choice = op.choice /\ LoggedIn(op')
           /\ pc' = phase
<1> DEFINE s == [op EXCEPT !.user = u, !.pw = p]
<1>1. /\ s \in Ops /\ s.user = u /\ s.pw = p
      /\ s.mode = op.mode /\ s.dest = op.dest /\ s.src = op.src /\ s.yes = op.yes
      /\ s.connecting = op.connecting /\ s.clean = op.clean /\ s.outcome = op.outcome
      /\ s.login = op.login /\ s.existed = op.existed /\ s.choice = op.choice
  BY DEF Ops
<1>2. op' = s /\ pc' = phase
  BY DEF Goto
<1> HIDE DEF s
<1> QED
  BY <1>1, <1>2 DEF SameRequest, SameFindings, LoggedIn

\* With its login decided on, the destination is prepared.
LEMMA PreparedMoves ==
    ASSUME op \in Ops, NEW u \in Users, NEW p \in Passwords,
           Prepared([op EXCEPT !.user = u, !.pw = p])
    PROVE  /\ SameRequest /\ SameFindings /\ op'.choice = op.choice /\ LoggedIn(op')
           /\ pc' = PreparedPhase
<1>1. [op EXCEPT !.user = u, !.pw = p].mode = op.mode
  OBVIOUS
<1>2. Goto(PreparedPhase, [op EXCEPT !.user = u, !.pw = p])
  BY <1>1 DEF Prepared, PreparedPhase
<1> QED
  BY <1>2, LoginMoves

\* A login decided on, and the rest of what was found and chosen kept.
LoginDecided ==
    /\ SameRequest /\ SameFindings /\ op'.choice = op.choice /\ LoggedIn(op')
    /\ UNCHANGED result

\* A created database is prepared, or the password of its role or the user is asked.
LEMMA CreateMoves ==
    ASSUME op \in Ops, op.dest \in Items, op.login \in Passwords, CreateDatabase
    PROVE  \/ /\ UNCHANGED <<op, result>>
              /\ pc' = IF IsNested THEN "child_password" ELSE "confirm"
              /\ IsNested => UserOf[op.dest] # UserOf[ParentOf[op.dest]]
           \/ LoginDecided /\ IsNested /\ pc' = PreparedPhase
<1> DEFINE u == UserOf[op.dest]
<1>1. u \in Users
  BY RestoreAssumption
<1>2. CASE IsNested /\ UserOf[ParentOf[op.dest]] = UserOf[op.dest]
  <2>1. Prepared([op EXCEPT !.user = u, !.pw = op.login]) /\ UNCHANGED result
    BY <1>2 DEF CreateDatabase
  <2> QED
    BY <1>1, <1>2, <2>1, PreparedMoves DEF LoginDecided
<1>3. CASE ~(IsNested /\ UserOf[ParentOf[op.dest]] = UserOf[op.dest])
  BY <1>3 DEF CreateDatabase, Goto
<1> QED
  BY <1>2, <1>3

\* A flat destination is prepared unless the user calls it off.
LEMMA ConfirmMoves ==
    ASSUME op \in Ops, op.dest \in Items, op.login \in Passwords, ConfirmOrYes
    PROVE  \/ Ends("cancelled")
           \/ LoginDecided /\ pc' = PreparedPhase
<1> DEFINE u == UserOf[op.dest]
<1>1. u \in Users
  BY RestoreAssumption
<1>2. CASE Prepared([op EXCEPT !.user = u, !.pw = op.login]) /\ UNCHANGED result
  BY <1>1, <1>2, PreparedMoves DEF LoginDecided
<1> QED
  BY <1>2 DEF ConfirmOrYes

\* A nested destination is prepared, or its role is given the password typed.
LEMMA ChildMoves ==
    ASSUME op \in Ops, op.dest \in Items, IsNested, op.login \in Passwords,
           SelectNestedCreatePassword
    PROVE  LoginDecided /\ pc' \in {PreparedPhase, "role"}
<1>1. UserOf[ParentOf[op.dest]] \in Users /\ UserOf[op.dest] \in Users
  BY RestoreAssumption DEF IsNested
<1>2. CASE Prepared([op EXCEPT !.user = UserOf[ParentOf[op.dest]], !.pw = op.login])
  BY <1>1, <1>2, PreparedMoves DEF LoginDecided, SelectNestedCreatePassword
<1>3. CASE /\ saved[op.dest] \in Passwords
           /\ Prepared([op EXCEPT !.user = UserOf[op.dest], !.pw = saved[op.dest]])
  BY <1>1, <1>3, PreparedMoves DEF LoginDecided, SelectNestedCreatePassword
<1>4. ASSUME NEW p \in Passwords,
             Goto("role", [op EXCEPT !.user = UserOf[op.dest], !.pw = p])
      PROVE  LoginDecided /\ pc' = "role"
  BY <1>1, <1>4, LoginMoves DEF LoginDecided, SelectNestedCreatePassword
<1> QED
  BY <1>2, <1>3, <1>4 DEF SelectNestedCreatePassword

-----------------------------------------------------------------------------
(* Which step changes what                                                 *)

\* The three things a step may never do, as steps.
LossAgreed ==
    \A d \in Databases : db[d] \in Valuable /\ db'[d] \notin Valuable =>
        /\ d = Target /\ op.existed
        /\ IF db'[d] = "gone" THEN op.choice = "drop" ELSE op.clean /\ op.choice # "drop"

OutcomeTold ==
    /\ result' = "ok" /\ result # "ok" => db[Target] \in Whole \/ op.unseen
    /\ result' = "warned" /\ result # "warned" => db[Target] \in Gapped
    /\ lastRow' # lastRow /\ lastRow'.status = "success" =>
           db[Target] \in Whole \cup Gapped \/ op.unseen

CancelHarmless ==
    result' = "cancelled" /\ result # "cancelled" /\ op.existed =>
        /\ db[Target] # "gone"
        /\ op.choice = "drop" =>
               /\ ~op.yes
               /\ \/ pc = "overwrite" /\ op.mode = "sync"
                  \/ /\ pc = "child_password"
                     /\ UserOf[op.dest] # UserOf[ParentOf[op.dest]]

\* The types, by what holds the variables: the vault, the rest, the server.
Rows == [dest : Items \cup {None}, status : {"none", "success", "failure"}]

VaultTyped ==
    /\ saved \in [Items -> Passwords \cup {None, Unreadable}]
    /\ lastRow \in Rows

RestTyped ==
    /\ session \in BOOLEAN
    /\ pc \in Phases \cup {"off", "menu", "panicked"}
    /\ result \in {"none", "ok", "warned", "failed", "cancelled"}
    /\ stale \subseteq Items
    /\ ops \in 0 .. MaxOps /\ admins \in 0 .. MaxAdmin

ServerTyped == db \in [Databases -> Contents] /\ rolePw \in [Users -> Passwords \cup {None}]

\* The operation is over, or none was running.
Over == pc' \in {"menu", "off", "panicked"} /\ op' = Idle

\* It is after the program's start, a failure, and the end of a restore.
LEMMA OverSteps ==
    ASSUME TypeOK, \/ Start \/ PasswordUnreadable \/ ConnectWithRetry \/ PasswordsDiffer
                   \/ RecordRestore \/ StepFails \/ Crash \/ OnCancel
    PROVE  Over
<1> USE DEF Over, Goto, Ends
<1>1. CASE Start
  BY <1>1 DEF Start, TypeOK
<1>2. CASE PasswordUnreadable \/ ConnectWithRetry \/ PasswordsDiffer
  BY <1>2 DEF PasswordUnreadable, ConnectWithRetry, PasswordsDiffer
<1>3. CASE RecordRestore \/ StepFails \/ Crash \/ OnCancel
  BY <1>3 DEF RecordRestore, StepFails, Crash, OnCancel
<1> QED
  BY <1>1, <1>2, <1>3

\* The administrator's steps leave the program alone.
LEMMA AdminSteps ==
    ASSUME \/ \E d \in Databases : AdminCreates(d)
           \/ \E u \in Users, p \in Passwords : AdminAlters(u, p)
    PROVE  UNCHANGED <<pc, op, result>> /\ UNCHANGED <<vault, session, ops>>
  BY DEF AdminCreates, AdminAlters

\* Which steps change databases.
LEMMA DatabasesChangedBy ==
    ASSUME Next, db' # db
    PROVE  \/ DropDatabase \/ CreateDatabase \/ PgRestoreBegins \/ PgRestoreEnds
           \/ \E d \in Databases : AdminCreates(d)
  BY DEF Next, Prepare, Start, StartRestore, StartDumpRestore, ResolveDBPassword,
         PasswordUnreadable, Connected, ConnectWithRetry, DatabaseExists,
         SelectNestedRestoreAction, AskCreate, ConfirmOrYes, SelectNestedCreatePassword,
         PasswordsDiffer, EnsureRole, GrantPrivileges, SaveLogin, ConfirmOverwrite,
         SelectReplace, SourceReady, PgRestoreRefused, RecordRestore, StepFails, Crash, OnCancel,
         AdminAlters, server, vault, bounds

\* Which give a role a password.
LEMMA RolesChangedBy ==
    ASSUME Next, rolePw' # rolePw
    PROVE  EnsureRole \/ \E u \in Users, p \in Passwords : AdminAlters(u, p)
  BY DEF Next, Prepare, Start, StartRestore, StartDumpRestore, ResolveDBPassword,
         PasswordUnreadable, Connected, ConnectWithRetry, DatabaseExists,
         SelectNestedRestoreAction, AskCreate, DropDatabase, CreateDatabase, ConfirmOrYes,
         SelectNestedCreatePassword, PasswordsDiffer, GrantPrivileges, SaveLogin,
         ConfirmOverwrite, SelectReplace, SourceReady, PgRestoreBegins, PgRestoreEnds,
         PgRestoreRefused, RecordRestore, StepFails, Crash, OnCancel, AdminCreates, server,
         vault, bounds

\* Which write to the vault.
LEMMA VaultChangedBy ==
    ASSUME Next
    PROVE  /\ saved' # saved => ResolveDBPassword \/ SaveLogin
           /\ lastRow' # lastRow => RecordRestore
  BY DEF Next, Prepare, Start, StartRestore, StartDumpRestore, ResolveDBPassword,
         PasswordUnreadable, Connected, ConnectWithRetry, DatabaseExists,
         SelectNestedRestoreAction, AskCreate, DropDatabase, CreateDatabase, ConfirmOrYes,
         SelectNestedCreatePassword, PasswordsDiffer, EnsureRole, GrantPrivileges,
         SaveLogin, ConfirmOverwrite, SelectReplace, SourceReady, PgRestoreBegins,
         PgRestoreEnds, PgRestoreRefused, RecordRestore, StepFails, Crash, OnCancel,
         AdminCreates, AdminAlters, server, vault, bounds

\* Which tell the user that something was done, or called off.
LEMMA ToldBy ==
    ASSUME Next, result' # result
    PROVE  \/ result' \in {"none", "failed"}
           \/ RecordRestore \/ SelectNestedRestoreAction \/ ConfirmOrYes \/ ConfirmOverwrite
           \/ OnCancel
  BY DEF Next, Prepare, Start, StartRestore, StartDumpRestore, ResolveDBPassword,
         PasswordUnreadable, Connected, ConnectWithRetry, DatabaseExists, AskCreate,
         DropDatabase, CreateDatabase, SelectNestedCreatePassword, PasswordsDiffer,
         EnsureRole, GrantPrivileges, SaveLogin, SelectReplace, SourceReady,
         PgRestoreBegins, PgRestoreEnds, PgRestoreRefused, StepFails, Crash, AdminCreates,
         AdminAlters, server, vault, bounds, Goto, Ends

\* Which steps can bear on whether saved passwords open their roles.
LEMMA SavedTouchedBy ==
    ASSUME Next
    PROVE  \/ pc \notin {"grant", "save"} /\ UNCHANGED <<rolePw, saved, stale>>
           \/ UNCHANGED <<pc, op>> /\ UNCHANGED <<rolePw, saved, stale>>
           \/ ResolveDBPassword \/ EnsureRole \/ GrantPrivileges \/ SaveLogin
           \/ StepFails \/ Crash
           \/ \E u \in Users, p \in Passwords : AdminAlters(u, p)
  BY DEF Next, Prepare, Start, StartRestore, StartDumpRestore, PasswordUnreadable,
         Connected, ConnectWithRetry, DatabaseExists, SelectNestedRestoreAction, AskCreate,
         DropDatabase, CreateDatabase, ConfirmOrYes, SelectNestedCreatePassword,
         PasswordsDiffer, ConfirmOverwrite, SelectReplace, SourceReady, PgRestoreBegins,
         PgRestoreEnds, PgRestoreRefused, RecordRestore, OnCancel, Asking, AdminCreates,
         server, vault, bounds

-----------------------------------------------------------------------------
(* Each part of the invariant is kept                                      *)

\* Every step keeps the types of the operation's record.
LEMMA StepOps ==
    ASSUME TypeOK, OperationKnown, LoginKnown, ChoiceFits, Next
    PROVE  op' \in Ops
<1> USE RestoreAssumption DEF server, vault, bounds
<1> op \in Ops
  BY DEF TypeOK, Ops
<1>1. CASE Over
  BY <1>1, IdleFields DEF Over
<1>2. CASE UNCHANGED <<pc, op, result>>
  BY <1>2
<1>3. ASSUME NEW d \in Items, NEW y \in BOOLEAN, StartRestore(d, y) PROVE op' \in Ops
  BY <1>3, RestoreBegins
<1>4. ASSUME NEW s \in Items, NEW d \in Items, NEW y \in BOOLEAN, StartDumpRestore(s, d, y)
      PROVE  op' \in Ops
  BY <1>4, SyncBegins
<1>5. CASE ResolveDBPassword
  BY <1>5 DEF ResolveDBPassword, Goto, LoginKnown, Ops
<1>6. CASE Connected
  BY <1>6 DEF Connected, Goto, Ops
<1>7. CASE DatabaseExists
  BY <1>7, ExistsMoves DEF SameRequest
<1>8. CASE SelectNestedRestoreAction
  BY <1>8, ChoiceMoves, IdleFields
     DEF SelectNestedRestoreAction, SameRequest, TypeOK, OperationKnown, LoginKnown,
         ChoiceFits
<1>9. CASE AskCreate
  BY <1>9, IdleFields DEF AskCreate, Goto, Ends
<1>10. CASE DropDatabase \/ EnsureRole \/ SourceReady \/ PgRestoreBegins
  BY <1>10 DEF DropDatabase, Goto, EnsureRole, SourceReady, PgRestoreBegins
<1>11. CASE CreateDatabase
  BY <1>11, CreateMoves
     DEF CreateDatabase, LoginDecided, SameRequest, TypeOK, OperationKnown, LoginKnown
<1>12. CASE ConfirmOrYes
  BY <1>12, ConfirmMoves, IdleFields
     DEF ConfirmOrYes, Ends, LoginDecided, SameRequest, TypeOK, OperationKnown, LoginKnown
<1>13. CASE SelectNestedCreatePassword
  BY <1>13, ChildMoves
     DEF SelectNestedCreatePassword, LoginDecided, SameRequest, TypeOK, OperationKnown,
         LoginKnown, ChoiceFits
<1>14. CASE GrantPrivileges \/ SaveLogin
  BY <1>14 DEF GrantPrivileges, Goto, Prepared, SaveLogin
<1>15. CASE ConfirmOverwrite
  <2>1. CASE Goto("replace", op)
    BY <1>15, <2>1 DEF ConfirmOverwrite, Goto
  <2>2. CASE Ends("cancelled")
    BY <1>15, <2>2, IdleFields DEF ConfirmOverwrite, Ends
  <2> QED
    BY <1>15, <2>1, <2>2 DEF ConfirmOverwrite
<1>16. CASE SelectReplace
  <2>1. ASSUME NEW c \in ReplaceChoices, Goto("source", [op EXCEPT !.clean = c])
        PROVE  op' \in Ops
    BY <2>1 DEF Goto, ReplaceChoices, Ops
  <2> QED
    BY <1>16, <2>1 DEF SelectReplace
<1>17. CASE PgRestoreEnds \/ PgRestoreRefused
  BY <1>17, JudgedFields DEF PgRestoreEnds, Goto, PgRestoreRefused
<1> QED
  BY OverSteps, AdminSteps, <1>1, <1>2, <1>3, <1>4, <1>5, <1>6, <1>7, <1>8, <1>9, <1>10,
     <1>11, <1>12, <1>13, <1>14, <1>15, <1>16, <1>17
     DEF Next, Prepare

\* Every step keeps what an operation knows.
LEMMA StepKnown ==
    ASSUME TypeOK, OperationKnown, LoginKnown, ChoiceFits, Next
    PROVE  OperationKnown'
<1> USE RestoreAssumption DEF server, vault, bounds
<1> op \in Ops
  BY DEF TypeOK, Ops
<1>1. CASE Over
  BY <1>1 DEF Over, OperationKnown, Phases
<1>2. CASE UNCHANGED <<pc, op, result>>
  BY <1>2 DEF OperationKnown
<1>3. ASSUME NEW d \in Items, NEW y \in BOOLEAN, StartRestore(d, y) PROVE OperationKnown'
  BY <1>3, RestoreBegins DEF OperationKnown
<1>4. ASSUME NEW s \in Items, NEW d \in Items, NEW y \in BOOLEAN, StartDumpRestore(s, d, y)
      PROVE  OperationKnown'
  BY <1>4, SyncBegins DEF OperationKnown
<1>5. CASE ResolveDBPassword
  BY <1>5 DEF ResolveDBPassword, Goto, TypeOK, OperationKnown
<1>6. CASE Connected
  BY <1>6 DEF Connected, Goto, TypeOK, OperationKnown
<1>7. CASE DatabaseExists
  BY <1>7, ExistsMoves DEF SameRequest, TypeOK, OperationKnown
<1>8. CASE SelectNestedRestoreAction
  BY <1>8, ChoiceMoves
     DEF SelectNestedRestoreAction, SameRequest, OperationKnown, LoginKnown, ChoiceFits,
         Phases
<1>9. CASE AskCreate
  BY <1>9 DEF AskCreate, Goto, Ends, OperationKnown, Phases
<1>10. CASE DropDatabase \/ EnsureRole \/ SourceReady \/ PgRestoreBegins
  BY <1>10
     DEF DropDatabase, Goto, EnsureRole, SourceReady, PgRestoreBegins, TypeOK,
         OperationKnown
<1>11. CASE CreateDatabase
  BY <1>11, CreateMoves
     DEF CreateDatabase, LoginDecided, SameRequest, TypeOK, OperationKnown, LoginKnown
<1>12. CASE ConfirmOrYes
  BY <1>12, ConfirmMoves
     DEF ConfirmOrYes, Ends, LoginDecided, SameRequest, OperationKnown, LoginKnown, Phases
<1>13. CASE SelectNestedCreatePassword
  BY <1>13, ChildMoves
     DEF SelectNestedCreatePassword, LoginDecided, SameRequest, TypeOK, OperationKnown,
         LoginKnown, ChoiceFits
<1>14. CASE GrantPrivileges \/ SaveLogin
  BY <1>14 DEF GrantPrivileges, Goto, Prepared, SaveLogin, TypeOK, OperationKnown
<1>15. CASE ConfirmOverwrite
  BY <1>15 DEF ConfirmOverwrite, Goto, Ends, OperationKnown, Phases
<1>16. CASE SelectReplace
  BY <1>16 DEF SelectReplace, Goto, TypeOK, OperationKnown
<1>17. CASE PgRestoreEnds \/ PgRestoreRefused
  BY <1>17, JudgedFields DEF PgRestoreEnds, Goto, PgRestoreRefused, Phases, OperationKnown
<1> QED
  BY OverSteps, AdminSteps, <1>1, <1>2, <1>3, <1>4, <1>5, <1>6, <1>7, <1>8, <1>9, <1>10,
     <1>11, <1>12, <1>13, <1>14, <1>15, <1>16, <1>17
     DEF Next, Prepare

\* Between two operations nothing is left of the last one.
LEMMA StepIdle ==
    ASSUME TypeOK, OperationKnown, LoginKnown, ChoiceFits, Next
    PROVE  pc' \in {"off", "menu", "panicked"} => op' = Idle
<1> USE RestoreAssumption DEF server, vault, bounds
<1> op \in Ops
  BY DEF TypeOK, Ops
<1>1. CASE Over
  BY <1>1 DEF Over
<1>2. CASE UNCHANGED <<pc, op, result>>
  BY <1>2 DEF TypeOK
<1>3. ASSUME NEW d \in Items, NEW y \in BOOLEAN, StartRestore(d, y)
      PROVE  pc' \in {"off", "menu", "panicked"} => op' = Idle
  BY <1>3, RestoreBegins DEF StartRestore
<1>4. ASSUME NEW s \in Items, NEW d \in Items, NEW y \in BOOLEAN, StartDumpRestore(s, d, y)
      PROVE  pc' \in {"off", "menu", "panicked"} => op' = Idle
  BY <1>4, SyncBegins DEF StartDumpRestore
<1>5. CASE ResolveDBPassword
  BY <1>5 DEF ResolveDBPassword, Goto
<1>6. CASE Connected
  BY <1>6 DEF Connected, Goto
<1>7. CASE DatabaseExists
  BY <1>7, ExistsMoves DEF DatabaseExists
<1>8. CASE SelectNestedRestoreAction
  BY <1>8, ChoiceMoves
     DEF SelectNestedRestoreAction, OperationKnown, LoginKnown, ChoiceFits, Phases,
         PreparedPhase
<1>9. CASE AskCreate
  BY <1>9 DEF AskCreate, Goto, Ends
<1>10. CASE DropDatabase \/ EnsureRole \/ SourceReady \/ PgRestoreBegins
  BY <1>10 DEF DropDatabase, Goto, EnsureRole, SourceReady, PgRestoreBegins
<1>11. CASE CreateDatabase
  BY <1>11, CreateMoves
     DEF CreateDatabase, OperationKnown, LoginKnown, Phases, PreparedPhase
<1>12. CASE ConfirmOrYes
  BY <1>12, ConfirmMoves
     DEF ConfirmOrYes, OperationKnown, LoginKnown, Phases, Ends, PreparedPhase
<1>13. CASE SelectNestedCreatePassword
  BY <1>13, ChildMoves
     DEF SelectNestedCreatePassword, OperationKnown, LoginKnown, ChoiceFits, Phases,
         PreparedPhase
<1>14. CASE GrantPrivileges \/ SaveLogin
  BY <1>14 DEF GrantPrivileges, Goto, Prepared, SaveLogin
<1>15. CASE ConfirmOverwrite
  BY <1>15 DEF ConfirmOverwrite, Goto, Ends
<1>16. CASE SelectReplace
  BY <1>16 DEF SelectReplace, Goto
<1>17. CASE PgRestoreEnds \/ PgRestoreRefused
  BY <1>17 DEF PgRestoreEnds, Goto, PgRestoreRefused
<1> QED
  BY OverSteps, AdminSteps, <1>1, <1>2, <1>3, <1>4, <1>5, <1>6, <1>7, <1>8, <1>9, <1>10,
     <1>11, <1>12, <1>13, <1>14, <1>15, <1>16, <1>17
     DEF Next, Prepare

\* Every step keeps what is known of the login.
LEMMA StepLogin ==
    ASSUME TypeOK, OperationKnown, LoginKnown, ChoiceFits, Next
    PROVE  LoginKnown'
<1> USE RestoreAssumption DEF server, vault, bounds
<1> op \in Ops
  BY DEF TypeOK, Ops
<1>1. CASE Over
  BY <1>1 DEF Over, LoginKnown, Phases
<1>2. CASE UNCHANGED <<pc, op, result>>
  BY <1>2 DEF LoginKnown, IsNested
<1>3. ASSUME NEW d \in Items, NEW y \in BOOLEAN, StartRestore(d, y) PROVE LoginKnown'
  BY <1>3, RestoreBegins DEF LoginKnown, IsNested
<1>4. ASSUME NEW s \in Items, NEW d \in Items, NEW y \in BOOLEAN, StartDumpRestore(s, d, y)
      PROVE  LoginKnown'
  BY <1>4, SyncBegins DEF LoginKnown
<1>5. CASE ResolveDBPassword
  BY <1>5 DEF ResolveDBPassword, Goto, TypeOK, LoginKnown, IsNested
<1>6. CASE Connected
  BY <1>6 DEF Connected, Goto, TypeOK, LoginKnown, IsNested
<1>7. CASE DatabaseExists
  BY <1>7, ExistsMoves DEF TypeOK, LoginKnown
<1>8. CASE SelectNestedRestoreAction
  BY <1>8, ChoiceMoves
     DEF SelectNestedRestoreAction, SameFindings, LoggedIn, PreparedPhase, OperationKnown,
         LoginKnown, ChoiceFits, Phases
<1>9. CASE AskCreate
  BY <1>9 DEF AskCreate, Goto, Ends, LoginKnown, Phases
<1>10. CASE DropDatabase \/ EnsureRole \/ SourceReady \/ PgRestoreBegins
  BY <1>10
     DEF DropDatabase, Goto, EnsureRole, SourceReady, PgRestoreBegins, TypeOK, LoginKnown
<1>11. CASE CreateDatabase
  BY <1>11, CreateMoves
     DEF CreateDatabase, LoginDecided, SameFindings, LoggedIn, PreparedPhase, TypeOK,
         OperationKnown, LoginKnown
<1>12. CASE ConfirmOrYes
  BY <1>12, ConfirmMoves
     DEF ConfirmOrYes, Ends, LoginDecided, SameFindings, LoggedIn, PreparedPhase,
         OperationKnown, LoginKnown, Phases
<1>13. CASE SelectNestedCreatePassword
  BY <1>13, ChildMoves
     DEF SelectNestedCreatePassword, LoginDecided, SameFindings, LoggedIn, PreparedPhase,
         TypeOK, OperationKnown, LoginKnown, ChoiceFits
<1>14. CASE GrantPrivileges \/ SaveLogin
  BY <1>14 DEF GrantPrivileges, Goto, Prepared, SaveLogin, TypeOK, LoginKnown
<1>15. CASE ConfirmOverwrite
  BY <1>15 DEF ConfirmOverwrite, Goto, Ends, LoginKnown, Phases
<1>16. CASE SelectReplace
  BY <1>16 DEF SelectReplace, Goto, TypeOK, LoginKnown
<1>17. CASE PgRestoreEnds \/ PgRestoreRefused
  BY <1>17, JudgedFields DEF PgRestoreEnds, Goto, PgRestoreRefused, Phases, LoginKnown
<1> QED
  BY OverSteps, AdminSteps, <1>1, <1>2, <1>3, <1>4, <1>5, <1>6, <1>7, <1>8, <1>9, <1>10,
     <1>11, <1>12, <1>13, <1>14, <1>15, <1>16, <1>17
     DEF Next, Prepare

\* Every step decides in the order the questions are asked.
LEMMA StepChoice ==
    ASSUME TypeOK, OperationKnown, LoginKnown, ChoiceFits, Next
    PROVE  ChoiceFits'
<1> USE RestoreAssumption DEF server, vault, bounds
<1> op \in Ops
  BY DEF TypeOK, Ops
<1>1. CASE Over
  BY <1>1, IdleFields DEF Over, ChoiceFits
<1>2. CASE UNCHANGED <<pc, op, result>>
  BY <1>2 DEF ChoiceFits, IsNested, IntoExisting
<1>3. ASSUME NEW d \in Items, NEW y \in BOOLEAN, StartRestore(d, y) PROVE ChoiceFits'
  BY <1>3, RestoreBegins DEF ChoiceFits
<1>4. ASSUME NEW s \in Items, NEW d \in Items, NEW y \in BOOLEAN, StartDumpRestore(s, d, y)
      PROVE  ChoiceFits'
  BY <1>4, SyncBegins DEF ChoiceFits
<1>5. CASE ResolveDBPassword
  BY <1>5 DEF ResolveDBPassword, Goto, TypeOK, ChoiceFits
<1>6. CASE Connected
  BY <1>6 DEF Connected, Goto, TypeOK, ChoiceFits
<1>7. CASE DatabaseExists
  BY <1>7, ExistsMoves DEF SameRequest, ChoiceFits, IsNested
<1>8. CASE SelectNestedRestoreAction
  BY <1>8, ChoiceMoves, IdleFields
     DEF SelectNestedRestoreAction, SameRequest, SameFindings, PreparedPhase, TypeOK,
         LoginKnown, ChoiceFits, IsNested
<1>9. CASE AskCreate
  BY <1>9, IdleFields DEF AskCreate, Goto, Ends, ChoiceFits
<1>10. CASE DropDatabase \/ EnsureRole \/ SourceReady \/ PgRestoreBegins
  BY <1>10
     DEF DropDatabase, Goto, EnsureRole, SourceReady, PgRestoreBegins, ChoiceFits, IsNested,
         IntoExisting
<1>11. CASE CreateDatabase
  BY <1>11, CreateMoves
     DEF CreateDatabase, LoginDecided, SameRequest, SameFindings, PreparedPhase, TypeOK,
         OperationKnown, LoginKnown, ChoiceFits, IsNested
<1>12. CASE ConfirmOrYes
  BY <1>12, ConfirmMoves, IdleFields
     DEF ConfirmOrYes, Ends, LoginDecided, SameRequest, PreparedPhase, TypeOK,
         OperationKnown, LoginKnown, ChoiceFits
<1>13. CASE SelectNestedCreatePassword
  BY <1>13, ChildMoves
     DEF SelectNestedCreatePassword, LoginDecided, SameRequest, SameFindings, PreparedPhase,
         TypeOK, LoginKnown, ChoiceFits, IsNested
<1>14. CASE GrantPrivileges \/ SaveLogin
  BY <1>14 DEF GrantPrivileges, Goto, Prepared, SaveLogin, ChoiceFits, IsNested
<1>15. CASE ConfirmOverwrite
  <2>1. CASE Goto("replace", op)
    BY <1>15, <2>1 DEF ConfirmOverwrite, Goto, ChoiceFits, IsNested
  <2>2. CASE Ends("cancelled")
    BY <1>15, <2>2, IdleFields DEF ConfirmOverwrite, Ends, ChoiceFits
  <2> QED
    BY <1>15, <2>1, <2>2 DEF ConfirmOverwrite
<1>16. CASE SelectReplace
  <2> PICK c \in ReplaceChoices : Goto("source", [op EXCEPT !.clean = c])
    BY <1>16 DEF SelectReplace
  <2>1. c \in BOOLEAN /\ (c => IntoExisting)
    BY DEF ReplaceChoices
  <2> QED
    BY <1>16, <2>1 DEF SelectReplace, Goto, ChoiceFits, IsNested, IntoExisting
<1>17. CASE PgRestoreEnds \/ PgRestoreRefused
  BY <1>17, JudgedFields
     DEF PgRestoreEnds, Goto, PgRestoreRefused, ChoiceFits, IsNested, IntoExisting
<1> QED
  BY OverSteps, AdminSteps, <1>1, <1>2, <1>3, <1>4, <1>5, <1>6, <1>7, <1>8, <1>9, <1>10,
     <1>11, <1>12, <1>13, <1>14, <1>15, <1>16, <1>17
     DEF Next, Prepare

\* The destination is a database of the server.
LEMMA TargetKnown ==
    ASSUME TypeOK, OperationKnown, pc \in Phases
    PROVE  Target \in Databases /\ db[Target] \in Contents
  BY RestoreAssumption DEF TypeOK, OperationKnown, Target

\* No step of anybody surprises the running operation.
LEMMA StepDestination ==
    ASSUME TypeOK, OperationKnown, LoginKnown, ChoiceFits, DestinationFits, Next
    PROVE  DestinationFits'
<1> USE RestoreAssumption DEF server, vault, bounds, Whole, Gapped
<1> op \in Ops
  BY DEF TypeOK, Ops
<1>1. CASE Over
  BY <1>1, IdleFields DEF Over, DestinationFits
<1>2. ASSUME NEW d \in Items, NEW y \in BOOLEAN, StartRestore(d, y) PROVE DestinationFits'
  BY <1>2, RestoreBegins DEF DestinationFits
<1>3. ASSUME NEW s \in Items, NEW d \in Items, NEW y \in BOOLEAN, StartDumpRestore(s, d, y)
      PROVE  DestinationFits'
  BY <1>3, SyncBegins DEF DestinationFits
<1>4. CASE ResolveDBPassword
  BY <1>4 DEF ResolveDBPassword, Goto, TypeOK, LoginKnown, DestinationFits, Target
<1>5. CASE Connected
  BY <1>5 DEF Connected, Goto, TypeOK, DestinationFits, Target
<1>6. CASE DatabaseExists
  BY <1>6, ExistsMoves DEF SameRequest, DestinationFits, Target
<1>7. CASE SelectNestedRestoreAction
  BY <1>7, ChoiceMoves, IdleFields
     DEF SelectNestedRestoreAction, SameRequest, PreparedPhase, TypeOK, OperationKnown,
         LoginKnown, ChoiceFits, DestinationFits, Target
<1>8. CASE AskCreate
  BY <1>8, IdleFields DEF AskCreate, Goto, Ends, DestinationFits
<1>9. CASE DropDatabase \/ EnsureRole \/ SourceReady \/ PgRestoreBegins
  BY <1>9
     DEF DropDatabase, Goto, EnsureRole, SourceReady, PgRestoreBegins, TypeOK,
         OperationKnown, DestinationFits, Target
<1>10. CASE CreateDatabase
  BY <1>10, CreateMoves
     DEF CreateDatabase, LoginDecided, SameRequest, PreparedPhase, TypeOK, OperationKnown,
         LoginKnown, DestinationFits, Target
<1>11. CASE ConfirmOrYes
  BY <1>11, ConfirmMoves, IdleFields
     DEF ConfirmOrYes, Ends, LoginDecided, SameRequest, SameFindings, PreparedPhase, TypeOK,
         OperationKnown, LoginKnown, DestinationFits, Target
<1>12. CASE SelectNestedCreatePassword
  BY <1>12, ChildMoves
     DEF SelectNestedCreatePassword, LoginDecided, SameRequest, SameFindings, PreparedPhase,
         TypeOK, OperationKnown, LoginKnown, ChoiceFits, DestinationFits, Target
<1>13. CASE GrantPrivileges \/ SaveLogin
  BY <1>13 DEF GrantPrivileges, Goto, Prepared, SaveLogin, DestinationFits, Target
<1>14. CASE ConfirmOverwrite
  BY <1>14, IdleFields DEF ConfirmOverwrite, Goto, Ends, DestinationFits, Target
<1>15. CASE SelectReplace
  BY <1>15 DEF SelectReplace, Goto, DestinationFits, Target
<1>16. CASE PgRestoreEnds \/ PgRestoreRefused
  <2>1. Target \in Databases
    BY <1>16, TargetKnown DEF PgRestoreEnds, PgRestoreRefused, Phases
  <2>2. ASSUME NEW r \in Runs, r.reached # "none", PgRestoreEnds, Goto("record", Judged(r)),
               db' = [db EXCEPT ![Target] = Filled(@, r)]
        PROVE  DestinationFits'
    <3>1. op' = Judged(r) /\ pc' = "record" /\ Target' = Target
      BY <2>2, JudgedFields DEF Goto, Target
    <3>2. db[Target] \in {"torn", "mixed_torn"} /\ db'[Target] = Filled(db[Target], r)
      BY <2>1, <2>2 DEF PgRestoreEnds, DestinationFits, TypeOK
    <3>3. /\ db'[Target] # "gone"
          /\ r.reached = "all" => db'[Target] \in Whole
          /\ r.reached = "most" => db'[Target] \in Gapped
      BY <2>2, <3>2 DEF Filled, Runs, Whole, Gapped
    <3> QED
      BY <3>1, <3>3, JudgedFields DEF DestinationFits
  <2>3. ASSUME NEW r \in Runs, r.reached = "none", PgRestoreRefused, Goto("record", Judged(r))
        PROVE  DestinationFits'
    <3>1. op' = Judged(r) /\ pc' = "record" /\ Target' = Target /\ UNCHANGED db
      BY <2>3, JudgedFields DEF Goto, Target, PgRestoreRefused
    <3> QED
      BY <2>3, <3>1, JudgedFields DEF DestinationFits, PgRestoreRefused
  <2> QED
    BY <1>16, <2>2, <2>3 DEF PgRestoreEnds, PgRestoreRefused
<1>17. ASSUME NEW e \in Databases, AdminCreates(e) PROVE DestinationFits'
  BY <1>17 DEF AdminCreates, DestinationFits, Target
<1>18. ASSUME NEW u \in Users, NEW p \in Passwords, AdminAlters(u, p) PROVE DestinationFits'
  BY <1>18 DEF AdminAlters, DestinationFits, Target
<1> QED
  BY OverSteps, <1>1, <1>2, <1>3, <1>4, <1>5, <1>6, <1>7, <1>8, <1>9, <1>10, <1>11, <1>12,
     <1>13, <1>14, <1>15, <1>16, <1>17, <1>18
     DEF Next, Prepare

\* Every step keeps the types of what the server holds.
LEMMA StepServer ==
    ASSUME TypeOK, OperationKnown, Next
    PROVE  ServerTyped'
<1>1. db' \in [Databases -> Contents]
  <2>1. CASE DropDatabase \/ CreateDatabase \/ PgRestoreBegins
    BY <2>1 DEF DropDatabase, CreateDatabase, PgRestoreBegins, TypeOK, Contents
  <2>2. CASE PgRestoreEnds
    <3>1. PICK r \in Runs : r.reached # "none" /\ db' = [db EXCEPT ![Target] = Filled(@, r)]
      BY <2>2 DEF PgRestoreEnds
    <3>2. PICK c \in Contents : db' = [db EXCEPT ![Target] = c]
      BY <2>2, <3>1, TargetKnown DEF PgRestoreEnds, Phases, Contents, Filled, Runs
    <3> QED
      BY <3>2 DEF TypeOK
  <2>3. CASE \E d \in Databases : AdminCreates(d)
    BY <2>3 DEF AdminCreates, TypeOK, Contents
  <2> QED
    BY <2>1, <2>2, <2>3, DatabasesChangedBy DEF TypeOK
<1>2. rolePw' \in [Users -> Passwords \cup {None}]
  <2>1. CASE EnsureRole
    BY <2>1 DEF EnsureRole, TypeOK
  <2>2. CASE \E u \in Users, p \in Passwords : AdminAlters(u, p)
    BY <2>2 DEF AdminAlters, TypeOK
  <2> QED
    BY <2>1, <2>2, RolesChangedBy DEF TypeOK
<1> QED
  BY <1>1, <1>2 DEF ServerTyped

\* Every step keeps the types of what the vault holds.
LEMMA StepVault ==
    ASSUME TypeOK, Next
    PROVE  VaultTyped'
<1>1. saved' \in [Items -> Passwords \cup {None, Unreadable}]
  <2>1. CASE ResolveDBPassword
    BY <2>1 DEF ResolveDBPassword, Save, TypeOK
  <2>2. CASE SaveLogin
    BY <2>2 DEF SaveLogin, Save, TypeOK
  <2> QED
    BY <2>1, <2>2, VaultChangedBy DEF TypeOK
<1>2. lastRow' \in Rows
  <2>1. CASE RecordRestore
    BY <2>1 DEF RecordRestore, TypeOK, Rows
  <2> QED
    BY <2>1, VaultChangedBy DEF TypeOK, Rows
<1> QED
  BY <1>1, <1>2 DEF VaultTyped

\* Every step keeps the types of the rest.
LEMMA StepRest ==
    ASSUME TypeOK, OperationKnown, LoginKnown, ChoiceFits, Next
    PROVE  RestTyped'
<1> USE RestoreAssumption DEF server, vault, bounds
<1> op \in Ops
  BY DEF TypeOK, Ops
<1>1. ASSUME NEW d \in Items, NEW y \in BOOLEAN, StartRestore(d, y) PROVE RestTyped'
  BY <1>1, RestoreBegins DEF TypeOK, Phases, RestTyped
<1>2. ASSUME NEW s \in Items, NEW d \in Items, NEW y \in BOOLEAN, StartDumpRestore(s, d, y)
      PROVE  RestTyped'
  BY <1>2, SyncBegins DEF TypeOK, Phases, RestTyped
<1>3. CASE ResolveDBPassword
  BY <1>3
     DEF ResolveDBPassword, Goto, Save, Connecting, TypeOK, OperationKnown, LoginKnown,
         IsNested, Phases, RestTyped
<1>4. CASE Connected
  BY <1>4 DEF Connected, Goto, TypeOK, Phases, RestTyped
<1>5. CASE DatabaseExists
  BY <1>5, ExistsMoves DEF TypeOK, Phases, RestTyped
<1>6. CASE SelectNestedRestoreAction
  BY <1>6, ChoiceMoves
     DEF SelectNestedRestoreAction, PreparedPhase, TypeOK, OperationKnown, LoginKnown,
         ChoiceFits, Phases, RestTyped
<1>7. CASE AskCreate
  BY <1>7 DEF AskCreate, Goto, Ends, TypeOK, Phases, RestTyped
<1>8. CASE DropDatabase \/ EnsureRole \/ SourceReady \/ PgRestoreBegins
  BY <1>8
     DEF DropDatabase, Goto, EnsureRole, Overtaken, SourceReady, PgRestoreBegins, TypeOK,
         Phases, RestTyped
<1>9. CASE CreateDatabase
  BY <1>9, CreateMoves
     DEF CreateDatabase, PreparedPhase, TypeOK, OperationKnown, LoginKnown, Phases,
         RestTyped
<1>10. CASE ConfirmOrYes
  BY <1>10, ConfirmMoves
     DEF ConfirmOrYes, Ends, PreparedPhase, TypeOK, OperationKnown, LoginKnown, Phases,
         RestTyped
<1>11. CASE SelectNestedCreatePassword
  BY <1>11, ChildMoves
     DEF SelectNestedCreatePassword, PreparedPhase, TypeOK, OperationKnown, LoginKnown,
         ChoiceFits, Phases, RestTyped
<1>12. CASE GrantPrivileges \/ SaveLogin
  BY <1>12
     DEF GrantPrivileges, Goto, Prepared, SaveLogin, Save, TypeOK, OperationKnown, Phases,
         RestTyped
<1>13. CASE ConfirmOverwrite
  BY <1>13 DEF ConfirmOverwrite, Goto, Ends, TypeOK, Phases, RestTyped
<1>14. CASE SelectReplace
  BY <1>14 DEF SelectReplace, Goto, TypeOK, Phases, RestTyped
<1>15. CASE PgRestoreEnds \/ PgRestoreRefused
  BY <1>15 DEF PgRestoreEnds, Goto, PgRestoreRefused, TypeOK, Phases, RestTyped
<1>16. CASE Start
  BY <1>16 DEF Start, TypeOK, RestTyped
<1>17. CASE PasswordUnreadable
  BY <1>17 DEF PasswordUnreadable, Ends, TypeOK, RestTyped
<1>18. CASE PasswordsDiffer
  BY <1>18 DEF PasswordsDiffer, Ends, TypeOK, RestTyped
<1>19. CASE StepFails
  BY <1>19 DEF StepFails, Ends, TypeOK, OperationKnown, RestTyped
<1>20. CASE Crash \/ OnCancel
  BY <1>20 DEF Crash, OnCancel, Goto, TypeOK, OperationKnown, RestTyped
<1>21. CASE ConnectWithRetry
  BY <1>21 DEF ConnectWithRetry, Goto, TypeOK, RestTyped
<1>22. CASE RecordRestore
  BY <1>22 DEF RecordRestore, Ends, TypeOK, RestTyped
<1>23. ASSUME NEW e \in Databases, AdminCreates(e) PROVE RestTyped'
  BY <1>23 DEF AdminCreates, TypeOK, RestTyped
<1>24. ASSUME NEW u \in Users, NEW p \in Passwords, AdminAlters(u, p) PROVE RestTyped'
  BY <1>24 DEF AdminAlters, Overtaken, TypeOK, RestTyped
<1> QED
  BY <1>1, <1>2, <1>3, <1>4, <1>5, <1>6, <1>7, <1>8, <1>9, <1>10, <1>11, <1>12, <1>13,
     <1>14, <1>15, <1>16, <1>17, <1>18, <1>19, <1>20, <1>21, <1>22, <1>23, <1>24
     DEF Next, Prepare

\* A saved password stops working only when something overtakes it.
LEMMA StepSaved ==
    ASSUME TypeOK, SavedPasswordsWork, Next, TypeOK'
    PROVE  SavedPasswordsWork'
<1> USE RestoreAssumption DEF SavedPasswordsWork, Goto
<1>1. CASE /\ UNCHANGED <<rolePw, saved, stale>>
           /\ pc \notin {"grant", "save"} \/ UNCHANGED <<pc, op>>
  BY <1>1
<1>2. CASE ResolveDBPassword
  BY <1>2 DEF ResolveDBPassword, Save, TypeOK, server
<1>3. CASE EnsureRole
  BY <1>3 DEF EnsureRole, Overtaken, TypeOK, vault
<1>4. CASE GrantPrivileges
  BY <1>4 DEF GrantPrivileges, vault
<1>5. CASE SaveLogin
  BY <1>5 DEF SaveLogin, Save, TypeOK, server
<1>6. CASE StepFails \/ Crash
  BY <1>6 DEF StepFails, Crash, server, vault
<1>7. ASSUME NEW u \in Users, NEW p \in Passwords, AdminAlters(u, p)
      PROVE  SavedPasswordsWork'
  BY <1>7 DEF AdminAlters, Overtaken, TypeOK, vault
<1> QED
  BY <1>1, <1>2, <1>3, <1>4, <1>5, <1>6, <1>7, SavedTouchedBy

-----------------------------------------------------------------------------
(* What no step does                                                       *)

\* No step loses data that the user has not agreed to lose.
LEMMA LossStep ==
    ASSUME TypeOK, ChoiceFits, DestinationFits, Next
    PROVE  LossAgreed
<1> USE DEF LossAgreed, Valuable
<1>1. CASE DropDatabase
  BY <1>1 DEF DropDatabase, ChoiceFits
<1>2. CASE CreateDatabase
  BY <1>2 DEF CreateDatabase
<1>3. CASE PgRestoreBegins
  BY <1>3 DEF PgRestoreBegins, ChoiceFits, IntoExisting
<1>4. CASE PgRestoreEnds
  <2> PICK r \in Runs : r.reached # "none" /\ db' = [db EXCEPT ![Target] = Filled(@, r)]
    BY <1>4 DEF PgRestoreEnds
  <2> QED
    BY <1>4 DEF PgRestoreEnds, DestinationFits, Filled, Runs
<1>5. CASE \E d \in Databases : AdminCreates(d)
  BY <1>5 DEF AdminCreates
<1> QED
  BY <1>1, <1>2, <1>3, <1>4, <1>5, DatabasesChangedBy

\* No step tells the user more than was done.
LEMMA OutcomeStep ==
    ASSUME TypeOK, DestinationFits, Next
    PROVE  OutcomeTold
<1>1. CASE RecordRestore
  <2>1. pc = "record" /\ result' \in {op.outcome, "failed"}
    BY <1>1 DEF RecordRestore, Ends
  <2>2. lastRow' # lastRow =>
            lastRow'.status = IF op.outcome = "failed" THEN "failure" ELSE "success"
    BY <1>1 DEF RecordRestore
  <2> QED
    BY <2>1, <2>2 DEF DestinationFits, OutcomeTold, TypeOK
<1>2. CASE ~RecordRestore
  <2>1. UNCHANGED lastRow
    BY <1>2, VaultChangedBy
  <2>2. UNCHANGED result \/ result' \in {"none", "failed", "cancelled"}
    BY <1>2, ToldBy
       DEF SelectNestedRestoreAction, ConfirmOrYes, ConfirmOverwrite, OnCancel, Ends
  <2> QED
    BY <2>1, <2>2 DEF OutcomeTold
<1> QED
  BY <1>1, <1>2

\* No step calls off a restore that has dropped its destination, but at two questions.
LEMMA CancelStep ==
    ASSUME TypeOK, OperationKnown, ChoiceFits, DestinationFits, Next
    PROVE  CancelHarmless
<1> SUFFICES ASSUME result' = "cancelled", result # "cancelled", op.existed
             PROVE  /\ db[Target] # "gone"
                    /\ op.choice = "drop" =>
                           /\ ~op.yes
                           /\ \/ pc = "overwrite" /\ op.mode = "sync"
                              \/ /\ pc = "child_password"
                                 /\ UserOf[op.dest] # UserOf[ParentOf[op.dest]]
  BY DEF CancelHarmless
<1>1. \/ SelectNestedRestoreAction \/ ConfirmOrYes \/ ConfirmOverwrite \/ OnCancel
  BY ToldBy DEF RecordRestore, Ends, TypeOK
<1>2. \/ pc \in {"password", "choose"}
      \/ pc \in {"ask_create", "confirm", "child_password", "overwrite"} /\ ~op.yes
      \/ pc = "replace" /\ IntoExisting
  BY <1>1
     DEF SelectNestedRestoreAction, ConfirmOrYes, ConfirmOverwrite, OnCancel, Asking, Ends
<1> QED
  BY <1>2 DEF ChoiceFits, DestinationFits, IntoExisting

-----------------------------------------------------------------------------
(* The invariant                                                           *)

RestoreInv ==
    /\ SavedPasswordsWork /\ OperationKnown /\ LoginKnown /\ ChoiceFits /\ DestinationFits

\* The types follow from their parts: outside of Phases the record is Idle, and in
\* them its mode tells it from Idle.
LEMMA StepTyped ==
    ASSUME TypeOK, OperationKnown, LoginKnown, ChoiceFits, Next
    PROVE  TypeOK'
<1>1. op' \in Ops /\ ServerTyped' /\ VaultTyped' /\ RestTyped'
  BY StepOps, StepServer, StepVault, StepRest
<1>2. pc' \in Phases => op' # Idle
  <2>1. pc' \in Phases => op'.mode # "none"
    BY StepKnown DEF OperationKnown
  <2> QED
    BY <2>1, IdleFields
<1>3. (pc' \in {"off", "menu", "panicked"}) = (op' = Idle)
  <2>1. pc' \in Phases \cup {"off", "menu", "panicked"}
    BY <1>1 DEF RestTyped
  <2> QED
    BY <1>2, <2>1, StepIdle
<1> QED
  BY <1>1, <1>3 DEF TypeOK, Ops, ServerTyped, VaultTyped, RestTyped, Rows

\* Nothing runs at the start.
LEMMA RestoreInit == Init => RestoreInv
<1> SUFFICES ASSUME Init PROVE RestoreInv
  OBVIOUS
<1> USE RestoreAssumption
<1>1. TypeOK
  <2>1. op \in Ops /\ (pc \in {"off", "menu", "panicked"}) = (op = Idle)
    BY IdleFields DEF Init
  <2>2. ServerTyped
    BY DEF Init, ServerTyped, Contents
  <2>3. VaultTyped
    BY DEF Init, VaultTyped, Rows
  <2>4. RestTyped
    BY DEF Init, RestTyped
  <2> QED
    BY <2>1, <2>2, <2>3, <2>4
       DEF TypeOK, Ops, ServerTyped, VaultTyped, RestTyped, Rows
<1>2. SavedPasswordsWork
  BY <1>1 DEF SavedPasswordsWork, Init
<1>3. OperationKnown /\ LoginKnown /\ ChoiceFits /\ DestinationFits
  BY IdleFields DEF Init, OperationKnown, LoginKnown, ChoiceFits, DestinationFits, Phases
<1> QED
  BY <1>2, <1>3 DEF RestoreInv

\* Every step keeps the invariant.
LEMMA RestoreInductive == RestoreInv /\ [Next]_vars => RestoreInv'
<1> SUFFICES ASSUME RestoreInv, [Next]_vars PROVE RestoreInv'
  OBVIOUS
<1>1. CASE Next
  <2>1. TypeOK
    BY DEF RestoreInv, SavedPasswordsWork
  <2>2. SavedPasswordsWork'
    BY <1>1, <2>1, StepTyped, StepSaved DEF RestoreInv
  <2>3. OperationKnown' /\ LoginKnown' /\ ChoiceFits' /\ DestinationFits'
    BY <1>1, <2>1, StepKnown, StepLogin, StepChoice, StepDestination DEF RestoreInv
  <2> QED
    BY <2>2, <2>3 DEF RestoreInv
<1>2. CASE UNCHANGED vars
  <2> USE <1>2 DEF vars, server, vault, bounds, Whole, Gapped
  <2>1. SavedPasswordsWork'
    BY DEF RestoreInv, SavedPasswordsWork, TypeOK
  <2>2. OperationKnown' /\ LoginKnown' /\ ChoiceFits' /\ DestinationFits'
    BY DEF RestoreInv, OperationKnown, LoginKnown, ChoiceFits, DestinationFits, IsNested,
           IntoExisting, Target
  <2> QED
    BY <2>1, <2>2 DEF RestoreInv
<1> QED
  BY <1>1, <1>2

\* In every reachable state an operation has decided what its place in the order of
\* questions says, and its destination is what it has made of it
\* (restore_dest.go PrepareRestoreDestination, app.go ensureDestDatabase,
\* resolveRestoreClean).
THEOREM RestoreInvariant == Spec => []RestoreInv
  BY RestoreInit, RestoreInductive, PTL DEF Spec

\* A saved password opens its role unless something is known to have overtaken it
\* (restore_dest.go PrepareRestoreDestination, docker.go EnsureDatabaseLogin).
THEOREM SavedPasswordsOpen == Spec => []SavedPasswordsWork
<1>1. RestoreInv => SavedPasswordsWork
  BY DEF RestoreInv
<1> QED
  BY <1>1, RestoreInvariant, PTL

\* Only the destination loses data, after it was found to exist, by the DROP or the
\* --clean its user agreed to (restore_dest.go PrepareRestoreDestination, app.go
\* resolveRestoreClean).
THEOREM LossIsAgreed == Spec => LossWasAgreed
<1>1. RestoreInv /\ [Next]_vars => [LossAgreed]_vars
  BY LossStep DEF RestoreInv, SavedPasswordsWork
<1>2. [][LossAgreed]_vars => LossWasAgreed
  BY PTL DEF LossWasAgreed, LossAgreed
<1> QED
  BY <1>1, <1>2, RestoreInvariant, PTL DEF Spec

\* A success told to the user or recorded is one, and so is a warning, unless
\* pg_restore failed in words the code does not look for (docker.go RestoreDatabase,
\* record.go recordRestore).
THEOREM OutcomesAreTrue == Spec => OutcomeIsTrue
<1>1. RestoreInv /\ [Next]_vars => [OutcomeTold]_vars
  BY OutcomeStep DEF RestoreInv, SavedPasswordsWork
<1>2. [][OutcomeTold]_vars => OutcomeIsTrue
  BY PTL DEF OutcomeIsTrue, OutcomeTold
<1> QED
  BY <1>1, <1>2, RestoreInvariant, PTL DEF Spec

\* A restore that is called off has dropped nothing, but at a dump-restore's last
\* question and at the password of a new database's own role (app.go runRestore,
\* runDumpRestore; restore_dest.go:110, 133; prompt.go OnCancel).
THEOREM CancelsAreHarmless == Spec => CancelKeepsData
<1>1. RestoreInv /\ [Next]_vars => [CancelHarmless]_vars
  BY CancelStep DEF RestoreInv, SavedPasswordsWork
<1>2. [][CancelHarmless]_vars => CancelKeepsData
  BY PTL DEF CancelKeepsData, CancelHarmless
<1> QED
  BY <1>1, <1>2, RestoreInvariant, PTL DEF Spec
==============================================================================
