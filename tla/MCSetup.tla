------------------------------- MODULE MCSetup -------------------------------
(***************************************************************************)
(* Two processes and a user who writes files of every kind: accepted ones  *)
(* with and without a master, encryption, S3, schedules, read-only items   *)
(* and a name with a colon, and ones that are refused for one reason each. *)
(***************************************************************************)
EXTENDS Setup, TLC

CONSTANTS host, user, database, other

Entry(db, readonly, children) ==
    [host |-> host, port |-> 5432, user |-> user, database |-> db,
     readonly |-> readonly, extra |-> FALSE, items |-> children]
Child(db) == [user |-> Missing, database |-> db, extra |-> FALSE]

Prod == <<"prod">>
Dev  == <<"dev">>
Copy == <<"copy">>

S3(bucket) == [endpoint |-> host, accessKey |-> user, bucketName |-> bucket,
               useHttps |-> Missing, forcePathStyle |-> FALSE]
Cron(c, items) == <<[cron |-> c, items |-> items]>>

Plain == [rememberPassword |-> FALSE, encryptedDump |-> Missing, s3Options |-> Missing,
          autonomous |-> Missing, items |-> Prod :> Entry(database, TRUE, << >>)]

Tree == [Plain EXCEPT
    !.rememberPassword = Missing,
    !.items = Prod :> Entry(database, TRUE, Copy :> Child(other))
              @@ Dev :> Entry(other, FALSE, Copy :> Child(database))]
Encrypted == [Tree EXCEPT
    !.encryptedDump = TRUE, !.s3Options = S3(database),
    !.autonomous = Cron("parses", {Prod}),
    !.items = Prod :> Entry(database, TRUE, << >>)]
Colon == [Plain EXCEPT
    !.autonomous = Cron("parses", {}),
    !.items = (Prod \o Copy) :> Entry(other, TRUE, << >>)
              @@ Prod :> Entry(database, FALSE, Copy :> Child(other))]

NoKey     == [Plain EXCEPT !.encryptedDump = TRUE]
NoDb      == [Plain EXCEPT !.items = Prod :> Entry(database, FALSE, Copy :> Child(Missing))]
NoBucket  == [Plain EXCEPT !.s3Options = S3(Missing)]
Misspelt  == [Plain EXCEPT !.items[Prod].extra = TRUE]
BadPort   == [Plain EXCEPT !.items[Prod].port = 65536]
NoJobs    == [Plain EXCEPT !.autonomous = << >>]

Accepted == {Plain, Tree, Encrypted, Colon}
Refused  == {NoKey, NoDb, NoBucket, Misspelt, BadPort, NoJobs}
AllContents == Accepted \cup Refused

Demo == Prod :> Entry(database, FALSE, << >>) @@ Dev :> Entry(database, FALSE, Copy :> Child(other))
DemoBucket == [S3(database) EXCEPT !.useHttps = FALSE, !.forcePathStyle = TRUE]

Symmetry == Permutations(Procs)
===============================================================================
