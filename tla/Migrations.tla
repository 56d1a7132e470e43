----------------------------- MODULE Migrations -----------------------------
(***************************************************************************)
(* alembic on the database of the service: python -m                       *)
(* library.adapters.database upgrade and downgrade, by several people or   *)
(* deployments at once.  A command reads the version, plans the statements *)
(* of all revisions on the way, each followed by the new version, and runs *)
(* them in one transaction (DDL is transactional).  The first statement    *)
(* takes locks that a second command waits for; whoever finds the schema   *)
(* changed under its plan fails and is rolled back.                        *)
(***************************************************************************)
EXTENDS Naturals, SequencesExt

CONSTANTS
    Migrators,   \* the commands given, one each
    NoMigrator

ASSUME MigratorsAssumption == NoMigrator \notin Migrators

\* What the revisions create, in order; both downgrades drop the same in
\* reverse.  5ed2890da62c has no predecessor, d284d428b9e0 follows it.
InitialItems == <<"books", "ix__books", "users">>
PasswordItems == <<"password_hash", "is_superuser", "permissions">>

Revisions == <<InitialItems, PasswordItems>>
Versions == 0 .. Len(Revisions)

\* The tables the storages are written for.
Declared == {"books", "ix__books"} \cup
            {"users", "password_hash", "is_superuser", "permissions"}

ItemsAt(v) == UNION {ToSet(Revisions[r]) : r \in 1 .. v}

Add(item) == [op |-> "add", item |-> item]
DropItem(item) == [op |-> "drop", item |-> item]
Stamp(from, to) == [op |-> "stamp", from |-> from, to |-> to]

\* Slip: the second revision makes the table anew.
BugUpgrade(r) ==
    (IF r = 2 THEN <<DropItem("users"), Add("users")>> ELSE <<>>)
        \o [i \in DOMAIN Revisions[r] |-> Add(Revisions[r][i])] \o <<Stamp(r - 1, r)>>

Upgrade(r) == [i \in DOMAIN Revisions[r] |-> Add(Revisions[r][i])]
                \o <<Stamp(r - 1, r)>>
Downgrade(r) == Reverse([i \in DOMAIN Revisions[r] |-> DropItem(Revisions[r][i])])
                  \o <<Stamp(r, r - 1)>>

\* The statements that lead from one version to another: of the revisions on
\* the way up in their order, of those on the way down in reverse.
Plan(from, to) ==
    LET Up(r) == IF from < r /\ r <= to THEN Upgrade(r) ELSE <<>>
        Down(r) == IF to < r /\ r <= from THEN Downgrade(r) ELSE <<>>
    IN  Up(1) \o Up(2) \o Down(2) \o Down(1)

VARIABLES
    database,   \* as committed: its items, and the row of alembic_version
    locker,     \* the command whose transaction has changed something
    draft,      \* the database as that transaction has made it
    dropped,    \* what it has dropped, whether it is there again or not
    progress,   \* of each command
    work        \* the statements it has still to run

migrationVars == <<database, locker, draft, dropped, progress, work>>

AllItems == ItemsAt(Len(Revisions))
Database == [items : SUBSET AllItems, version : Versions]

MigrationsTypeOK ==
    /\ database \in Database /\ draft \in Database
    /\ locker \in Migrators \cup {NoMigrator}
    /\ dropped \in SUBSET AllItems
    /\ progress \in [Migrators -> {"waiting", "running", "done", "failed"}]

MigrationsInit ==
    /\ \E v \in Versions : database = [items |-> ItemsAt(v), version |-> v]
    /\ locker = NoMigrator
    /\ draft = database
    /\ dropped = {}
    /\ progress = [m \in Migrators |-> "waiting"]
    /\ work = [m \in Migrators |-> <<>>]

Begin(m, target) ==
    /\ progress[m] = "waiting"
    /\ progress' = [progress EXCEPT ![m] = "running"]
    /\ work' = [work EXCEPT ![m] = Plan(database.version, target)]
    /\ UNCHANGED <<database, locker, draft, dropped>>

\* What m's transaction sees.
Seen(m) == IF locker = m THEN draft ELSE database

Applies(statement, db) ==
    CASE statement.op = "add" -> statement.item \notin db.items
      [] statement.op = "drop" -> statement.item \in db.items
      [] statement.op = "stamp" -> statement.from = db.version

Applied(statement, db) ==
    CASE statement.op = "add" -> [db EXCEPT !.items = @ \cup {statement.item}]
      [] statement.op = "drop" -> [db EXCEPT !.items = @ \ {statement.item}]
      [] statement.op = "stamp" -> [db EXCEPT !.version = statement.to]

MayRun(m) ==
    /\ progress[m] = "running"
    /\ work[m] # <<>>
    /\ locker \in {m, NoMigrator}

\* Slip: no transaction around the migrations, each statement commits.
BugRun(m) ==
    /\ MayRun(m)
    /\ LET statement == Head(work[m])
       IN  /\ Applies(statement, database)
           /\ database' = Applied(statement, database)
    /\ work' = [work EXCEPT ![m] = Tail(@)]
    /\ UNCHANGED <<locker, draft, dropped, progress>>

Run(m) ==
    /\ MayRun(m)
    /\ LET statement == Head(work[m])
       IN  /\ Applies(statement, Seen(m))
           /\ draft' = Applied(statement, Seen(m))
           /\ dropped' = dropped \cup
                  (IF statement.op = "drop" THEN {statement.item} ELSE {})
    /\ locker' = m
    /\ work' = [work EXCEPT ![m] = Tail(@)]
    /\ UNCHANGED <<database, progress>>

End(m, how) ==
    /\ progress' = [progress EXCEPT ![m] = how]
    /\ work' = [work EXCEPT ![m] = <<>>]
    /\ locker' = (IF locker = m THEN NoMigrator ELSE locker)

Forget == draft' = database' /\ dropped' = {}

\* The statement fails: the table or column is there already, or is not, or
\* alembic_version is not at the version the plan starts from.
Fails(m) ==
    /\ MayRun(m)
    /\ ~Applies(Head(work[m]), Seen(m))
    /\ End(m, "failed")
    /\ UNCHANGED database
    /\ Forget

Commit(m) ==
    /\ progress[m] = "running" /\ work[m] = <<>>
    /\ End(m, "done")
    /\ IF locker = m THEN database' = draft /\ Forget
                     ELSE UNCHANGED <<database, draft, dropped>>

\* The command is killed, or loses its connection.
Kill(m) ==
    /\ progress[m] = "running"
    /\ End(m, "failed")
    /\ UNCHANGED database
    /\ IF locker = m THEN Forget ELSE UNCHANGED <<draft, dropped>>

\* alembic_version tells what the database holds, whatever commands ran at
\* once, failed half way or were killed (env.py:34-38), and at the last
\* version that is what the storages are written for.
VersionTellsSchema ==
    /\ database.items = ItemsAt(database.version)
    /\ database.version = Len(Revisions) => database.items = Declared
=============================================================================
