------------------------------ MODULE Sessions ------------------------------
(***************************************************************************)
(* Token pairs: login, refresh and what a token admits to, while accounts  *)
(* are deleted, given other rights and migrated.  A token is signed and    *)
(* kept nowhere: a client may present any token ever issued, as often as   *)
(* it likes.  GET /auth/me and GET /auth/admin-zone change nothing, so     *)
(* they are predicates: the answer a token would get now.                  *)
(*                                                                         *)
(* Rows of users are written one statement at a time here; UserStore has   *)
(* their conflicts.                                                        *)
(***************************************************************************)
EXTENDS Migrations

CONSTANTS
    Users,
    Logins,          \* the login requests, one each
    Permissions,
    ManageBooks,     \* the permission the admin zone asks for
    Rights,          \* the rights accounts are given
    NoAccount,
    Idle,
    Refused,
    AccessTTL,
    RefreshTTL,
    MaxTime

AllRights == [is_superuser : BOOLEAN, permissions : SUBSET Permissions]
NoRights == [is_superuser |-> FALSE, permissions |-> {}]

ASSUME RightsAssumption ==
    Rights \subseteq AllRights /\ NoRights \in Rights /\ ManageBooks \in Permissions
ASSUME TimeAssumption ==
    /\ AccessTTL \in Nat \ {0} /\ RefreshTTL \in Nat \ {0} /\ MaxTime \in Nat
    /\ AccessTTL <= RefreshTTL

AuthUser == [user : Users, rights : AllRights]
Account == [hash : BOOLEAN, rights : AllRights, deleted : BOOLEAN]
ASSUME MarkerAssumption ==
    NoAccount \notin Account /\ {Idle, Refused} \cap AuthUser = {}

VARIABLES
    now,
    account,   \* the rows of users
    login,     \* Idle, Refused, or what was read of the account
    pending,   \* the logins that have read it and not answered yet
    tokens     \* all that were issued

sessionVars == <<now, account, login, pending, tokens>>
vars == <<migrationVars, sessionVars>>

Token == [login : Logins, user : Users, rights : AllRights,
          type : {"access", "refresh"}, iat : 0 .. MaxTime]

SessionsTypeOK ==
    /\ now \in 0 .. MaxTime
    /\ account \in [Users -> Account \cup {NoAccount}]
    /\ login \in [Logins -> AuthUser \cup {Idle, Refused}]
    /\ pending \in SUBSET {l \in Logins : login[l] \in AuthUser}
    /\ tokens \in SUBSET Token

\* No rows without a table, no values in columns that are not there.
RowsFitSchema ==
    /\ "users" \notin database.items => \A u \in Users : account[u] = NoAccount
    /\ \A u \in Users :
        account[u] # NoAccount /\ "password_hash" \notin database.items
            => account[u].hash = FALSE /\ account[u].rights = NoRights

TypeOK == MigrationsTypeOK /\ SessionsTypeOK /\ RowsFitSchema

Init ==
    /\ MigrationsInit
    /\ now = 0
    /\ account = [u \in Users |-> NoAccount]
    /\ login = [l \in Logins |-> Idle]
    /\ pending = {}
    /\ tokens = {}

-----------------------------------------------------------------------------
(* Accounts *)

\* A statement on users waits for a migration that has the table, and fails
\* if the database has not the columns UserTable names.
MayUseUsers == locker = NoMigrator
UsersReady == ToSet(PasswordItems) \cup {"users"} \subseteq database.items

\* POST /users makes an account without a password, /auth/register one with.
Create(u, hash) ==
    /\ MayUseUsers /\ UsersReady
    /\ account[u] = NoAccount
    /\ account' = [account EXCEPT ![u] =
                      [hash |-> hash, rights |-> NoRights, deleted |-> FALSE]]
    /\ UNCHANGED <<migrationVars, now, login, pending, tokens>>

\* The columns of the second revision are not among those it names.
Delete(u) ==
    /\ MayUseUsers
    /\ account[u] # NoAccount
    /\ account' = [account EXCEPT ![u].deleted = TRUE]
    /\ UNCHANGED <<migrationVars, now, login, pending, tokens>>

\* No endpoint gives or takes rights: somebody updates the row.
GiveRights(u, rights) ==
    /\ MayUseUsers /\ UsersReady
    /\ account[u] # NoAccount
    /\ account' = [account EXCEPT ![u].rights = rights]
    /\ UNCHANGED <<migrationVars, now, login, pending, tokens>>

\* Slip: the hashes stay.
BugMigrated(row, gone) ==
    IF row = NoAccount \/ "users" \in gone THEN NoAccount ELSE row

\* What a migration that has dropped these leaves of a row; columns that are
\* added are filled with their defaults.
Migrated(row, gone) ==
    IF row = NoAccount \/ "users" \in gone THEN NoAccount
    ELSE [hash |-> row.hash /\ "password_hash" \notin gone,
          rights |-> [is_superuser |-> row.rights.is_superuser
                                         /\ "is_superuser" \notin gone,
                      permissions |-> IF "permissions" \in gone THEN {}
                                      ELSE row.rights.permissions],
          deleted |-> row.deleted]

CommitRows(m) ==
    /\ Commit(m)
    /\ account' = [u \in Users |->
                      IF locker = m THEN Migrated(account[u], dropped)
                                    ELSE account[u]]
    /\ UNCHANGED <<now, login, pending, tokens>>

-----------------------------------------------------------------------------
(* Tokens *)

TTL(t) == IF t.type = "access" THEN AccessTTL ELSE RefreshTTL

\* Decoding checks the signature, which every token here has, and exp.
Decodes(t) == now < t.iat + TTL(t)

\* Both tokens of a pair say who, with which rights, and what they are for.
CreateTokenPair(l, who) ==
    tokens' = tokens \cup
        {[login |-> l, user |-> who.user, rights |-> who.rights,
          type |-> type, iat |-> now] : type \in {"access", "refresh"}}

MayLogIn(u) ==
    account[u] # NoAccount /\ ~account[u].deleted /\ account[u].hash

\* The transaction of a login with the right password of u.
Credentials(l, u) ==
    /\ login[l] = Idle
    /\ MayUseUsers \/ "users" \notin database.items
    /\ \/ /\ UsersReady /\ MayLogIn(u)
          /\ login' = [login EXCEPT ![l] = [user |-> u, rights |-> account[u].rights]]
          /\ pending' = pending \cup {l}
       \/ /\ ~(UsersReady /\ MayLogIn(u))
          /\ login' = [login EXCEPT ![l] = Refused]
          /\ UNCHANGED pending
    /\ UNCHANGED <<migrationVars, now, account, tokens>>

\* The password is verified, and the pair made, after that transaction.
Login(l) ==
    /\ l \in pending
    /\ CreateTokenPair(l, login[l])
    /\ pending' = pending \ {l}
    /\ UNCHANGED <<migrationVars, now, account, login>>

\* Slip: a token that has expired is decoded all the same.
BugRefresh(t) ==
    /\ t.type = "refresh"
    /\ CreateTokenPair(t.login, [user |-> t.user, rights |-> t.rights])
    /\ UNCHANGED <<migrationVars, now, account, login, pending>>

\* Slip: is_superuser is left at the default of AuthUser.
BugRefreshRights(t) ==
    /\ Decodes(t) /\ t.type = "refresh"
    /\ CreateTokenPair(t.login, [user |-> t.user,
           rights |-> [t.rights EXCEPT !.is_superuser = FALSE]])
    /\ UNCHANGED <<migrationVars, now, account, login, pending>>

\* The account is not looked at, and the old pair stays good.
Refresh(t) ==
    /\ Decodes(t) /\ t.type = "refresh"
    /\ CreateTokenPair(t.login, [user |-> t.user, rights |-> t.rights])
    /\ UNCHANGED <<migrationVars, now, account, login, pending>>

\* Slip: any token that decodes names a user.
BugRetrieveUser(t) == Decodes(t)

\* GET /auth/me answers with the user and the rights of the token.
RetrieveUser(t) == Decodes(t) /\ t.type = "access"

\* Slip: the difference the wrong way round.
BugPermissionGuard(rights, required) ==
    rights.is_superuser \/ rights.permissions \ required = {}

PermissionGuard(rights, required) ==
    rights.is_superuser \/ required \ rights.permissions = {}

\* GET /auth/admin-zone answers 200.
AdminZone(t) == RetrieveUser(t) /\ PermissionGuard(t.rights, {ManageBooks})

Tick ==
    /\ now < MaxTime
    /\ now' = now + 1
    /\ UNCHANGED <<migrationVars, account, login, pending, tokens>>

-----------------------------------------------------------------------------

Next ==
    \/ \E u \in Users :
        \/ \E hash \in BOOLEAN : Create(u, hash)
        \/ Delete(u)
        \/ \E rights \in Rights : GiveRights(u, rights)
    \/ \E l \in Logins : Login(l) \/ \E u \in Users : Credentials(l, u)
    \/ \E t \in tokens : Refresh(t)
    \/ Tick
    \/ \E m \in Migrators :
        \/ \E target \in Versions : Begin(m, target) /\ UNCHANGED sessionVars
        \/ (Run(m) \/ Fails(m) \/ Kill(m)) /\ UNCHANGED sessionVars
        \/ CommitRows(m)

Spec == Init /\ [][Next]_vars

-----------------------------------------------------------------------------
\* Whoever is admitted belongs to a session that began, or was refreshed,
\* within the last AccessTTL.  The other token of the pair is signed with the
\* same secret and good for a week, and is no way in (controller.py:59).
AdmitsWhileRefreshed ==
    \A t \in tokens :
        RetrieveUser(t) =>
            \E s \in tokens :
                s.login = t.login /\ s.type = "refresh" /\ now < s.iat + AccessTTL

\* However often a pair is refreshed, it is its user's, with the rights the
\* login read: a session never gains a right, nor loses one that was taken
\* from the account meanwhile (controller.py:171-178).
RightsOfTheLogin ==
    \A t \in tokens : login[t.login] = [user |-> t.user, rights |-> t.rights]

\* Nobody is in the admin zone but by a right that the account had when its
\* login read it, whichever of the tokens is presented (guards.py:16-24).
AdminsOnly ==
    \A t \in tokens :
        AdminZone(t) =>
            LET read == login[t.login].rights
            IN  read.is_superuser \/ ManageBooks \in read.permissions

\* A session that was not refreshed for RefreshTTL is over for good: no
\* token of its login is ever good again, whatever old one is presented.
Over(l) ==
    /\ login[l] # Idle /\ l \notin pending
    /\ \A t \in tokens : t.login = l => ~Decodes(t)

OverForGood == [][\A l \in Logins : Over(l) => Over(l)']_vars

\* Accounts and their passwords survive everything but a command that leads to
\* an older version, however many are given at once, fail or are killed; and
\* no other command changes anything of an account, its rights included.
UpgradesKeepAccounts ==
    [][database'.version >= database.version =>
        /\ \A u \in Users :
            /\ account[u] # NoAccount => account'[u] # NoAccount
            /\ account[u] # NoAccount /\ account[u].hash => account'[u].hash
        /\ database' # database => account' = account]_vars
=============================================================================
