--------------------------- MODULE SessionsProofs ---------------------------
(***************************************************************************)
(* What a token is good for, and what a database and its accounts go       *)
(* through, with any number of accounts, logins, commands of alembic and   *)
(* refreshes.  Every token is of a login that was admitted, with what that *)
(* login read, and beside every token there is a refresh token of the same *)
(* login and the same moment (IndInv).  Every command leads, if none of    *)
(* its statements fails, to a database whose version tells its schema,     *)
(* and drops nothing unless to an older version (DatabaseInv).             *)
(***************************************************************************)
EXTENDS Sessions, SequenceTheorems, TLAPS

\* A pair is issued as a pair.
IssuedInPairs ==
    \A t \in tokens : \E s \in tokens :
        s.login = t.login /\ s.type = "refresh" /\ s.iat = t.iat

IndInv == SessionsTypeOK /\ RightsOfTheLogin /\ IssuedInPairs

LEMMA MigratedTypes ==
  ASSUME NEW row \in Account \cup {NoAccount}, NEW gone
  PROVE  Migrated(row, gone) \in Account \cup {NoAccount}
<1>1. CASE row = NoAccount \/ "users" \in gone
  BY <1>1 DEF Migrated
<1>2. CASE ~(row = NoAccount \/ "users" \in gone)
  <2>1. /\ row \in Account
        /\ row.hash \in BOOLEAN /\ row.deleted \in BOOLEAN
        /\ row.rights.is_superuser \in BOOLEAN /\ row.rights.permissions \in SUBSET Permissions
    BY <1>2 DEF Account, AllRights
  <2>2. (IF "permissions" \in gone THEN {} ELSE row.rights.permissions) \in SUBSET Permissions
    BY <2>1
  <2>3. /\ (row.hash /\ "password_hash" \notin gone) \in BOOLEAN
        /\ (row.rights.is_superuser /\ "is_superuser" \notin gone) \in BOOLEAN
    OBVIOUS
  <2> QED BY <1>2, <2>1, <2>2, <2>3 DEF Migrated, Account, AllRights
<1> QED BY <1>1, <1>2

LEMMA InitInv == Init => IndInv
<1> SUFFICES ASSUME Init PROVE IndInv
  OBVIOUS
<1> QED BY TimeAssumption DEF Init, IndInv, SessionsTypeOK, RightsOfTheLogin, IssuedInPairs

\* The pair of a login or a refresh.
Pair(l, who) ==
    {[login |-> l, user |-> who.user, rights |-> who.rights, type |-> type, iat |-> now] :
        type \in {"access", "refresh"}}

LEMMA PairKeeps ==
  ASSUME IndInv, NEW l \in Logins, NEW who \in AuthUser, CreateTokenPair(l, who),
         UNCHANGED <<now, account, login>>, pending' \subseteq pending,
         login[l] = who
  PROVE  IndInv'
<1>1. who.user \in Users /\ who.rights \in AllRights /\ who = [user |-> who.user, rights |-> who.rights]
  BY DEF AuthUser
<1>2. tokens' = tokens \cup Pair(l, who)
  BY DEF CreateTokenPair, Pair
<1>3. Pair(l, who) \subseteq Token
  BY <1>1 DEF Pair, Token, IndInv, SessionsTypeOK
<1>4. SessionsTypeOK'
  BY <1>2, <1>3 DEF IndInv, SessionsTypeOK
<1>5. RightsOfTheLogin'
  <2>1. \A t \in Pair(l, who) : login[t.login] = [user |-> t.user, rights |-> t.rights]
    BY <1>1 DEF Pair
  <2> QED BY <1>2, <2>1 DEF IndInv, RightsOfTheLogin
<1>6. IssuedInPairs'
  <2>1. \A t \in Pair(l, who) : \E s \in Pair(l, who) :
            s.login = t.login /\ s.type = "refresh" /\ s.iat = t.iat
    <3> DEFINE twin == [login |-> l, user |-> who.user, rights |-> who.rights,
                        type |-> "refresh", iat |-> now]
    <3>1. twin \in Pair(l, who)
      BY DEF Pair
    <3>2. \A t \in Pair(l, who) : t.login = l /\ t.iat = now
      BY DEF Pair
    <3>3. twin.login = l /\ twin.type = "refresh" /\ twin.iat = now
      OBVIOUS
    <3> HIDE DEF twin
    <3> QED BY <3>1, <3>2, <3>3
  <2> QED BY <1>2, <2>1 DEF IndInv, IssuedInPairs
<1> QED BY <1>4, <1>5, <1>6 DEF IndInv

LEMMA StepInv == IndInv /\ [Next]_vars => IndInv'
<1> SUFFICES ASSUME IndInv, [Next]_vars PROVE IndInv'
  OBVIOUS
<1>1. ASSUME account' \in [Users -> Account \cup {NoAccount}],
             UNCHANGED <<now, login, pending, tokens>>
      PROVE  IndInv'
  BY <1>1 DEF IndInv, SessionsTypeOK, RightsOfTheLogin, IssuedInPairs
<1>2. ASSUME NEW u \in Users, NEW hash \in BOOLEAN, Create(u, hash) PROVE IndInv'
  <2>1. [hash |-> hash, rights |-> NoRights, deleted |-> FALSE] \in Account
    BY DEF Account, NoRights, AllRights
  <2> QED BY <1>1, <1>2, <2>1 DEF Create, IndInv, SessionsTypeOK
<1>3. ASSUME NEW u \in Users, Delete(u) PROVE IndInv'
  <2>1. account[u] \in Account
    BY <1>3 DEF Delete, IndInv, SessionsTypeOK
  <2>2. [account[u] EXCEPT !.deleted = TRUE] \in Account
    BY <2>1 DEF Account
  <2> QED BY <1>1, <1>3, <2>2 DEF Delete, IndInv, SessionsTypeOK
<1>4. ASSUME NEW u \in Users, NEW rights \in Rights, GiveRights(u, rights) PROVE IndInv'
  <2>1. account[u] \in Account /\ rights \in AllRights
    BY <1>4, RightsAssumption DEF GiveRights, IndInv, SessionsTypeOK
  <2>2. [account[u] EXCEPT !.rights = rights] \in Account
    BY <2>1 DEF Account
  <2> QED BY <1>1, <1>4, <2>2 DEF GiveRights, IndInv, SessionsTypeOK
<1>5. ASSUME NEW l \in Logins, Login(l) PROVE IndInv'
  <2>1. login[l] \in AuthUser
    BY <1>5 DEF Login, IndInv, SessionsTypeOK
  <2> QED BY <1>5, <2>1, PairKeeps DEF Login
<1>6. ASSUME NEW l \in Logins, NEW u \in Users, Credentials(l, u) PROVE IndInv'
  <2>1. /\ login[l] = Idle /\ UNCHANGED <<now, account, tokens>>
        /\ \/ /\ MayLogIn(u)
              /\ login' = [login EXCEPT ![l] = [user |-> u, rights |-> account[u].rights]]
              /\ pending' = pending \cup {l}
           \/ /\ login' = [login EXCEPT ![l] = Refused]
              /\ pending' = pending
    BY <1>6 DEF Credentials
  <2>2. MayLogIn(u) => [user |-> u, rights |-> account[u].rights] \in AuthUser
    BY DEF MayLogIn, AuthUser, Account, IndInv, SessionsTypeOK
  <2>3. l \notin pending /\ \A t \in tokens : t.login # l
    <3>1. login[l] \notin AuthUser
      BY <2>1, MarkerAssumption
    <3>2. ASSUME NEW t \in tokens PROVE login[t.login] \in AuthUser
      <4>1. t.user \in Users /\ t.rights \in AllRights
        BY DEF IndInv, SessionsTypeOK, Token
      <4>2. [user |-> t.user, rights |-> t.rights] \in AuthUser
        BY <4>1 DEF AuthUser
      <4> QED BY <4>2 DEF IndInv, RightsOfTheLogin
    <3> QED BY <3>1, <3>2 DEF IndInv, SessionsTypeOK
  <2>4. \A k \in Logins : k # l => login'[k] = login[k]
    BY <2>1 DEF IndInv, SessionsTypeOK
  <2>5. SessionsTypeOK'
    <3>1. login' \in [Logins -> AuthUser \cup {Idle, Refused}]
      BY <2>1, <2>2 DEF IndInv, SessionsTypeOK
    <3>2. pending' \in SUBSET {k \in Logins : login'[k] \in AuthUser}
      BY <2>1, <2>2, <2>3, <2>4 DEF IndInv, SessionsTypeOK
    <3> QED BY <2>1, <3>1, <3>2 DEF IndInv, SessionsTypeOK
  <2>6. RightsOfTheLogin'
    <3>1. \A t \in tokens : t.login \in Logins
      BY DEF IndInv, SessionsTypeOK, Token
    <3> QED BY <2>1, <2>3, <2>4, <3>1 DEF IndInv, RightsOfTheLogin
  <2> QED BY <2>1, <2>5, <2>6 DEF IndInv, IssuedInPairs
<1>7. ASSUME NEW t \in tokens, Refresh(t) PROVE IndInv'
  <2>1. /\ t.login \in Logins
        /\ [user |-> t.user, rights |-> t.rights] \in AuthUser
        /\ login[t.login] = [user |-> t.user, rights |-> t.rights]
    BY DEF IndInv, SessionsTypeOK, Token, AuthUser, RightsOfTheLogin
  <2> QED BY <1>7, <2>1, PairKeeps DEF Refresh
<1>8. CASE Tick
  <2>1. now' \in 0 .. MaxTime
    BY <1>8, TimeAssumption DEF Tick, IndInv, SessionsTypeOK
  <2> QED BY <1>8, <2>1 DEF Tick, IndInv, SessionsTypeOK, RightsOfTheLogin, IssuedInPairs
<1>9. ASSUME NEW m \in Migrators, CommitRows(m) PROVE IndInv'
  <2>1. \A u \in Users : Migrated(account[u], dropped) \in Account \cup {NoAccount}
    BY MigratedTypes DEF IndInv, SessionsTypeOK
  <2> QED BY <1>1, <1>9, <2>1 DEF CommitRows, IndInv, SessionsTypeOK
<1>10. CASE UNCHANGED sessionVars
  BY <1>10 DEF sessionVars, IndInv, SessionsTypeOK, RightsOfTheLogin, IssuedInPairs
<1> QED BY <1>2, <1>3, <1>4, <1>5, <1>6, <1>7, <1>8, <1>9, <1>10 DEF Next, vars

LEMMA Invariance == Spec => []IndInv
BY InitInv, StepInv, PTL DEF Spec

-----------------------------------------------------------------------------

\* Whatever happens to the accounts and however often a pair is refreshed, its
\* tokens name the user and the rights that the login read.
THEOREM RightsStayThoseRead == Spec => []RightsOfTheLogin
<1>1. IndInv => RightsOfTheLogin
  BY DEF IndInv
<1> QED BY <1>1, Invariance, PTL

\* A token admits only while its session was begun or refreshed within the
\* lifetime of an access token.
THEOREM AdmittedByRefresh == Spec => []AdmitsWhileRefreshed
<1>1. IndInv => AdmitsWhileRefreshed
  <2> SUFFICES ASSUME IndInv, NEW t \in tokens, RetrieveUser(t)
               PROVE  \E s \in tokens : s.login = t.login /\ s.type = "refresh"
                                          /\ now < s.iat + AccessTTL
    BY DEF AdmitsWhileRefreshed
  <2>1. now < t.iat + AccessTTL
    BY DEF RetrieveUser, Decodes, TTL
  <2>2. PICK s \in tokens : s.login = t.login /\ s.type = "refresh" /\ s.iat = t.iat
    BY DEF IndInv, IssuedInPairs
  <2> QED BY <2>1, <2>2
<1> QED BY <1>1, Invariance, PTL

\* Only who could be there when the login read its account is ever let into
\* the admin zone.
THEOREM AdmittedByRight == Spec => []AdminsOnly
<1>1. IndInv => AdminsOnly
  <2> SUFFICES ASSUME IndInv, NEW t \in tokens, AdminZone(t)
               PROVE  \/ login[t.login].rights.is_superuser
                      \/ ManageBooks \in login[t.login].rights.permissions
    BY DEF AdminsOnly
  <2>1. login[t.login].rights = t.rights
    <3>1. login[t.login] = [user |-> t.user, rights |-> t.rights]
      BY DEF IndInv, RightsOfTheLogin
    <3>2. [user |-> t.user, rights |-> t.rights].rights = t.rights
      OBVIOUS
    <3> QED BY <3>1, <3>2
  <2>2. t.rights.is_superuser \/ ManageBooks \in t.rights.permissions
    BY DEF AdminZone, PermissionGuard
  <2> QED BY <2>1, <2>2
<1> QED BY <1>1, Invariance, PTL

\* No step makes a token of a session that has run out good again.
LEMMA OverStaysOver ==
  ASSUME IndInv, IndInv', [Next]_vars, NEW l \in Logins, Over(l)
  PROVE  Over(l)'
<1>1. ASSUME NEW t \in tokens, now' >= now, Decodes(t)' PROVE Decodes(t)
  <2>1. /\ now \in Int /\ now' \in Int /\ t.iat \in Int
        /\ t.type \in {"access", "refresh"}
    BY DEF IndInv, SessionsTypeOK, Token
  <2>2. TTL(t) \in Int /\ TTL(t)' = TTL(t)
    BY TimeAssumption DEF TTL
  <2> QED BY <1>1, <2>1, <2>2 DEF Decodes
<1>2. ASSUME now' >= now, login'[l] # Idle, l \notin pending',
             \A t \in tokens' \ tokens : t.login # l
      PROVE  Over(l)'
  BY <1>1, <1>2 DEF Over
<1>3. now \in Int
  BY DEF IndInv, SessionsTypeOK
<1>4. ASSUME NEW k \in Logins, Login(k) PROVE Over(l)'
  <2>1. k # l /\ l \notin pending' /\ UNCHANGED <<now, login>>
    BY <1>4 DEF Login, Over
  <2>2. \A t \in tokens' \ tokens : t.login = k
    BY <1>4 DEF Login, CreateTokenPair
  <2> QED BY <1>2, <1>3, <2>1, <2>2 DEF Over
<1>5. ASSUME NEW t \in tokens, Refresh(t) PROVE Over(l)'
  <2>1. t.login # l /\ UNCHANGED <<now, login, pending>>
    BY <1>5 DEF Refresh, Over
  <2>2. \A s \in tokens' \ tokens : s.login = t.login
    BY <1>5 DEF Refresh, CreateTokenPair
  <2> QED BY <1>2, <1>3, <2>1, <2>2 DEF Over
<1>6. ASSUME NEW k \in Logins, NEW u \in Users, Credentials(k, u) PROVE Over(l)'
  <2>1. k # l /\ UNCHANGED <<now, tokens>>
    BY <1>6 DEF Credentials, Over
  <2>2. login'[l] = login[l] /\ l \notin pending'
    BY <1>6, <2>1 DEF Credentials, Over, IndInv, SessionsTypeOK
  <2> QED BY <1>2, <1>3, <2>1, <2>2 DEF Over
<1>7. CASE Tick
  BY <1>2, <1>3, <1>7 DEF Tick, Over
<1>8. CASE UNCHANGED <<now, login, pending, tokens>>
  BY <1>2, <1>3, <1>8 DEF Over
<1>9. CASE \/ UNCHANGED vars
           \/ \E u \in Users : \/ \E hash \in BOOLEAN : Create(u, hash)
                               \/ Delete(u)
                               \/ \E rights \in Rights : GiveRights(u, rights)
           \/ \E m \in Migrators : CommitRows(m)
           \/ UNCHANGED sessionVars
  BY <1>8, <1>9 DEF vars, sessionVars, Create, Delete, GiveRights, CommitRows
<1> QED BY <1>4, <1>5, <1>6, <1>7, <1>9 DEF Next

\* A session that was left alone until its last token expired is over for
\* good, in any number of refreshes and with any lifetimes.
THEOREM SessionsEnd == Spec => OverForGood
<1>1. IndInv /\ IndInv' /\ [Next]_vars => [\A l \in Logins : Over(l) => Over(l)']_vars
  BY OverStaysOver
<1> QED BY <1>1, Invariance, PTL DEF Spec, OverForGood

-----------------------------------------------------------------------------
(***************************************************************************)
(* The database and its commands.  A command runs, from a database whose   *)
(* version tells its schema, to such a database or not to its end: this is *)
(* what EndsWell says of the statements it has still to run, and it is     *)
(* true of every plan, because every revision ends with a check of the     *)
(* version it starts from.                                                 *)
(***************************************************************************)

Agrees(db) == db.items = ItemsAt(db.version)
Agreeing == {db \in Database : Agrees(db)}

Statement ==
    {Add(item) : item \in AllItems} \cup {DropItem(item) : item \in AllItems}
        \cup {Stamp(from, to) : from \in Versions, to \in Versions}

\* The databases that the statements of w make of db, one after the other, if
\* none of them fails.
Course(w, db, f) ==
    /\ f \in [0 .. Len(w) -> Database]
    /\ f[0] = db
    /\ \A i \in 0 .. Len(w) - 1 :
        Applies(w[i + 1], f[i]) /\ f[i + 1] = Applied(w[i + 1], f[i])

EndsWell(w, db) == \A f : Course(w, db, f) => Agrees(f[Len(w)])

\* No statement drops anything.
Raises(w) == \A i \in 1 .. Len(w) : w[i].op # "drop"

\* Every stamp is to an older version, and the last statement is one.
Lowers(w) ==
    /\ \A i \in 1 .. Len(w) : w[i].op = "stamp" => w[i].to < w[i].from
    /\ w # <<>> => w[Len(w)].op = "stamp"

CommandOK(m) ==
    /\ IF locker = m THEN EndsWell(work[m], draft)
                     ELSE \A db \in Agreeing : EndsWell(work[m], db)
    /\ \/ Raises(work[m]) /\ (locker = m => dropped = {})
       \/ /\ Lowers(work[m])
          /\ locker = m => /\ draft.version <= database.version
                           /\ work[m] = <<>> => draft.version < database.version

DatabaseInv ==
    /\ MigrationsTypeOK
    /\ work \in [Migrators -> Seq(Statement)]
    /\ Agrees(database)
    /\ locker = NoMigrator => draft = database /\ dropped = {}
    /\ database.items \ draft.items \subseteq dropped
    /\ \A m \in Migrators : progress[m] = "running" => CommandOK(m)
    /\ \A m \in Migrators : locker = m => progress[m] = "running"

LEMMA TheRevisions ==
  /\ Versions = {0, 1, 2}
  /\ Revisions[1] = InitialItems /\ Revisions[2] = PasswordItems
  /\ DOMAIN Revisions = {1, 2}
BY DEF Versions, Revisions

LEMMA TheItems ==
  /\ ItemsAt(0) = {}
  /\ ItemsAt(1) = {"books", "ix__books", "users"}
  /\ ItemsAt(2) = {"books", "ix__books", "users",
                   "password_hash", "is_superuser", "permissions"}
  /\ AllItems = ItemsAt(2)
<1>1. ToSet(InitialItems) = {"books", "ix__books", "users"}
  BY DEF ToSet, InitialItems
<1>2. ToSet(PasswordItems) = {"password_hash", "is_superuser", "permissions"}
  BY DEF ToSet, PasswordItems
<1>3. 1 .. 0 = {} /\ 1 .. 1 = {1} /\ 1 .. 2 = {1, 2} /\ Len(Revisions) = 2
  BY DEF Revisions
<1>4. ItemsAt(0) = {}
  BY <1>3 DEF ItemsAt
<1>5. ItemsAt(1) = ToSet(InitialItems)
  BY <1>3, TheRevisions DEF ItemsAt
<1>6. ItemsAt(2) = ToSet(InitialItems) \cup ToSet(PasswordItems)
  BY <1>3, TheRevisions DEF ItemsAt
<1> QED BY <1>1, <1>2, <1>3, <1>4, <1>5, <1>6 DEF AllItems

LEMMA AppliedTypes ==
  ASSUME NEW s \in Statement, NEW db \in Database
  PROVE  Applied(s, db) \in Database
<1>1. ASSUME NEW item \in AllItems, s = Add(item) PROVE Applied(s, db) \in Database
  BY <1>1 DEF Applied, Add, Database
<1>2. ASSUME NEW item \in AllItems, s = DropItem(item) PROVE Applied(s, db) \in Database
  BY <1>2 DEF Applied, DropItem, Database
<1>3. ASSUME NEW from \in Versions, NEW to \in Versions, s = Stamp(from, to)
      PROVE  Applied(s, db) \in Database
  BY <1>3 DEF Applied, Stamp, Database
<1> QED BY <1>1, <1>2, <1>3 DEF Statement

\* What is left to run ends well after a statement if it did before it.
LEMMA EndsWellTail ==
  ASSUME NEW w \in Seq(Statement), w # <<>>, NEW db \in Database,
         EndsWell(w, db), Applies(Head(w), db)
  PROVE  EndsWell(Tail(w), Applied(Head(w), db))
<1> SUFFICES ASSUME NEW f, Course(Tail(w), Applied(Head(w), db), f)
             PROVE  Agrees(f[Len(Tail(w))])
  BY DEF EndsWell
<1>1. /\ Len(w) \in Nat /\ Len(w) >= 1 /\ Len(Tail(w)) = Len(w) - 1
      /\ Head(w) = w[1] /\ \A i \in 1 .. Len(w) - 1 : Tail(w)[i] = w[i + 1]
  OBVIOUS
<1> DEFINE g == [i \in 0 .. Len(w) |-> IF i = 0 THEN db ELSE f[i - 1]]
<1>2. f \in [0 .. Len(w) - 1 -> Database] /\ f[0] = Applied(w[1], db)
  BY <1>1 DEF Course
<1>3. g \in [0 .. Len(w) -> Database]
  BY <1>1, <1>2
<1>4. ASSUME NEW i \in 0 .. Len(w) - 1
      PROVE  Applies(w[i + 1], g[i]) /\ g[i + 1] = Applied(w[i + 1], g[i])
  <2>1. CASE i = 0
    BY <1>1, <1>2, <2>1
  <2>2. CASE i # 0
    <3>1. i - 1 \in 0 .. Len(Tail(w)) - 1 /\ (i - 1) + 1 = i /\ (i + 1) - 1 = i
      BY <1>1, <2>2
    <3>2. Applies(Tail(w)[i], f[i - 1]) /\ f[i] = Applied(Tail(w)[i], f[i - 1])
      BY <3>1 DEF Course
    <3>3. Tail(w)[i] = w[i + 1] /\ g[i] = f[i - 1] /\ g[i + 1] = f[i]
      BY <1>1, <2>2, <3>1
    <3> QED BY <3>2, <3>3
  <2> QED BY <2>1, <2>2
<1>5. Course(w, db, g)
  BY <1>1, <1>3, <1>4 DEF Course
<1>6. Agrees(g[Len(w)])
  BY <1>5 DEF EndsWell
<1>7. g[Len(w)] = f[Len(Tail(w))]
  BY <1>1
<1> QED BY <1>6, <1>7

\* Nothing left to run: the database is as it should be.
LEMMA EndsWellNow ==
  ASSUME NEW db \in Database, EndsWell(<<>>, db)
  PROVE  Agrees(db)
<1> DEFINE f == [i \in 0 .. 0 |-> db]
<1>1. Len(<<>>) = 0 /\ f[0] = db /\ f \in [0 .. 0 -> Database]
  OBVIOUS
<1>2. Course(<<>>, db, f)
  BY <1>1 DEF Course
<1>3. Agrees(f[0])
  BY <1>1, <1>2 DEF EndsWell
<1> QED BY <1>1, <1>3

\* Statements that end well from wherever they may begin do so one plan after
\* the other.
LEMMA EndsWellConcat ==
  ASSUME NEW v \in Seq(Statement), NEW w \in Seq(Statement),
         \A db \in Agreeing : EndsWell(v, db), \A db \in Agreeing : EndsWell(w, db)
  PROVE  \A db \in Agreeing : EndsWell(v \o w, db)
<1> SUFFICES ASSUME NEW db \in Agreeing, NEW f, Course(v \o w, db, f)
             PROVE  Agrees(f[Len(v \o w)])
  BY DEF EndsWell
<1>1. /\ Len(v) \in Nat /\ Len(w) \in Nat /\ Len(v \o w) = Len(v) + Len(w)
      /\ \A i \in 1 .. Len(v) : (v \o w)[i] = v[i]
      /\ \A i \in 1 .. Len(w) : (v \o w)[Len(v) + i] = w[i]
  OBVIOUS
<1> DEFINE g == [i \in 0 .. Len(v) |-> f[i]]
           h == [i \in 0 .. Len(w) |-> f[Len(v) + i]]
<1>2. f \in [0 .. Len(v) + Len(w) -> Database] /\ f[0] = db
  BY <1>1 DEF Course
<1>3. \A i \in 0 .. Len(v) + Len(w) - 1 :
        Applies((v \o w)[i + 1], f[i]) /\ f[i + 1] = Applied((v \o w)[i + 1], f[i])
  BY <1>1 DEF Course
<1>4. Course(v, db, g)
  <2>1. g \in [0 .. Len(v) -> Database] /\ g[0] = db
    BY <1>1, <1>2
  <2>2. ASSUME NEW i \in 0 .. Len(v) - 1
        PROVE  Applies(v[i + 1], g[i]) /\ g[i + 1] = Applied(v[i + 1], g[i])
    <3>1. (v \o w)[i + 1] = v[i + 1] /\ g[i] = f[i] /\ g[i + 1] = f[i + 1]
      BY <1>1
    <3>2. i \in 0 .. Len(v) + Len(w) - 1
      BY <1>1
    <3> QED BY <1>3, <3>1, <3>2
  <2> QED BY <2>1, <2>2 DEF Course
<1>5. Agrees(g[Len(v)]) /\ g[Len(v)] \in Database
  <2>1. Len(v) \in 0 .. Len(v)
    BY <1>1
  <2>2. g \in [0 .. Len(v) -> Database]
    BY <1>4 DEF Course
  <2> HIDE DEF g
  <2> QED BY <1>4, <2>1, <2>2 DEF EndsWell
<1>6. Course(w, g[Len(v)], h)
  <2>1. h \in [0 .. Len(w) -> Database] /\ h[0] = g[Len(v)]
    BY <1>1, <1>2
  <2>2. ASSUME NEW i \in 0 .. Len(w) - 1
        PROVE  Applies(w[i + 1], h[i]) /\ h[i + 1] = Applied(w[i + 1], h[i])
    <3>1. /\ (v \o w)[(Len(v) + i) + 1] = w[i + 1] /\ h[i] = f[Len(v) + i]
          /\ h[i + 1] = f[(Len(v) + i) + 1]
      <4>1. i + 1 \in 1 .. Len(w) /\ (Len(v) + i) + 1 = Len(v) + (i + 1)
        BY <1>1
      <4> QED BY <1>1, <4>1
    <3>2. Len(v) + i \in 0 .. Len(v) + Len(w) - 1
      BY <1>1
    <3> QED BY <1>3, <3>1, <3>2
  <2> QED BY <2>1, <2>2 DEF Course
<1>7. Agrees(h[Len(w)])
  <2> HIDE DEF g, h
  <2> QED BY <1>5, <1>6 DEF EndsWell, Agreeing
<1>8. h[Len(w)] = f[Len(v \o w)]
  BY <1>1
<1> QED BY <1>7, <1>8

LEMMA TheSteps ==
  ASSUME NEW r \in {1, 2}
  PROVE  /\ \E a, b, c \in AllItems :
              /\ ItemsAt(r) = ItemsAt(r - 1) \cup {a, b, c}
              /\ {a, b, c} \cap ItemsAt(r - 1) = {}
              /\ Upgrade(r) = <<Add(a), Add(b), Add(c), Stamp(r - 1, r)>>
              /\ Downgrade(r) = <<DropItem(c), DropItem(b), DropItem(a), Stamp(r, r - 1)>>
         /\ r - 1 \in Versions /\ r \in Versions
<1>1. ASSUME NEW a, NEW b, NEW c, Revisions[r] = <<a, b, c>>
      PROVE  /\ Upgrade(r) = <<Add(a), Add(b), Add(c), Stamp(r - 1, r)>>
             /\ Downgrade(r) = <<DropItem(c), DropItem(b), DropItem(a), Stamp(r, r - 1)>>
  <2>1. /\ DOMAIN Revisions[r] = {1, 2, 3}
        /\ Revisions[r][1] = a /\ Revisions[r][2] = b /\ Revisions[r][3] = c
    BY <1>1
  <2>2. [i \in DOMAIN Revisions[r] |-> Add(Revisions[r][i])] = <<Add(a), Add(b), Add(c)>>
    BY <2>1
  <2>3. [i \in DOMAIN Revisions[r] |-> DropItem(Revisions[r][i])]
          = <<DropItem(a), DropItem(b), DropItem(c)>>
    BY <2>1
  <2>4. ASSUME NEW x, NEW y, NEW z PROVE Reverse(<<x, y, z>>) = <<z, y, x>>
    BY DEF Reverse
  <2>5. ASSUME NEW x, NEW y, NEW z, NEW s PROVE <<x, y, z>> \o <<s>> = <<x, y, z, s>>
    <3> DEFINE S == {x, y, z, s}
               p == <<x, y, z>> \o <<s>>
               q == <<x, y, z, s>>
    <3>1. p \in Seq(S) /\ q \in Seq(S) /\ Len(p) = 4 /\ Len(q) = 4
      OBVIOUS
    <3>2. p[1] = q[1] /\ p[2] = q[2] /\ p[3] = q[3] /\ p[4] = q[4]
      OBVIOUS
    <3> HIDE DEF S, p, q
    <3>3. \A i \in 1 .. 4 : p[i] = q[i]
      BY <3>2
    <3>4. p = q
      BY <3>1, <3>3, SeqEqual
    <3> QED BY <3>4 DEF p, q
  <2>6. Upgrade(r) = <<Add(a), Add(b), Add(c)>> \o <<Stamp(r - 1, r)>>
    BY <2>2 DEF Upgrade
  <2>7. Downgrade(r) = <<DropItem(c), DropItem(b), DropItem(a)>> \o <<Stamp(r, r - 1)>>
    BY <2>3, <2>4 DEF Downgrade
  <2> QED BY <2>5, <2>6, <2>7
<1>2. CASE r = 1
  <2>1. Revisions[r] = <<"books", "ix__books", "users">>
    BY <1>2, TheRevisions DEF InitialItems
  <2> QED BY <1>1, <1>2, <2>1, TheItems, TheRevisions
<1>3. CASE r = 2
  <2>1. Revisions[r] = <<"password_hash", "is_superuser", "permissions">>
    BY <1>3, TheRevisions DEF PasswordItems
  <2> QED BY <1>1, <1>3, <2>1, TheItems, TheRevisions
<1> QED BY <1>2, <1>3

LEMMA FourSteps ==
  ASSUME NEW s1 \in Statement, NEW s2 \in Statement, NEW s3 \in Statement,
         NEW s4 \in Statement, NEW db, NEW f, Course(<<s1, s2, s3, s4>>, db, f)
  PROVE  /\ f[0] = db /\ f[1] \in Database /\ f[2] \in Database /\ f[3] \in Database
         /\ f[0] \in Database /\ f[4] \in Database
         /\ f[1] = Applied(s1, f[0]) /\ f[2] = Applied(s2, f[1])
         /\ f[3] = Applied(s3, f[2]) /\ f[4] = Applied(s4, f[3])
         /\ Applies(s4, f[3]) 
<1> DEFINE w == <<s1, s2, s3, s4>>
<1>1. Len(w) = 4 /\ w[1] = s1 /\ w[2] = s2 /\ w[3] = s3 /\ w[4] = s4
  OBVIOUS
<1> HIDE DEF w
<1>2. /\ f \in [0 .. 4 -> Database] /\ f[0] = db
      /\ \A i \in 0 .. 3 : Applies(w[i + 1], f[i]) /\ f[i + 1] = Applied(w[i + 1], f[i])
  BY <1>1 DEF Course, w
<1>3. f[0 + 1] = Applied(w[0 + 1], f[0])
  BY <1>2
<1>4. f[1 + 1] = Applied(w[1 + 1], f[1])
  BY <1>2
<1>5. f[2 + 1] = Applied(w[2 + 1], f[2])
  BY <1>2
<1>6. f[3 + 1] = Applied(w[3 + 1], f[3]) /\ Applies(w[3 + 1], f[3])
  BY <1>2
<1> QED BY <1>1, <1>2, <1>3, <1>4, <1>5, <1>6

LEMMA RevisionEndsWell ==
  ASSUME NEW r \in {1, 2}
  PROVE  /\ Upgrade(r) \in Seq(Statement) /\ Downgrade(r) \in Seq(Statement)
         /\ \A db \in Agreeing : EndsWell(Upgrade(r), db)
         /\ \A db \in Agreeing : EndsWell(Downgrade(r), db)
         /\ Raises(Upgrade(r)) /\ Lowers(Downgrade(r)) /\ Downgrade(r) # <<>>
<1>1. PICK a \in AllItems, b \in AllItems, c \in AllItems :
         /\ ItemsAt(r) = ItemsAt(r - 1) \cup {a, b, c}
         /\ {a, b, c} \cap ItemsAt(r - 1) = {}
         /\ Upgrade(r) = <<Add(a), Add(b), Add(c), Stamp(r - 1, r)>>
         /\ Downgrade(r) = <<DropItem(c), DropItem(b), DropItem(a), Stamp(r, r - 1)>>
  BY TheSteps
<1>2. /\ Add(a) \in Statement /\ Add(b) \in Statement /\ Add(c) \in Statement
      /\ DropItem(a) \in Statement /\ DropItem(b) \in Statement /\ DropItem(c) \in Statement
      /\ Stamp(r - 1, r) \in Statement /\ Stamp(r, r - 1) \in Statement
  BY TheSteps DEF Statement
<1>3. Upgrade(r) \in Seq(Statement) /\ Downgrade(r) \in Seq(Statement)
  BY <1>1, <1>2
<1>4. ASSUME NEW db \in Agreeing, NEW f, Course(Upgrade(r), db, f)
      PROVE  Agrees(f[4])
  <2>1. /\ f[0] = db /\ f[1] \in Database /\ f[2] \in Database /\ f[3] \in Database
        /\ f[0] \in Database /\ f[1] = Applied(Add(a), f[0])
        /\ f[2] = Applied(Add(b), f[1]) /\ f[3] = Applied(Add(c), f[2])
        /\ f[4] = Applied(Stamp(r - 1, r), f[3]) /\ Applies(Stamp(r - 1, r), f[3])
    BY <1>1, <1>2, <1>4, FourSteps
  <2>2. /\ f[3].items = db.items \cup {a, b, c} /\ f[3].version = db.version
    <3>1. \A x, y : y \in Database =>
              Applied(Add(x), y).items = y.items \cup {x} /\ Applied(Add(x), y).version = y.version
      BY DEF Applied, Add, Database
    <3> QED BY <2>1, <3>1
  <2>3. f[3].version = r - 1 /\ f[4].version = r /\ f[4].items = f[3].items
    BY <2>1 DEF Applied, Applies, Stamp, Database
  <2> QED BY <1>1, <2>2, <2>3 DEF Agrees, Agreeing
<1>5. ASSUME NEW db \in Agreeing, NEW f, Course(Downgrade(r), db, f)
      PROVE  Agrees(f[4])
  <2>1. /\ f[0] = db /\ f[1] \in Database /\ f[2] \in Database /\ f[3] \in Database
        /\ f[0] \in Database /\ f[1] = Applied(DropItem(c), f[0])
        /\ f[2] = Applied(DropItem(b), f[1]) /\ f[3] = Applied(DropItem(a), f[2])
        /\ f[4] = Applied(Stamp(r, r - 1), f[3]) /\ Applies(Stamp(r, r - 1), f[3])
    BY <1>1, <1>2, <1>5, FourSteps
  <2>2. /\ f[3].items = db.items \ {a, b, c} /\ f[3].version = db.version
    <3>1. \A x, y : y \in Database =>
              /\ Applied(DropItem(x), y).items = y.items \ {x}
              /\ Applied(DropItem(x), y).version = y.version
      BY DEF Applied, DropItem, Database
    <3> QED BY <2>1, <3>1
  <2>3. f[3].version = r /\ f[4].version = r - 1 /\ f[4].items = f[3].items
    BY <2>1 DEF Applied, Applies, Stamp, Database
  <2> QED BY <1>1, <2>2, <2>3 DEF Agrees, Agreeing
<1>6. Len(Upgrade(r)) = 4 /\ Len(Downgrade(r)) = 4
  BY <1>1
<1>7. Raises(Upgrade(r))
  BY <1>1 DEF Raises, Add, Stamp
<1>8. Lowers(Downgrade(r))
  <2>1. /\ Downgrade(r)[1].op = "drop" /\ Downgrade(r)[2].op = "drop"
        /\ Downgrade(r)[3].op = "drop" /\ Downgrade(r)[4] = [op |-> "stamp", from |-> r, to |-> r - 1]
    BY <1>1 DEF DropItem, Stamp
  <2> QED BY <1>6, <2>1 DEF Lowers
<1> QED BY <1>3, <1>4, <1>5, <1>6, <1>7, <1>8 DEF EndsWell

\* A plan: statements that end well, that drop nothing on the way up, and that
\* lead to an older version on the way down.
LEMMA PlansEndWell ==
  ASSUME NEW from \in Versions, NEW to \in Versions
  PROVE  /\ Plan(from, to) \in Seq(Statement)
         /\ \A db \in Agreeing : EndsWell(Plan(from, to), db)
         /\ \/ Raises(Plan(from, to))
            \/ Lowers(Plan(from, to)) /\ Plan(from, to) # <<>>
<1> DEFINE Sound(w) == w \in Seq(Statement) /\ \A db \in Agreeing : EndsWell(w, db)
<1>1. Sound(<<>>) /\ Raises(<<>>)
  BY DEF EndsWell, Course, Agreeing, Raises
<1>2. ASSUME NEW v, NEW w, Sound(v), Sound(w) PROVE Sound(v \o w)
  BY <1>2, EndsWellConcat
<1>3. \A r \in {1, 2} : Sound(Upgrade(r)) /\ Sound(Downgrade(r))
  BY RevisionEndsWell
<1> HIDE DEF Sound
<1>4. \A w : Sound(w) => w \in Seq(Statement)
  BY DEF Sound
<1>5. ASSUME NEW w \in Seq(Statement) PROVE <<>> \o w = w /\ w \o <<>> = w
  OBVIOUS
<1> DEFINE u1 == IF from < 1 /\ 1 <= to THEN Upgrade(1) ELSE <<>>
           u2 == IF from < 2 /\ 2 <= to THEN Upgrade(2) ELSE <<>>
           d1 == IF to < 1 /\ 1 <= from THEN Downgrade(1) ELSE <<>>
           d2 == IF to < 2 /\ 2 <= from THEN Downgrade(2) ELSE <<>>
<1>9. Plan(from, to) = u1 \o u2 \o d2 \o d1
  BY DEF Plan
<1>6. CASE from <= to
  <2>1. \/ Plan(from, to) = <<>>
        \/ Plan(from, to) = Upgrade(1)
        \/ Plan(from, to) = Upgrade(2)
        \/ Plan(from, to) = Upgrade(1) \o Upgrade(2)
    <3>1. Upgrade(1) \in Seq(Statement) /\ Upgrade(2) \in Seq(Statement)
            /\ Upgrade(1) \o Upgrade(2) \in Seq(Statement)
      BY <1>3, <1>4
    <3>2. /\ u1 = <<>> \/ u1 = Upgrade(1)
          /\ u2 = <<>> \/ u2 = Upgrade(2)
          /\ d1 = <<>> /\ d2 = <<>>
      BY <1>6, TheRevisions
    <3>3. <<>> \in Seq(Statement)
      OBVIOUS
    <3> HIDE DEF u1, u2, d1, d2
    <3>4. u1 \in Seq(Statement) /\ u2 \in Seq(Statement)
      BY <3>1, <3>2, <3>3
    <3>5. u1 \o u2 \in Seq(Statement)
      BY <3>4
    <3>6. Plan(from, to) = u1 \o u2
      BY <1>5, <1>9, <3>2, <3>5
    <3> QED BY <1>5, <3>2, <3>4, <3>6
  <2>2. \A r \in {1, 2} : Raises(Upgrade(r))
    BY RevisionEndsWell
  <2>3. Raises(Upgrade(1) \o Upgrade(2))
    <3>1. ASSUME NEW v \in Seq(Statement), NEW w \in Seq(Statement), Raises(v), Raises(w)
          PROVE  Raises(v \o w)
      BY <3>1 DEF Raises
    <3> QED BY <1>3, <1>4, <2>2, <3>1
  <2>4. Sound(Plan(from, to)) /\ Raises(Plan(from, to))
    BY <1>1, <1>2, <1>3, <2>1, <2>2, <2>3
  <2> QED BY <2>4 DEF Sound
<1>7. CASE to < from
  <2>1. \/ Plan(from, to) = Downgrade(1)
        \/ Plan(from, to) = Downgrade(2)
        \/ Plan(from, to) = Downgrade(2) \o Downgrade(1)
    <3>1. Downgrade(1) \in Seq(Statement) /\ Downgrade(2) \in Seq(Statement)
            /\ Downgrade(2) \o Downgrade(1) \in Seq(Statement)
      BY <1>3, <1>4
    <3>2. /\ \/ d2 = <<>> /\ d1 = Downgrade(1)
             \/ d2 = Downgrade(2) /\ d1 = <<>>
             \/ d2 = Downgrade(2) /\ d1 = Downgrade(1)
          /\ u1 = <<>> /\ u2 = <<>>
      BY <1>7, TheRevisions
    <3>3. <<>> \in Seq(Statement)
      OBVIOUS
    <3> HIDE DEF u1, u2, d1, d2
    <3>4. d2 \in Seq(Statement) /\ d1 \in Seq(Statement)
      BY <3>1, <3>2, <3>3
    <3>5. d2 \o d1 \in Seq(Statement)
      BY <3>4
    <3>6. Plan(from, to) = d2 \o d1
      BY <1>5, <1>9, <3>2, <3>3, <3>4, <3>5
    <3> QED BY <1>5, <3>2, <3>4, <3>6
  <2>2. \A r \in {1, 2} : Lowers(Downgrade(r)) /\ Downgrade(r) # <<>>
    BY RevisionEndsWell
  <2>3. Lowers(Downgrade(2) \o Downgrade(1)) /\ Downgrade(2) \o Downgrade(1) # <<>>
    <3>1. ASSUME NEW v \in Seq(Statement), NEW w \in Seq(Statement),
                 Lowers(v), Lowers(w), w # <<>>
          PROVE  Lowers(v \o w) /\ v \o w # <<>>
      <4>1. /\ Len(v) \in Nat /\ Len(w) \in Nat \ {0} /\ Len(v \o w) = Len(v) + Len(w)
            /\ \A i \in 1 .. Len(v) : (v \o w)[i] = v[i]
            /\ \A i \in 1 .. Len(w) : (v \o w)[Len(v) + i] = w[i]
        BY <3>1
      <4>2. ASSUME NEW i \in 1 .. Len(v \o w), (v \o w)[i].op = "stamp"
            PROVE  (v \o w)[i].to < (v \o w)[i].from
        <5>1. CASE i <= Len(v)
          BY <3>1, <4>1, <4>2, <5>1 DEF Lowers
        <5>2. CASE i > Len(v)
          <6>1. i - Len(v) \in 1 .. Len(w) /\ i = Len(v) + (i - Len(v))
            BY <4>1, <5>2
          <6>2. (v \o w)[i] = w[i - Len(v)]
            BY <4>1, <6>1
          <6> QED BY <3>1, <4>2, <6>1, <6>2 DEF Lowers
        <5> QED BY <4>1, <5>1, <5>2
      <4>3. (v \o w)[Len(v \o w)] = w[Len(w)]
        BY <4>1
      <4>4. v \o w # <<>>
        BY <4>1
      <4> QED BY <3>1, <4>2, <4>3, <4>4 DEF Lowers
    <3> QED BY <1>3, <1>4, <2>2, <3>1
  <2>4. Sound(Plan(from, to)) /\ Lowers(Plan(from, to)) /\ Plan(from, to) # <<>>
    BY <1>2, <1>3, <2>1, <2>2, <2>3
  <2> QED BY <2>4 DEF Sound
<1>8. from <= to \/ to < from
  BY TheRevisions
<1> QED BY <1>6, <1>7, <1>8

LEMMA InitDatabase == Init => DatabaseInv
<1> SUFFICES ASSUME Init PROVE DatabaseInv
  OBVIOUS
<1>1. PICK v \in Versions : database = [items |-> ItemsAt(v), version |-> v]
  BY DEF Init, MigrationsInit
<1>2. ItemsAt(v) \in SUBSET AllItems
  BY TheItems, TheRevisions
<1>3. /\ database \in Database /\ Agrees(database) /\ draft = database /\ dropped = {}
      /\ locker = NoMigrator /\ progress = [m \in Migrators |-> "waiting"]
      /\ work = [m \in Migrators |-> <<>>]
  BY <1>1, <1>2 DEF Init, MigrationsInit, Database, Agrees
<1> QED BY <1>3, MigratorsAssumption DEF DatabaseInv, MigrationsTypeOK

\* What m has still to do ends well from what m sees.
LEMMA SeenEndsWell ==
  ASSUME DatabaseInv, NEW m \in Migrators, progress[m] = "running",
         locker \in {m, NoMigrator}
  PROVE  Seen(m) \in Database /\ EndsWell(work[m], Seen(m)) /\ Seen(m) = draft
BY DEF DatabaseInv, MigrationsTypeOK, CommandOK, Seen, Agreeing

LEMMA RunKeepsDatabase ==
  ASSUME DatabaseInv, NEW m \in Migrators, Run(m)
  PROVE  DatabaseInv'
<1> DEFINE s == Head(work[m])
<1>1. /\ progress[m] = "running" /\ work[m] # <<>> /\ locker \in {m, NoMigrator}
      /\ Applies(s, Seen(m)) /\ draft' = Applied(s, Seen(m))
      /\ dropped' = dropped \cup (IF s.op = "drop" THEN {s.item} ELSE {})
      /\ locker' = m /\ work' = [work EXCEPT ![m] = Tail(work[m])]
      /\ UNCHANGED <<database, progress>>
  BY DEF Run, MayRun
<1>2. /\ work[m] \in Seq(Statement) /\ s \in Statement /\ Tail(work[m]) \in Seq(Statement)
      /\ work'[m] = Tail(work[m]) /\ \A k \in Migrators : k # m => work'[k] = work[k]
  BY <1>1 DEF DatabaseInv
<1>3. /\ Len(work[m]) \in Nat \ {0} /\ s = work[m][1] /\ Len(work'[m]) = Len(work[m]) - 1
      /\ \A i \in 1 .. Len(work'[m]) : work'[m][i] = work[m][i + 1] /\ i + 1 \in 1 .. Len(work[m])
      /\ work'[m] = <<>> <=> Len(work[m]) = 1
  <2>1. ASSUME NEW w \in Seq(Statement), w # <<>>
        PROVE  /\ Len(w) \in Nat \ {0} /\ Head(w) = w[1] /\ Len(Tail(w)) = Len(w) - 1
               /\ \A i \in 1 .. Len(Tail(w)) : Tail(w)[i] = w[i + 1] /\ i + 1 \in 1 .. Len(w)
    BY <2>1
  <2>2. work'[m] = <<>> <=> Len(work'[m]) = 0
    BY <1>2, EmptySeq
  <2>3. Len(work'[m]) = Len(work[m]) - 1 /\ Len(work[m]) \in Nat \ {0}
    BY <1>1, <1>2, <2>1
  <2> QED BY <1>1, <1>2, <2>1, <2>2, <2>3
<1>4. Seen(m) = draft /\ draft \in Database /\ EndsWell(work[m], draft)
  BY <1>1, SeenEndsWell DEF DatabaseInv, MigrationsTypeOK
<1>5. draft' \in Database
  BY <1>1, <1>2, <1>4, AppliedTypes
<1>6. ASSUME s.op = "drop"
      PROVE  s.item \in AllItems /\ draft'.items = draft.items \ {s.item}
  <2>1. s.item \in AllItems
    BY <1>2, <1>6 DEF Statement, Add, DropItem, Stamp
  <2> QED BY <1>1, <1>4, <1>6, <2>1 DEF Applied, Database
<1>7. ASSUME s.op # "drop"
      PROVE  draft.items \subseteq draft'.items
  BY <1>1, <1>2, <1>4, <1>7 DEF Applied, Statement, Add, DropItem, Stamp, Database
<1>8. MigrationsTypeOK'
  BY <1>1, <1>5, <1>6 DEF DatabaseInv, MigrationsTypeOK
<1>9. (database.items \ draft.items \subseteq dropped)'
  BY <1>1, <1>6, <1>7 DEF DatabaseInv
<1>10. ASSUME NEW k \in Migrators, progress'[k] = "running"
       PROVE  CommandOK(k)'
  <2>1. CASE k # m
    BY <1>1, <1>2, <1>10, <2>1, MigratorsAssumption DEF DatabaseInv, CommandOK
  <2>2. CASE k = m
    <3>1. EndsWell(work'[m], draft')
      BY <1>1, <1>2, <1>4, EndsWellTail
    <3>2. CASE Raises(work[m]) /\ (locker = m => dropped = {})
      <4>1. dropped = {} /\ s.op # "drop"
        BY <1>1, <1>3, <3>2 DEF Raises, DatabaseInv
      <4>2. Raises(work'[m])
        BY <1>3, <3>2 DEF Raises
      <4> QED BY <1>1, <2>2, <3>1, <4>1, <4>2 DEF CommandOK
    <3>3. CASE /\ Lowers(work[m])
               /\ locker = m => draft.version <= database.version
      <4>1. draft.version <= database.version /\ draft.version \in 0 .. 2
            /\ database.version \in 0 .. 2
        BY <1>1, <3>3, TheRevisions DEF DatabaseInv, MigrationsTypeOK, Database, Versions, Revisions
      <4>2. Lowers(work'[m])
        <5>1. work'[m] # <<>> => /\ Len(work'[m]) \in 1 .. Len(work'[m])
                                  /\ work'[m][Len(work'[m])] = work[m][Len(work[m])]
          BY <1>3
        <5> QED BY <1>1, <1>3, <3>3, <5>1 DEF Lowers
      <4>3. ASSUME s.op = "stamp"
            PROVE  s.to < draft.version /\ draft'.version = s.to /\ s.to \in 0 .. 2
        <5>1. s.to < s.from
          <6>1. 1 \in 1 .. Len(work[m])
            BY <1>3
          <6> QED BY <1>3, <3>3, <4>3, <6>1 DEF Lowers
        <5>2. s.to \in 0 .. 2
          BY <1>2, <4>3, TheRevisions DEF Statement, Add, DropItem, Stamp
        <5>3. s.from = draft.version /\ draft'.version = s.to
          BY <1>1, <1>4, <4>3 DEF Applies, Applied, Database
        <5> QED BY <5>1, <5>2, <5>3
      <4>4. s.op # "stamp" => draft'.version = draft.version
        BY <1>1, <1>2, <1>4 DEF Applied, Statement, Add, DropItem, Stamp, Database
      <4>5. work'[m] = <<>> => s.op = "stamp"
        BY <1>1, <1>3, <3>3 DEF Lowers
      <4>6. draft'.version <= database.version /\ (work'[m] = <<>> => draft'.version < database.version)
        BY <4>1, <4>3, <4>4, <4>5
      <4> QED BY <1>1, <2>2, <3>1, <4>2, <4>6 DEF CommandOK
    <3> QED BY <1>1, <3>2, <3>3 DEF DatabaseInv, CommandOK
  <2> QED BY <2>1, <2>2
<1>11. work' \in [Migrators -> Seq(Statement)]
  BY <1>1, <1>2 DEF DatabaseInv
<1> QED BY <1>1, <1>8, <1>9, <1>10, <1>11, MigratorsAssumption DEF DatabaseInv, Agrees

\* The database of a command that ends without committing is as it was.
LEMMA EndKeepsDatabase ==
  ASSUME DatabaseInv, NEW m \in Migrators, NEW how \in {"done", "failed"},
         progress[m] = "running", End(m, how), UNCHANGED database,
         locker = m => Forget, locker # m => UNCHANGED <<draft, dropped>>
  PROVE  DatabaseInv'
<1>1. /\ progress' = [progress EXCEPT ![m] = how] /\ work' = [work EXCEPT ![m] = <<>>]
      /\ locker' = IF locker = m THEN NoMigrator ELSE locker
  BY DEF End
<1>2. /\ progress' \in [Migrators -> {"waiting", "running", "done", "failed"}]
      /\ work' \in [Migrators -> Seq(Statement)]
      /\ progress'[m] # "running"
      /\ \A k \in Migrators : k # m => progress'[k] = progress[k] /\ work'[k] = work[k]
  BY <1>1 DEF DatabaseInv, MigrationsTypeOK
<1>3. CASE locker = m
  <2>1. /\ draft' = database /\ dropped' = {} /\ locker' = NoMigrator
    BY <1>1, <1>3 DEF Forget
  <2>2. ASSUME NEW k \in Migrators, progress'[k] = "running" PROVE CommandOK(k)'
    BY <1>2, <1>3, <2>1, <2>2, MigratorsAssumption DEF DatabaseInv, CommandOK
  <2> QED BY <1>2, <2>1, <2>2, MigratorsAssumption DEF DatabaseInv, MigrationsTypeOK, Agrees
<1>4. CASE locker # m
  <2>1. UNCHANGED <<database, draft, dropped, locker>>
    BY <1>1, <1>4
  <2>2. ASSUME NEW k \in Migrators, progress'[k] = "running" PROVE CommandOK(k)'
    BY <1>2, <1>4, <2>1, <2>2 DEF DatabaseInv, CommandOK
  <2> QED BY <1>2, <1>4, <2>1, <2>2 DEF DatabaseInv, MigrationsTypeOK, Agrees
<1> QED BY <1>3, <1>4

\* What a command that has run everything commits is as it should be; it has
\* dropped nothing unless it leads to an older version.
LEMMA CommitAgrees ==
  ASSUME DatabaseInv, NEW m \in Migrators, progress[m] = "running",
         work[m] = <<>>, locker = m
  PROVE  Agrees(draft) /\ (dropped = {} \/ draft.version < database.version)
<1>1. EndsWell(<<>>, draft) /\ draft \in Database
  BY DEF DatabaseInv, CommandOK, MigrationsTypeOK
<1>2. Agrees(draft)
  BY <1>1, EndsWellNow
<1> QED BY <1>2 DEF DatabaseInv, CommandOK

LEMMA StepDatabase == DatabaseInv /\ [Next]_vars => DatabaseInv'
<1> SUFFICES ASSUME DatabaseInv, [Next]_vars PROVE DatabaseInv'
  OBVIOUS
<1>1. CASE UNCHANGED migrationVars
  BY <1>1 DEF migrationVars, DatabaseInv, MigrationsTypeOK, Agrees, CommandOK
<1>2. ASSUME NEW m \in Migrators, NEW target \in Versions, Begin(m, target)
      PROVE  DatabaseInv'
  <2>1. /\ progress[m] = "waiting" /\ progress' = [progress EXCEPT ![m] = "running"]
        /\ work' = [work EXCEPT ![m] = Plan(database.version, target)]
        /\ UNCHANGED <<database, locker, draft, dropped>>
    BY <1>2 DEF Begin
  <2>2. database.version \in Versions
    BY DEF DatabaseInv, MigrationsTypeOK, Database
  <2>3. /\ Plan(database.version, target) \in Seq(Statement)
        /\ \A db \in Agreeing : EndsWell(Plan(database.version, target), db)
        /\ Raises(Plan(database.version, target)) \/ Lowers(Plan(database.version, target))
    BY <2>2, PlansEndWell
  <2>4. locker # m
    BY <2>1 DEF DatabaseInv
  <2>5. /\ progress' \in [Migrators -> {"waiting", "running", "done", "failed"}]
        /\ work' \in [Migrators -> Seq(Statement)]
        /\ work'[m] = Plan(database.version, target) /\ progress'[m] = "running"
        /\ \A k \in Migrators : k # m => progress'[k] = progress[k] /\ work'[k] = work[k]
    BY <2>1, <2>3 DEF DatabaseInv, MigrationsTypeOK
  <2>6. ASSUME NEW k \in Migrators, progress'[k] = "running" PROVE CommandOK(k)'
    <3>1. CASE k = m
      BY <2>1, <2>3, <2>4, <2>5, <3>1 DEF CommandOK
    <3>2. CASE k # m
      BY <2>1, <2>5, <2>6, <3>2 DEF DatabaseInv, CommandOK
    <3> QED BY <3>1, <3>2
  <2> QED BY <2>1, <2>4, <2>5, <2>6 DEF DatabaseInv, MigrationsTypeOK, Agrees
<1>3. ASSUME NEW m \in Migrators, Run(m) PROVE DatabaseInv'
  BY <1>3, RunKeepsDatabase
<1>4. ASSUME NEW m \in Migrators, Fails(m) PROVE DatabaseInv'
  <2>1. /\ progress[m] = "running" /\ locker \in {m, NoMigrator} /\ End(m, "failed")
        /\ database' = database /\ draft' = database' /\ dropped' = {}
    BY <1>4 DEF Fails, MayRun, Forget
  <2>2. locker # m => UNCHANGED <<draft, dropped>>
    BY <2>1, MigratorsAssumption DEF DatabaseInv
  <2> QED BY <2>1, <2>2, EndKeepsDatabase DEF Forget
<1>5. ASSUME NEW m \in Migrators, Kill(m) PROVE DatabaseInv'
  BY <1>5, EndKeepsDatabase DEF Kill
<1>6. ASSUME NEW m \in Migrators, Commit(m) PROVE DatabaseInv'
  <2>1. CASE locker # m
    BY <1>6, <2>1, EndKeepsDatabase DEF Commit
  <2>2. CASE locker = m
    <3>1. /\ progress[m] = "running" /\ work[m] = <<>>
          /\ progress' = [progress EXCEPT ![m] = "done"] /\ work' = [work EXCEPT ![m] = <<>>]
          /\ locker' = NoMigrator /\ database' = draft /\ draft' = draft /\ dropped' = {}
      BY <1>6, <2>2 DEF Commit, End, Forget
    <3>2. Agrees(draft)
      BY <2>2, <3>1, CommitAgrees
    <3>3. /\ progress' \in [Migrators -> {"waiting", "running", "done", "failed"}]
          /\ work' \in [Migrators -> Seq(Statement)]
          /\ progress'[m] # "running"
          /\ \A k \in Migrators : k # m => progress'[k] = progress[k] /\ work'[k] = work[k]
      BY <3>1 DEF DatabaseInv, MigrationsTypeOK
    <3>4. ASSUME NEW k \in Migrators, progress'[k] = "running" PROVE CommandOK(k)'
      BY <2>2, <3>1, <3>3, <3>4, MigratorsAssumption DEF DatabaseInv, CommandOK
    <3> QED BY <3>1, <3>2, <3>3, <3>4, MigratorsAssumption DEF DatabaseInv, MigrationsTypeOK, Agrees
  <2> QED BY <2>1, <2>2
<1>7. CASE Tick \/ UNCHANGED vars
  BY <1>1, <1>7 DEF Tick, vars
<1>8. CASE \/ \E u \in Users : \/ \E hash \in BOOLEAN : Create(u, hash)
                               \/ Delete(u)
                               \/ \E rights \in Rights : GiveRights(u, rights)
           \/ \E l \in Logins : Login(l) \/ \E u \in Users : Credentials(l, u)
           \/ \E t \in tokens : Refresh(t)
  BY <1>1, <1>8 DEF Create, Delete, GiveRights, Login, Credentials, Refresh
<1> QED BY <1>2, <1>3, <1>4, <1>5, <1>6, <1>7, <1>8 DEF Next, CommitRows

\* Which columns go with which version.
LEMMA ColumnsTogether ==
  ASSUME NEW db \in Agreeing
  PROVE  /\ "password_hash" \in db.items => {"is_superuser", "permissions"} \subseteq db.items
         /\ "password_hash" \notin db.items => {"is_superuser", "permissions"} \cap db.items = {}
BY TheItems, TheRevisions DEF Agreeing, Agrees, Database

\* A commit leaves no row without its table, and no value without its column.
LEMMA CommitFits ==
  ASSUME IndInv, DatabaseInv, RowsFitSchema, NEW m \in Migrators, CommitRows(m)
  PROVE  RowsFitSchema'
<1>1. /\ progress[m] = "running" /\ work[m] = <<>>
      /\ account' = [u \in Users |-> IF locker = m THEN Migrated(account[u], dropped)
                                                   ELSE account[u]]
      /\ database' = IF locker = m THEN draft ELSE database
  BY DEF CommitRows, Commit
<1>2. CASE locker # m
  BY <1>1, <1>2 DEF RowsFitSchema
<1>3. CASE locker = m
  <2>1. database \in Agreeing /\ draft \in Agreeing /\ database' = draft
    BY <1>1, <1>3, CommitAgrees DEF DatabaseInv, MigrationsTypeOK, Agreeing
  <2>2. \A item : item \in database.items /\ item \notin draft.items => item \in dropped
    BY DEF DatabaseInv
  <2>3. ASSUME NEW u \in Users, "users" \notin draft.items
        PROVE  account'[u] = NoAccount
    BY <1>1, <1>3, <2>2, <2>3 DEF Migrated, RowsFitSchema
  <2>4. ASSUME NEW u \in Users, account'[u] # NoAccount, "password_hash" \notin draft.items
        PROVE  account'[u].hash = FALSE /\ account'[u].rights = NoRights
    <3>1. account[u] \in Account
      BY <1>1, <1>3, <2>4 DEF Migrated, IndInv, SessionsTypeOK
    <3> DEFINE row == account[u]
               hash == row.hash /\ "password_hash" \notin dropped
               sup == row.rights.is_superuser /\ "is_superuser" \notin dropped
               per == IF "permissions" \in dropped THEN {} ELSE row.rights.permissions
    <3>2. account'[u] = [hash |-> hash,
                         rights |-> [is_superuser |-> sup, permissions |-> per],
                         deleted |-> row.deleted]
      BY <1>1, <1>3, <2>4 DEF Migrated
    <3>3. CASE "password_hash" \in database.items
      <4>1. {"password_hash", "is_superuser", "permissions"} \subseteq dropped
        BY <2>1, <2>2, <2>4, <3>3, ColumnsTogether
      <4>2. hash = FALSE /\ sup = FALSE /\ per = {}
        BY <4>1
      <4> HIDE DEF hash, sup, per, row
      <4>3. account'[u] = [hash |-> FALSE, rights |-> NoRights, deleted |-> row.deleted]
        BY <3>2, <4>2 DEF NoRights
      <4> QED BY <4>3
    <3>4. CASE "password_hash" \notin database.items
      <4>1. row # NoAccount
        BY <1>1, <1>3, <2>4 DEF Migrated
      <4>2. row.hash = FALSE /\ row.rights = NoRights
        BY <3>4, <4>1 DEF RowsFitSchema
      <4>3. hash = FALSE /\ sup = FALSE /\ per = {}
        BY <4>2 DEF NoRights
      <4> HIDE DEF hash, sup, per, row
      <4>4. account'[u] = [hash |-> FALSE, rights |-> NoRights, deleted |-> row.deleted]
        BY <3>2, <4>3 DEF NoRights
      <4> QED BY <4>4
    <3> QED BY <3>3, <3>4
  <2> QED BY <2>1, <2>3, <2>4 DEF RowsFitSchema
<1> QED BY <1>2, <1>3

LEMMA StepRows ==
  ASSUME IndInv, DatabaseInv, RowsFitSchema, [Next]_vars
  PROVE  RowsFitSchema'
<1>1. CASE UNCHANGED <<database, account>>
  BY <1>1 DEF RowsFitSchema
<1>2. ASSUME NEW u \in Users, NEW hash \in BOOLEAN, Create(u, hash) PROVE RowsFitSchema'
  <2>1. {"users", "password_hash"} \subseteq database.items
    BY <1>2 DEF Create, UsersReady, ToSet, PasswordItems
  <2> QED BY <1>2, <2>1 DEF Create, migrationVars, RowsFitSchema
<1>3. ASSUME NEW u \in Users, Delete(u) PROVE RowsFitSchema'
  <2>1. /\ account[u] # NoAccount /\ database' = database
        /\ account' = [account EXCEPT ![u].deleted = TRUE]
    BY <1>3 DEF Delete, migrationVars
  <2>2. account[u] \in Account /\ account \in [Users -> Account \cup {NoAccount}]
    BY <2>1 DEF IndInv, SessionsTypeOK
  <2>3. /\ account'[u].hash = account[u].hash /\ account'[u].rights = account[u].rights
        /\ \A v \in Users : v # u => account'[v] = account[v]
    BY <2>1, <2>2 DEF Account
  <2> QED BY <2>1, <2>3 DEF RowsFitSchema
<1>4. ASSUME NEW u \in Users, NEW rights \in Rights, GiveRights(u, rights) PROVE RowsFitSchema'
  <2>1. {"users", "password_hash"} \subseteq database.items
    BY <1>4 DEF GiveRights, UsersReady, ToSet, PasswordItems
  <2> QED BY <1>4, <2>1 DEF GiveRights, migrationVars, RowsFitSchema
<1>5. ASSUME NEW m \in Migrators, CommitRows(m) PROVE RowsFitSchema'
  BY <1>5, CommitFits
<1>6. ASSUME NEW m \in Migrators, UNCHANGED sessionVars,
             Run(m) \/ Fails(m) \/ Kill(m) \/ \E target \in Versions : Begin(m, target)
      PROVE  RowsFitSchema'
  BY <1>1, <1>6 DEF Run, Fails, Kill, Begin, sessionVars
<1>7. CASE \/ \E l \in Logins : Login(l) \/ \E u \in Users : Credentials(l, u)
           \/ \E t \in tokens : Refresh(t)
           \/ Tick
           \/ UNCHANGED vars
  BY <1>1, <1>7 DEF Login, Credentials, Refresh, Tick, migrationVars, sessionVars, vars
<1> QED BY <1>2, <1>3, <1>4, <1>5, <1>6, <1>7 DEF Next

LEMMA SchemaInvariance == Spec => [](IndInv /\ DatabaseInv /\ RowsFitSchema)
<1>1. Init => RowsFitSchema
  BY DEF Init, RowsFitSchema
<1>2. (IndInv /\ DatabaseInv /\ RowsFitSchema) /\ [Next]_vars
        => (IndInv /\ DatabaseInv /\ RowsFitSchema)'
  BY StepInv, StepDatabase, StepRows
<1> QED BY <1>1, <1>2, InitInv, InitDatabase, PTL DEF Spec

\* Types, and that no row is without its table and no value without its
\* column, through every command that ran, failed or was killed.
THEOREM SessionsTypeCorrect == Spec => []TypeOK
<1>1. IndInv /\ DatabaseInv /\ RowsFitSchema => TypeOK
  BY DEF IndInv, DatabaseInv, TypeOK
<1> QED BY <1>1, SchemaInvariance, PTL

\* With any number of commands, planned on whatever version they found, the
\* committed schema is the one of the committed version.
THEOREM VersionsTellSchemas == Spec => []VersionTellsSchema
<1>1. DatabaseInv => VersionTellsSchema
  <2>1. Len(Revisions) = 2 /\ Declared = ItemsAt(2)
    BY TheItems DEF Revisions, Declared
  <2> QED BY <2>1 DEF DatabaseInv, Agrees, VersionTellsSchema
<1> QED BY <1>1, SchemaInvariance, PTL

LEMMA AccountsKept ==
  ASSUME IndInv, DatabaseInv, [Next]_vars, database'.version >= database.version,
         NEW u \in Users, account[u] # NoAccount
  PROVE  account'[u] # NoAccount /\ (account[u].hash => account'[u].hash)
<1>1. account[u] \in Account /\ account \in [Users -> Account \cup {NoAccount}]
  BY DEF IndInv, SessionsTypeOK
<1>2. ASSUME NEW v \in Users, NEW hash \in BOOLEAN, Create(v, hash)
      PROVE  account'[u] = account[u]
  BY <1>1, <1>2 DEF Create
<1>3. ASSUME NEW v \in Users, \/ Delete(v)
                              \/ \E rights \in Rights : GiveRights(v, rights)
      PROVE  account'[u] # NoAccount /\ account'[u].hash = account[u].hash
  <2>1. \/ account' = [account EXCEPT ![v].deleted = TRUE]
        \/ \E rights \in Rights : account' = [account EXCEPT ![v].rights = rights]
    BY <1>3 DEF Delete, GiveRights
  <2>2. \/ account'[u] = account[u]
        \/ account'[u] = [account[u] EXCEPT !.deleted = TRUE]
        \/ \E rights \in Rights : account'[u] = [account[u] EXCEPT !.rights = rights]
    BY <1>1, <2>1
  <2>3. account'[u] \in Account /\ account'[u].hash = account[u].hash
    BY <1>1, <2>2, RightsAssumption DEF Account
  <2> QED BY <2>3, MarkerAssumption
<1>4. ASSUME NEW m \in Migrators, CommitRows(m)
      PROVE  account'[u] # NoAccount /\ (account[u].hash => account'[u].hash)
  <2>1. CASE locker # m
    BY <1>4, <2>1 DEF CommitRows
  <2>2. CASE locker = m
    <3>1. /\ progress[m] = "running" /\ work[m] = <<>> /\ database' = draft
          /\ account'[u] = Migrated(account[u], dropped)
      BY <1>4, <2>2 DEF CommitRows, Commit
    <3>2. database.version \in Versions /\ draft.version \in Versions
      BY DEF DatabaseInv, MigrationsTypeOK, Database
    <3>3. dropped = {}
      BY <2>2, <3>1, <3>2, CommitAgrees, TheRevisions
    <3>4. account'[u].hash = account[u].hash /\ account'[u] \in Account
      <4>1. Migrated(account[u], {}) =
              [hash |-> account[u].hash, deleted |-> account[u].deleted,
               rights |-> [is_superuser |-> account[u].rights.is_superuser,
                           permissions |-> account[u].rights.permissions]]
        BY <1>1 DEF Migrated, Account, AllRights
      <4> QED BY <1>1, <3>1, <3>3, <4>1 DEF Account, AllRights
    <3> QED BY <3>4, MarkerAssumption
  <2> QED BY <2>1, <2>2
<1>5. CASE account' = account
  BY <1>5
<1>6. CASE \/ \E l \in Logins : Login(l) \/ \E v \in Users : Credentials(l, v)
           \/ \E t \in tokens : Refresh(t)
           \/ Tick
           \/ UNCHANGED sessionVars
           \/ UNCHANGED vars
  BY <1>5, <1>6 DEF Login, Credentials, Refresh, Tick, sessionVars, vars
<1> QED BY <1>2, <1>3, <1>4, <1>6 DEF Next

LEMMA CommandsKeepRows ==
  ASSUME IndInv, DatabaseInv, [Next]_vars, database'.version >= database.version,
         database' # database
  PROVE  account' = account
<1>1. PICK m \in Migrators : CommitRows(m)
  BY DEF Next, Create, Delete, GiveRights, Login, Credentials, Refresh, Tick,
         Begin, Run, Fails, Kill, vars, migrationVars
<1>2. /\ locker = m /\ progress[m] = "running" /\ work[m] = <<>> /\ database' = draft
      /\ account' = [u \in Users |-> Migrated(account[u], dropped)]
  BY <1>1 DEF CommitRows, Commit
<1>3. database.version \in Versions /\ draft.version \in Versions
  BY DEF DatabaseInv, MigrationsTypeOK, Database
<1>4. dropped = {}
  BY <1>2, <1>3, CommitAgrees, TheRevisions
<1>5. account \in [Users -> Account \cup {NoAccount}]
  BY DEF IndInv, SessionsTypeOK
<1>6. ASSUME NEW u \in Users PROVE Migrated(account[u], {}) = account[u]
  <2>1. CASE account[u] = NoAccount
    BY <2>1 DEF Migrated
  <2>2. CASE account[u] # NoAccount
    <3>1. account[u] \in Account
      BY <1>5, <2>2
    <3> DEFINE rights == [is_superuser |-> account[u].rights.is_superuser,
                          permissions |-> account[u].rights.permissions]
    <3>2. Migrated(account[u], {}) =
            [hash |-> account[u].hash, deleted |-> account[u].deleted, rights |-> rights]
      BY <2>2, <3>1 DEF Migrated, Account, AllRights
    <3>3. rights = account[u].rights
      BY <3>1 DEF Account, AllRights
    <3> HIDE DEF rights
    <3> QED BY <3>1, <3>2, <3>3 DEF Account
  <2> QED BY <2>1, <2>2
<1> QED BY <1>2, <1>4, <1>5, <1>6

\* A step that does not lead to an older version loses no account and no
\* password, whatever commands were given, failed or were killed before it,
\* and a command leaves the accounts as they are unless it leads to one.
THEOREM AccountsOutliveUpgrades == Spec => UpgradesKeepAccounts
<1>1. IndInv /\ DatabaseInv /\ [Next]_vars
        => [database'.version >= database.version =>
              /\ \A u \in Users :
                  /\ account[u] # NoAccount => account'[u] # NoAccount
                  /\ account[u] # NoAccount /\ account[u].hash => account'[u].hash
              /\ database' # database => account' = account]_vars
  BY AccountsKept, CommandsKeepRows
<1> QED BY <1>1, SchemaInvariance, PTL DEF Spec, UpgradesKeepAccounts
=============================================================================
