----------------------------- MODULE UserStore -----------------------------
(***************************************************************************)
(* The user accounts served concurrently: POST, PATCH and DELETE on        *)
(* /api/v1/users, /auth/register and /auth/login.  As in BookStore every   *)
(* request has one transaction and every await is a step.  The users table *)
(* has two unique indexes that cover deleted rows too; PostgreSQL enters a *)
(* row in them one after the other and may have to wait at each.           *)
(***************************************************************************)
EXTENDS UserTypes

VARIABLES
    users,      \* the committed table
    dirty,      \* the rows each open transaction wrote
    entered,    \* the index entries each open transaction made
    op,         \* what each request asks
    pc,         \* the statement each request is about to run
    creds,      \* the credentials each login read
    status      \* how each request was answered

vars == <<users, dirty, entered, op, pc, creds, status>>

(* Definitions that begin with Bug are slips; nothing here uses them. *)

\* unique=True forgotten on the username.
BugUserIndex == [u \in User |-> {<<"email", u.names["email"]>>}]

\* The entries of a row in uq__users__email and uq__users__username.
UserIndex == [u \in User |-> {<<f, u.names[f]>> : f \in Fields}]

Table == INSTANCE PgTable
         WITH RowIds <- UserIds, Txns <- Requests, Versions <- User,
              rows <- users, EntriesOf <- UserIndex

NewUser(o) == [names |-> o.names, password |-> o.password, deleted |-> FALSE]

Patched(user, patch) ==
    [user EXCEPT !.names = [f \in Fields |-> IF patch[f] = UNSET THEN @[f] ELSE patch[f]]]

Deleted(user) == [user EXCEPT !.deleted = TRUE]

\* exclude_unset left nothing: the controller refuses before any transaction.
Empty(o) == o.kind = "update" /\ \A f \in Fields : o.patch[f] = UNSET

\* nullable=True.
BugNullable(patch) == TRUE

\* The columns are NOT NULL.
Storable(patch) == \A f \in Fields : patch[f] # NULL

FirstStatement(o) ==
    CASE o.kind \in {"update", "delete"} -> "exists"
      [] o.kind \in {"create", "register"} -> "insert"
      [] o.kind = "login" -> "select"

\* The login is decided after its transaction, from what it read there.
Success(r) ==
    CASE op[r].kind \in {"create", "register"} -> "CREATED"
      [] op[r].kind = "update" -> "OK"
      [] op[r].kind = "delete" -> "NO_CONTENT"
      [] op[r].kind = "login" ->
             IF creds[r] # Nobody /\ creds[r].password = op[r].password
             THEN "OK" ELSE "UNAUTHORIZED"

-----------------------------------------------------------------------------
Goto(r, label) == pc' = [pc EXCEPT ![r] = label]

Answer(r, answer) ==
    /\ status' = [status EXCEPT ![r] = answer]
    /\ Goto(r, "done")

\* The exception leaves the unit of work: rollback, close, error response.
Abort(r, answer) ==
    /\ Table!AbortTx(r)
    /\ Answer(r, answer)
    /\ UNCHANGED <<op, creds>>

Fail(r) == Abort(r, "INTERNAL_SERVER_ERROR")

Init ==
    /\ users \in Seeds
    /\ dirty = [r \in Requests |-> [i \in UserIds |-> Absent]]
    /\ entered = [r \in Requests |-> {}]
    /\ op = [r \in Requests |-> NoOp]
    /\ pc = [r \in Requests |-> "idle"]
    /\ creds = [r \in Requests |-> None]
    /\ status = [r \in Requests |-> "none"]

Receive(r) ==
    /\ pc[r] = "idle"
    /\ \E o \in Ops :
           /\ ~Empty(o)
           /\ op' = [op EXCEPT ![r] = o]
           /\ Goto(r, FirstStatement(o))
    /\ UNCHANGED <<users, dirty, entered, creds, status>>

RefuseEmpty(r) ==
    /\ pc[r] = "idle"
    /\ \E o \in Ops : Empty(o) /\ op' = [op EXCEPT ![r] = o]
    /\ Answer(r, "BAD_REQUEST")
    /\ UNCHANGED <<users, dirty, entered, creds>>

\* SELECT EXISTS: no lock is taken.
Found(r) ==
    /\ pc[r] = "exists"
    /\ Live(users, op[r].id)
    /\ Goto(r, "write")
    /\ UNCHANGED <<users, dirty, entered, op, creds, status>>

NotFound(r) ==
    /\ pc[r] = "exists"
    /\ ~Live(users, op[r].id)
    /\ Abort(r, "NOT_FOUND")

DeleteRow(r) ==
    /\ pc[r] = "write" /\ op[r].kind = "delete"
    /\ Table!Writers(op[r].id) = {}
    /\ Table!Write(r, op[r].id, Deleted(users[op[r].id]))
    /\ Goto(r, "commit")
    /\ UNCHANGED <<users, entered, op, creds, status>>

UpdateRow(r) ==
    /\ pc[r] = "write" /\ op[r].kind = "update"
    /\ Storable(op[r].patch)
    /\ Table!Writers(op[r].id) = {}
    /\ Table!Write(r, op[r].id, Patched(users[op[r].id], op[r].patch))
    /\ Goto(r, "email")
    /\ UNCHANGED <<users, entered, op, creds, status>>

\* NOT NULL is violated, and update_user_by_id catches no IntegrityError.
RejectPatch(r) ==
    /\ pc[r] = "write" /\ op[r].kind = "update"
    /\ ~Storable(op[r].patch)
    /\ Fail(r)

InsertUser(r) ==
    /\ pc[r] = "insert"
    /\ \E i \in Table!FreeIds : Table!Write(r, i, NewUser(op[r]))
    /\ Goto(r, "email")
    /\ UNCHANGED <<users, entered, op, creds, status>>

-----------------------------------------------------------------------------
(* The row r wrote is entered in the index on the field pc[r]. *)

Entering(r) == pc[r] \in Fields

NewEntry(r) ==
    {e \in Keys : /\ e[1] = pc[r]
                  /\ \E i \in UserIds : Table!Holds(r, i) /\ e \in UserIndex[dirty[r][i]]}

EnterIndex(r) ==
    /\ Entering(r)
    /\ Table!Deciders(r, NewEntry(r)) = {}
    /\ ~Table!Taken(r, NewEntry(r))
    /\ Table!Enter(r, NewEntry(r))
    /\ Goto(r, IF pc[r] = "email" THEN "username" ELSE "commit")
    /\ UNCHANGED <<users, dirty, op, creds, status>>

\* create_user turns the IntegrityError into EntityAlreadyExistsException,
\* update_user_by_id lets it through.
Duplicate(r) ==
    /\ Entering(r)
    /\ Table!Deciders(r, NewEntry(r)) = {}
    /\ Table!Taken(r, NewEntry(r))
    /\ IF op[r].kind = "update" THEN Fail(r) ELSE Abort(r, "CONFLICT")

-----------------------------------------------------------------------------
\* Without deleted_at IS NULL.
BugReadCredentials(r) ==
    /\ pc[r] = "select"
    /\ \/ \E i \in UserIds :
              /\ users[i] # Absent /\ users[i].names["username"] = op[r].username
              /\ users[i].password # None
              /\ creds' = [creds EXCEPT ![r] = [id |-> i, password |-> users[i].password]]
       \/ /\ \A i \in UserIds : ~MayLogIn(users, i, op[r].username)
          /\ creds' = [creds EXCEPT ![r] = Nobody]
    /\ Goto(r, "commit")
    /\ UNCHANGED <<users, dirty, entered, op, status>>

\* fetch_user_credentials_by_username
ReadCredentials(r) ==
    /\ pc[r] = "select"
    /\ \/ \E i \in UserIds :
              /\ MayLogIn(users, i, op[r].username)
              /\ creds' = [creds EXCEPT ![r] = [id |-> i, password |-> users[i].password]]
       \/ /\ \A i \in UserIds : ~MayLogIn(users, i, op[r].username)
          /\ creds' = [creds EXCEPT ![r] = Nobody]
    /\ Goto(r, "commit")
    /\ UNCHANGED <<users, dirty, entered, op, status>>

Commit(r) ==
    /\ pc[r] = "commit"
    /\ Table!CommitTx(r)
    /\ Answer(r, Success(r))
    /\ UNCHANGED <<op, creds>>

\* The connection fails during COMMIT: it may have been done or not.
CommitLost(r) ==
    /\ pc[r] = "commit"
    /\ Table!CommitTx(r) \/ Table!AbortTx(r)
    /\ Answer(r, "INTERNAL_SERVER_ERROR")
    /\ UNCHANGED <<op, creds>>

\* The connection fails before: the server rolls back.
StatementLost(r) ==
    /\ pc[r] \notin {"idle", "commit", "done"}
    /\ Fail(r)

Blockers(r) ==
    CASE pc[r] = "write" -> Table!Writers(op[r].id)
      [] Entering(r) -> Table!Deciders(r, NewEntry(r))
      [] OTHER -> {}

Deadlocked(r) == Table!InCycle(r, [s \in Requests |-> Blockers(s)])

DeadlockVictim(r) ==
    /\ Deadlocked(r)
    /\ Fail(r)

Terminated ==
    /\ \A r \in Requests : pc[r] = "done"
    /\ UNCHANGED vars

Works(r) ==
    \/ Found(r) \/ NotFound(r)
    \/ DeleteRow(r) \/ UpdateRow(r) \/ RejectPatch(r)
    \/ InsertUser(r) \/ EnterIndex(r) \/ Duplicate(r)
    \/ ReadCredentials(r) \/ Commit(r)
    \/ DeadlockVictim(r)

Faults(r) == CommitLost(r) \/ StatementLost(r)

Next ==
    \/ \E r \in Requests : Receive(r) \/ RefuseEmpty(r) \/ Works(r) \/ Faults(r)
    \/ Terminated

Spec == Init /\ [][Next]_vars

-----------------------------------------------------------------------------
(* Properties. *)

\* Every variable stays in its type; no committed row holds a null name.
TypeOK ==
    /\ Table!TypeInvariant
    /\ op \in [Requests -> Operation \cup {NoOp}]
    /\ pc \in [Requests -> Fields \cup {"idle", "exists", "write", "insert", "select",
                                        "commit", "done"}]
    /\ creds \in [Requests -> Credentials \cup {Nobody, None}]
    /\ status \in [Requests -> Statuses]

\* An email or a username never belongs to two rows, deleted ones included:
\* nobody can register under the name of a deleted user, whatever overlaps.
NamesDistinct == DistinctNames(users)

\* The requests that saw their user live and have not answered yet.
Seen == {r \in Requests : /\ op[r] # NoOp /\ op[r].kind \in {"update", "delete"}
                          /\ pc[r] \in Fields \cup {"write", "commit"}}

\* Every answer tells one atomic effect: a 201 is an account with both names
\* its own, a login is answered by the account as it was at one instant while
\* the login was open, and an error leaves all of an effect or nothing.
Contract == INSTANCE Accounts WITH seen <- Seen
ServesAtomically == Contract!Spec
============================================================================
