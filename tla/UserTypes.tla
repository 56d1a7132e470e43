----------------------------- MODULE UserTypes -----------------------------
(***************************************************************************)
(* The data of the user accounts.  A user has one name in each of Fields   *)
(* (an email and a username, each unique over the whole table), a password *)
(* when the account was registered and none when POST /users made it, and  *)
(* a deleted_at that is set or not.  A password stands for its hash: the   *)
(* argon2 verification is equality.  Lengths are checked by the schemas,   *)
(* so every name a client can send fits its column.                        *)
(***************************************************************************)
EXTENDS Naturals

CONSTANTS
    UserIds,    \* the uuids that rows may get
    Requests,   \* the HTTP requests served, one each
    Names,      \* emails and usernames
    Passwords,
    UNSET,      \* a field absent from a PATCH body (entities.UNSET)
    NULL,       \* a field sent as null
    None,       \* no password, no credentials
    Nobody,     \* the answer of a SELECT that matched no row with a password
    Absent,     \* no row
    NoOp,       \* the operation of a request not received yet
    Ops,        \* the operations to be served
    Seeds       \* the tables the service may start from

Fields == {"email", "username"}

Keys == Fields \X Names

User == [names : [Fields -> Names], password : Passwords \cup {None}, deleted : BOOLEAN]

Credentials == [id : UserIds, password : Passwords]

CreateOp == [kind : {"create"}, names : [Fields -> Names], password : {None}]
RegisterOp == [kind : {"register"}, names : [Fields -> Names], password : Passwords]
UpdateOp == [kind : {"update"}, id : UserIds,
             patch : [Fields -> Names \cup {UNSET, NULL}]]
DeleteOp == [kind : {"delete"}, id : UserIds]
LoginOp == [kind : {"login"}, username : Names, password : Passwords]

Operation == CreateOp \cup RegisterOp \cup UpdateOp \cup DeleteOp \cup LoginOp

Statuses == {"none", "CREATED", "OK", "NO_CONTENT", "BAD_REQUEST", "UNAUTHORIZED",
             "NOT_FOUND", "CONFLICT", "INTERNAL_SERVER_ERROR"}

Live(table, i) == table[i] # Absent /\ ~table[i].deleted

\* No two rows, deleted or not, share an email or a username.
DistinctNames(table) ==
    \A i, j \in UserIds, f \in Fields :
        /\ table[i] # Absent /\ table[j] # Absent
        /\ table[i].names[f] = table[j].names[f]
        => i = j

\* The live row a login selects, if it has a password.
MayLogIn(table, i, username) ==
    /\ Live(table, i)
    /\ table[i].names["username"] = username
    /\ table[i].password # None

ASSUME MarkerAssumption ==
    /\ {UNSET, NULL} \cap Names = {}
    /\ UNSET # NULL
    /\ None \notin Passwords \cup Credentials /\ Nobody \notin Credentials /\ None # Nobody
    /\ Absent \notin User
    /\ NoOp \notin Operation

ASSUME OpsAssumption == Ops \subseteq Operation

ASSUME SeedsAssumption ==
    \A seed \in Seeds : seed \in [UserIds -> User \cup {Absent}] /\ DistinctNames(seed)
=============================================================================
