------------------------------ MODULE Accounts ------------------------------
(***************************************************************************)
(* What the user endpoints, the registration and the login promise: each   *)
(* request takes effect at one instant while it is open.  PATCH and DELETE *)
(* first see their user live; a login sees credentials, or nobody, at one  *)
(* instant and is answered by what it saw.  UserStore implements this.     *)
(***************************************************************************)
EXTENDS UserTypes

VARIABLES
    users,    \* the table
    op,       \* what each request asks
    seen,     \* the requests that saw their user live
    creds,    \* the credentials each login saw, Nobody, or None before
    status    \* how each request was answered

vars == <<users, op, seen, creds, status>>

NameTaken(f, name, but) ==
    \E i \in UserIds \ but : users[i] # Absent /\ users[i].names[f] = name

Create(o, answer, table) ==
    \/ /\ answer = "CREATED"
       /\ \E i \in UserIds :
              /\ users[i] = Absent
              /\ table[i] \in User
              /\ table[i].names = o.names /\ table[i].password = o.password
              /\ ~table[i].deleted
              /\ table = [users EXCEPT ![i] = table[i]]
       /\ DistinctNames(table)
    \/ /\ answer = "CONFLICT"
       /\ \E f \in Fields : NameTaken(f, o.names[f], {})
       /\ table = users

\* A name that is taken is not a CONFLICT here: the request fails.
Update(o, found, answer, table) ==
    \/ /\ answer = "OK" /\ found
       /\ table[o.id] \in User
       /\ table = [users EXCEPT ![o.id] = table[o.id]]
       /\ table[o.id].password = users[o.id].password
       /\ table[o.id].deleted = users[o.id].deleted
       /\ \A f \in Fields :
              table[o.id].names[f] =
                  IF o.patch[f] = UNSET THEN users[o.id].names[f] ELSE o.patch[f]
       /\ DistinctNames(table)
    \/ /\ answer = "NOT_FOUND" /\ ~found
       /\ ~Live(users, o.id)
       /\ table = users

\* The names of a deleted user stay taken.
Delete(o, found, answer, table) ==
    \/ /\ answer = "NO_CONTENT" /\ found
       /\ table = [users EXCEPT ![o.id].deleted = TRUE]
    \/ /\ answer = "NOT_FOUND" /\ ~found
       /\ ~Live(users, o.id)
       /\ table = users

Login(o, saw, answer, table) ==
    /\ saw # None
    /\ answer = IF saw # Nobody /\ saw.password = o.password THEN "OK" ELSE "UNAUTHORIZED"
    /\ table = users

Does(o, found, saw, answer, table) ==
    \/ o.kind \in {"create", "register"} /\ Create(o, answer, table)
    \/ o.kind = "update" /\ Update(o, found, answer, table)
    \/ o.kind = "delete" /\ Delete(o, found, answer, table)
    \/ o.kind = "login" /\ Login(o, saw, answer, table)

\* All of the effect or none of it.
Fails(o, found, answer, table) ==
    /\ answer = "INTERNAL_SERVER_ERROR"
    /\ \/ table = users
       \/ \E success \in {"CREATED", "OK", "NO_CONTENT"} :
              Does(o, found, None, success, table)

Init ==
    /\ users \in Seeds
    /\ op = [r \in Requests |-> NoOp]
    /\ seen = {}
    /\ creds = [r \in Requests |-> None]
    /\ status = [r \in Requests |-> "none"]

Receive(r) ==
    /\ op[r] = NoOp
    /\ \E o \in Ops : op' = [op EXCEPT ![r] = o]
    /\ UNCHANGED <<users, seen, creds, status>>

Refuse(r) ==
    /\ op[r] = NoOp
    /\ \E o \in Ops \cap UpdateOp :
           /\ o.patch = [f \in Fields |-> UNSET]
           /\ op' = [op EXCEPT ![r] = o]
    /\ status' = [status EXCEPT ![r] = "BAD_REQUEST"]
    /\ UNCHANGED <<users, seen, creds>>

Find(r) ==
    /\ op[r] \in UpdateOp \cup DeleteOp /\ status[r] = "none"
    /\ Live(users, op[r].id)
    /\ seen' = seen \cup {r}
    /\ UNCHANGED <<users, op, creds, status>>

\* Nobody is seen only when no live account with a password has the name.
See(r) ==
    /\ op[r] \in LoginOp /\ status[r] = "none" /\ creds[r] = None
    /\ \/ \E i \in UserIds :
              /\ MayLogIn(users, i, op[r].username)
              /\ creds' = [creds EXCEPT ![r] = [id |-> i, password |-> users[i].password]]
       \/ /\ \A i \in UserIds : ~MayLogIn(users, i, op[r].username)
          /\ creds' = [creds EXCEPT ![r] = Nobody]
    /\ UNCHANGED <<users, op, seen, status>>

Serve(r) ==
    /\ op[r] # NoOp /\ status[r] = "none"
    /\ \E answer \in Statuses :
           /\ \/ Does(op[r], r \in seen, creds[r], answer, users')
              \/ Fails(op[r], r \in seen, answer, users')
           /\ status' = [status EXCEPT ![r] = answer]
    /\ seen' = seen \ {r}
    /\ UNCHANGED <<op, creds>>

Next == \E r \in Requests : Receive(r) \/ Refuse(r) \/ Find(r) \/ See(r) \/ Serve(r)

Spec == Init /\ [][Next]_vars
=============================================================================
