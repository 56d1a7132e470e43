-------------------------- MODULE UserStoreProofs --------------------------
(***************************************************************************)
(* The accounts with any number of users, names and requests.  A row is    *)
(* entered in two indexes one after the other, so between the two steps a  *)
(* transaction owns one of its names and may still lose the other.  What   *)
(* keeps the names distinct is that a COMMIT only publishes a name that    *)
(* its transaction entered, or that the row had before: a DELETE enters    *)
(* nothing and keeps both.                                                 *)
(***************************************************************************)
EXTENDS UserStore, TLAPS

Key(f, user) == <<f, user.names[f]>>

-----------------------------------------------------------------------------
(* The inductive invariant. *)

\* What a request asks fits the statement it is about to run.
OpFits ==
    \A r \in Requests :
        /\ pc[r] # "idle" => op[r] \in Operation
        /\ pc[r] \in {"exists", "write"} => op[r] \in UpdateOp \cup DeleteOp
        /\ pc[r] = "insert" => op[r] \in CreateOp \cup RegisterOp

\* The row that a request is about to update exists.
FoundRow == \A r \in Requests : pc[r] = "write" => users[op[r].id] # Absent

HoldsNothing(r) == entered[r] = {} /\ \A i \in UserIds : ~Table!Holds(r, i)

\* Before its only write and after its answer a request holds nothing.
IdleHoldsNothing ==
    \A r \in Requests :
        pc[r] \in {"idle", "exists", "write", "insert", "select", "done"} => HoldsNothing(r)

\* The indexes that r has gone through.
Passed(r) == CASE pc[r] = "commit" -> Fields
               [] pc[r] = "username" -> {"email"}
               [] OTHER -> {}

\* A name r may publish is one it entered, or the one its row has already.
Covered(r, i, f) ==
    \/ Key(f, dirty[r][i]) \in entered[r]
    \/ users[i] # Absent /\ users[i].names[f] = dirty[r][i].names[f]

WritesCovered ==
    \A r \in Requests : \A i \in UserIds : \A f \in Passed(r) :
        Table!Holds(r, i) => Covered(r, i, f)

OneWriter ==
    \A i \in UserIds : \A s, t \in Requests :
        Table!Holds(s, i) /\ Table!Holds(t, i) => s = t

\* A transaction of this service writes one account.
OneRow ==
    \A t \in Requests : \A i, j \in UserIds :
        Table!Holds(t, i) /\ Table!Holds(t, j) => i = j

OneOwner == \A s, t \in Requests : s # t => entered[s] \cap entered[t] = {}

\* An entry of a row is only made by who is changing that row.
EntryOfRow ==
    \A t \in Requests : \A i \in UserIds : \A f \in Fields :
        users[i] # Absent /\ Key(f, users[i]) \in entered[t] => Table!Holds(t, i)

TableInv ==
    /\ OneWriter
    /\ OneRow
    /\ OneOwner
    /\ EntryOfRow
    /\ NamesDistinct

ControlInv ==
    /\ OpFits
    /\ FoundRow
    /\ IdleHoldsNothing
    /\ WritesCovered

IndInv == TypeOK /\ ControlInv /\ TableInv

-----------------------------------------------------------------------------
(* The values the statements compute. *)

LEMMA PatchedType ==
    ASSUME NEW user \in User, NEW patch \in [Fields -> Names \cup {UNSET, NULL}],
           Storable(patch)
    PROVE  Patched(user, patch) \in User
<1>1. \A f \in Fields : (IF patch[f] = UNSET THEN user.names[f] ELSE patch[f]) \in Names
  BY DEF Storable, User
<1> QED BY <1>1 DEF Patched, User

LEMMA DeletedType ==
    ASSUME NEW user \in User
    PROVE  Deleted(user) \in User /\ Deleted(user).names = user.names
BY DEF Deleted, User

LEMMA NewUserType ==
    ASSUME NEW o \in CreateOp \cup RegisterOp
    PROVE  NewUser(o) \in User
BY DEF NewUser, CreateOp, RegisterOp, User

LEMMA KeyType ==
    ASSUME NEW user \in User, NEW f \in Fields
    PROVE  Key(f, user) \in Keys /\ Key(f, user) \in UserIndex[user]
BY DEF Key, Keys, User, UserIndex

LEMMA OperationShape ==
    ASSUME NEW o \in Operation
    PROVE  /\ o \in CreateOp <=> o.kind = "create"
           /\ o \in RegisterOp <=> o.kind = "register"
           /\ o \in UpdateOp <=> o.kind = "update"
           /\ o \in DeleteOp <=> o.kind = "delete"
           /\ o \in LoginOp <=> o.kind = "login"
           /\ o \in UpdateOp => o.id \in UserIds
           /\ o \in UpdateOp => o.patch \in [Fields -> Names \cup {UNSET, NULL}]
           /\ o \in DeleteOp => o.id \in UserIds
           /\ o.kind \in {"create", "register", "update", "delete", "login"}
BY DEF Operation, CreateOp, RegisterOp, UpdateOp, DeleteOp, LoginOp

LEMMA SuccessType ==
    ASSUME NEW r \in Requests, op[r] \in Operation
    PROVE  Success(r) \in Statuses
BY OperationShape DEF Success, Statuses

\* Only a request that is about to write waits for others.
LEMMA DeadlockWaits ==
    ASSUME NEW r \in Requests, Deadlocked(r)
    PROVE  pc[r] \in Fields \cup {"write"}
<1>1. PICK n \in 1..Table!Cardinality(Requests) : \E cycle \in [1..n -> Requests] :
          /\ cycle[1] = r
          /\ \A k \in 1..n : cycle[(k % n) + 1] \in [s \in Requests |-> Blockers(s)][cycle[k]]
  BY DEF Deadlocked, Table!InCycle
<1>2. 1 \in 1..n
  OBVIOUS
<1>3. Blockers(r) # {}
  BY <1>1, <1>2
<1> QED BY <1>3 DEF Blockers, Entering

-----------------------------------------------------------------------------
(* The table: what each operation on it does to the facts about it. *)

LEMMA ReleaseEffect ==
    ASSUME TypeOK, NEW r \in Requests, Table!Release(r)
    PROVE  /\ entered'[r] = {}
           /\ \A i \in UserIds : dirty'[r][i] = Absent
           /\ \A s \in Requests \ {r} : entered'[s] = entered[s] /\ dirty'[s] = dirty[s]
           /\ dirty' \in [Requests -> [UserIds -> User \cup {Absent}]]
           /\ entered' \in [Requests -> SUBSET Keys]
BY DEF TypeOK, Table!TypeInvariant, Table!Release

LEMMA AbortKeeps ==
    ASSUME TypeOK, TableInv, NEW r \in Requests, Table!AbortTx(r)
    PROVE  TableInv' /\ HoldsNothing(r)' /\ Table!TypeInvariant'
<1>1. /\ entered'[r] = {}
      /\ \A i \in UserIds : dirty'[r][i] = Absent
      /\ \A s \in Requests \ {r} : entered'[s] = entered[s] /\ dirty'[s] = dirty[s]
      /\ users' = users
  BY ReleaseEffect DEF Table!AbortTx
<1>2. OneWriter' /\ OneRow'
  BY <1>1 DEF TableInv, OneWriter, OneRow, Table!Holds
<1>3. OneOwner'
  BY <1>1 DEF TableInv, OneOwner
<1>4. EntryOfRow'
  BY <1>1 DEF TableInv, EntryOfRow, Key, Table!Holds
<1>5. NamesDistinct'
  BY <1>1 DEF TableInv, NamesDistinct
<1>6. Table!TypeInvariant'
  BY <1>1, ReleaseEffect DEF TypeOK, Table!TypeInvariant, Table!AbortTx
<1> QED BY <1>1, <1>2, <1>3, <1>4, <1>5, <1>6 DEF TableInv, HoldsNothing, Table!Holds

\* A commit publishes only names that r owns or that the row had.
LEMMA CommitKeeps ==
    ASSUME TypeOK, TableInv, NEW r \in Requests, Table!CommitTx(r),
           \A i \in UserIds : \A f \in Fields : Table!Holds(r, i) => Covered(r, i, f)
    PROVE  TableInv' /\ HoldsNothing(r)' /\ Table!TypeInvariant'
<1>1. /\ entered'[r] = {}
      /\ \A i \in UserIds : dirty'[r][i] = Absent
      /\ \A s \in Requests \ {r} : entered'[s] = entered[s] /\ dirty'[s] = dirty[s]
  BY ReleaseEffect DEF Table!CommitTx
<1>2. \A i \in UserIds : users'[i] = IF Table!Holds(r, i) THEN dirty[r][i] ELSE users[i]
  BY DEF Table!CommitTx
<1>3. OneWriter' /\ OneRow'
  BY <1>1 DEF TableInv, OneWriter, OneRow, Table!Holds
<1>4. OneOwner'
  BY <1>1 DEF TableInv, OneOwner
<1>5. EntryOfRow'
  <2> SUFFICES ASSUME NEW t \in Requests, NEW i \in UserIds, NEW f \in Fields, t # r,
                      users'[i] # Absent, Key(f, users'[i]) \in entered[t]
               PROVE  Table!Holds(t, i)
    BY <1>1 DEF EntryOfRow, Key, Table!Holds
  <2>1. CASE ~Table!Holds(r, i)
    BY <1>2, <2>1 DEF TableInv, EntryOfRow, Key
  <2>2. CASE Table!Holds(r, i)
    <3>1. Key(f, dirty[r][i]) \in entered[t] /\ Key(f, dirty[r][i]) \notin entered[r]
      BY <1>2, <2>2 DEF TableInv, OneOwner
    <3>2. users[i] # Absent /\ Key(f, users[i]) = Key(f, dirty[r][i])
      BY <2>2, <3>1 DEF Covered, Key
    <3> QED BY <3>1, <3>2 DEF TableInv, EntryOfRow
  <2> QED BY <2>1, <2>2
<1>6. NamesDistinct'
  <2>1. ASSUME NEW i \in UserIds, NEW j \in UserIds, NEW f \in Fields,
               Table!Holds(r, i), ~Table!Holds(r, j), users[j] # Absent,
               dirty[r][i].names[f] = users[j].names[f]
        PROVE  FALSE
    <3>1. Key(f, dirty[r][i]) = Key(f, users[j])
      BY <2>1 DEF Key
    <3>2. Key(f, dirty[r][i]) \notin entered[r]
      BY <2>1, <3>1 DEF TableInv, EntryOfRow
    <3>3. users[i] # Absent /\ users[i].names[f] = users[j].names[f]
      BY <2>1, <3>2 DEF Covered
    <3> QED BY <2>1, <3>3 DEF TableInv, NamesDistinct, DistinctNames
  <2> SUFFICES ASSUME NEW i \in UserIds, NEW j \in UserIds, NEW f \in Fields,
                      users'[i] # Absent, users'[j] # Absent,
                      users'[i].names[f] = users'[j].names[f]
               PROVE  i = j
    BY DEF NamesDistinct, DistinctNames
  <2>2. CASE Table!Holds(r, i) /\ Table!Holds(r, j)
    BY <2>2 DEF TableInv, OneRow
  <2>3. CASE ~Table!Holds(r, i) /\ ~Table!Holds(r, j)
    BY <1>2, <2>3 DEF TableInv, NamesDistinct, DistinctNames
  <2>4. CASE Table!Holds(r, i) /\ ~Table!Holds(r, j)
    BY <1>2, <2>1, <2>4
  <2>5. CASE ~Table!Holds(r, i) /\ Table!Holds(r, j)
    BY <1>2, <2>1, <2>5
  <2> QED BY <2>2, <2>3, <2>4, <2>5
<1>7. Table!TypeInvariant'
  <2>1. users' \in [UserIds -> User \cup {Absent}]
    BY DEF TypeOK, Table!TypeInvariant, Table!CommitTx
  <2> QED BY <2>1, ReleaseEffect DEF Table!TypeInvariant, Table!CommitTx
<1> QED BY <1>1, <1>3, <1>4, <1>5, <1>6, <1>7 DEF TableInv, HoldsNothing, Table!Holds

\* A request that holds nothing locks one row and writes it.
LEMMA WriteKeeps ==
    ASSUME TypeOK, TableInv, NEW r \in Requests, NEW i \in UserIds, NEW user \in User,
           HoldsNothing(r), Table!Writers(i) = {}, Table!Write(r, i, user),
           UNCHANGED <<users, entered>>
    PROVE  /\ TableInv' /\ Table!TypeInvariant'
           /\ dirty'[r][i] = user
           /\ \A j \in UserIds \ {i} : dirty'[r][j] = Absent
           /\ \A s \in Requests \ {r} : dirty'[s] = dirty[s]
<1>1. /\ dirty'[r][i] = user
      /\ \A j \in UserIds \ {i} : dirty'[r][j] = Absent
      /\ \A s \in Requests \ {r} : dirty'[s] = dirty[s]
  BY DEF TypeOK, Table!TypeInvariant, Table!Write, HoldsNothing, Table!Holds
<1>2. \A s \in Requests : dirty[s][i] = Absent
  BY DEF Table!Writers, Table!Holds
<1>3. OneWriter' /\ OneRow'
  BY <1>1, <1>2 DEF TableInv, OneWriter, OneRow, Table!Holds
<1>4. OneOwner'
  BY DEF TableInv, OneOwner
<1>5. EntryOfRow'
  BY <1>1 DEF TableInv, EntryOfRow, Key, Table!Holds, HoldsNothing
<1>6. NamesDistinct'
  BY DEF TableInv, NamesDistinct
<1>7. Table!TypeInvariant'
  BY DEF TypeOK, Table!TypeInvariant, Table!Write
<1> QED BY <1>1, <1>3, <1>4, <1>5, <1>6, <1>7 DEF TableInv

\* The entry that r makes covers the name of the row it holds.
LEMMA EnterKeeps ==
    ASSUME TypeOK, TableInv, NEW r \in Requests, Entering(r),
           Table!Deciders(r, NewEntry(r)) = {}, ~Table!Taken(r, NewEntry(r)),
           Table!Enter(r, NewEntry(r)), UNCHANGED <<users, dirty>>
    PROVE  /\ TableInv' /\ Table!TypeInvariant'
           /\ \A s \in Requests \ {r} : entered'[s] = entered[s]
           /\ \A i \in UserIds :
                  Table!Holds(r, i) => Key(pc[r], dirty[r][i]) \in entered'[r]
           /\ entered[r] \subseteq entered'[r]
<1>1. /\ entered'[r] = entered[r] \cup NewEntry(r)
      /\ \A s \in Requests \ {r} : entered'[s] = entered[s]
      /\ NewEntry(r) \subseteq Keys
  BY DEF TypeOK, Table!TypeInvariant, Table!Enter, NewEntry
<1>2. \A s \in Requests \ {r} : NewEntry(r) \cap entered[s] = {}
  BY DEF Table!Deciders
<1>3. ASSUME NEW i \in UserIds, NEW f \in Fields,
             users[i] # Absent, Key(f, users[i]) \in NewEntry(r)
      PROVE  Table!Holds(r, i)
  <2>1. users[i] \in User
    BY <1>3 DEF TypeOK, Table!TypeInvariant
  <2>2. Key(f, users[i]) \in Table!Entries(users[i])
    BY <1>3, <2>1, KeyType DEF Table!Entries
  <2> QED BY <1>3, <2>2 DEF Table!Taken
<1>4. ASSUME NEW i \in UserIds, Table!Holds(r, i)
      PROVE  Key(pc[r], dirty[r][i]) \in NewEntry(r)
  <2>1. dirty[r][i] \in User /\ pc[r] \in Fields
    BY <1>4 DEF TypeOK, Table!TypeInvariant, Table!Holds, Entering
  <2>2. Key(pc[r], dirty[r][i])[1] = pc[r]
    BY DEF Key
  <2> QED BY <1>4, <2>1, <2>2, KeyType DEF NewEntry
<1>5. OneWriter' /\ OneRow'
  BY DEF TableInv, OneWriter, OneRow, Table!Holds
<1>6. OneOwner'
  BY <1>1, <1>2 DEF TableInv, OneOwner
<1>7. EntryOfRow'
  BY <1>1, <1>3 DEF TableInv, EntryOfRow, Key, Table!Holds
<1>8. NamesDistinct'
  BY DEF TableInv, NamesDistinct
<1>9. Table!TypeInvariant'
  BY <1>1 DEF TypeOK, Table!TypeInvariant, Table!Enter
<1> QED BY <1>1, <1>4, <1>5, <1>6, <1>7, <1>8, <1>9 DEF TableInv

-----------------------------------------------------------------------------
(* The invariant. *)

LEMMA InitInv == ASSUME Init PROVE IndInv
<1>1. TypeOK
  BY SeedsAssumption DEF Init, TypeOK, Table!TypeInvariant, Statuses
<1>2. ControlInv
  BY DEF Init, ControlInv, OpFits, FoundRow, IdleHoldsNothing, HoldsNothing, Table!Holds,
         WritesCovered
<1>3. TableInv
  BY SeedsAssumption
     DEF Init, TableInv, OneWriter, OneRow, OneOwner, EntryOfRow, NamesDistinct, Table!Holds
<1> QED BY <1>1, <1>2, <1>3 DEF IndInv

\* What a step of r must satisfy; the other requests are as they were, and
\* the rows they hold too.
LEMMA ControlFrame ==
    ASSUME TypeOK, ControlInv, TableInv, NEW r \in Requests,
           \A s \in Requests \ {r} : /\ pc'[s] = pc[s] /\ op'[s] = op[s]
                                    /\ dirty'[s] = dirty[s] /\ entered'[s] = entered[s],
           \A i \in UserIds : users'[i] = users[i] \/ Table!Holds(r, i),
           \A i \in UserIds : users[i] # Absent => users'[i] # Absent,
           pc'[r] # "idle" => op'[r] \in Operation,
           pc'[r] \in {"exists", "write"} => op'[r] \in UpdateOp \cup DeleteOp,
           pc'[r] = "insert" => op'[r] \in CreateOp \cup RegisterOp,
           pc'[r] = "write" => users'[op'[r].id] # Absent,
           pc'[r] \in {"idle", "exists", "write", "insert", "select", "done"}
               => HoldsNothing(r)',
           \A i \in UserIds : \A f \in Passed(r)' : Table!Holds(r, i)' => Covered(r, i, f)'
    PROVE  ControlInv'
<1>1. OpFits'
  BY DEF ControlInv, OpFits
<1>2. FoundRow'
  <2> SUFFICES ASSUME NEW s \in Requests, s # r, pc[s] = "write"
               PROVE  users'[op[s].id] # Absent
    BY DEF FoundRow
  <2>1. op[s].id \in UserIds /\ users[op[s].id] # Absent
    BY OperationShape DEF ControlInv, OpFits, FoundRow
  <2> QED BY <2>1
<1>3. IdleHoldsNothing'
  BY DEF ControlInv, IdleHoldsNothing, HoldsNothing, Table!Holds
<1>4. WritesCovered'
  <2> SUFFICES ASSUME NEW s \in Requests, s # r, NEW i \in UserIds, NEW f \in Passed(s)',
                      Table!Holds(s, i)'
               PROVE  Covered(s, i, f)'
    BY DEF WritesCovered
  <2>1. f \in Passed(s) /\ Table!Holds(s, i)
    BY DEF Passed, Table!Holds
  <2>2. Covered(s, i, f)
    BY <2>1 DEF ControlInv, WritesCovered
  <2>3. users'[i] = users[i]
    BY <2>1 DEF TableInv, OneWriter
  <2> QED BY <2>2, <2>3 DEF Covered, Key
<1> QED BY <1>1, <1>2, <1>3, <1>4 DEF ControlInv

\* A statement that is neither a write nor the end of a transaction.
LEMMA QuietStep ==
    ASSUME IndInv, NEW r \in Requests, UNCHANGED <<users, dirty, entered>>,
           HoldsNothing(r),
           \A s \in Requests \ {r} : pc'[s] = pc[s] /\ op'[s] = op[s],
           op'[r] \in Operation,
           pc'[r] \in {"exists", "write"} => op'[r] \in UpdateOp \cup DeleteOp,
           pc'[r] = "insert" => op'[r] \in CreateOp \cup RegisterOp,
           pc'[r] = "write" => users[op'[r].id] # Absent
    PROVE  ControlInv' /\ TableInv'
<1>1. TableInv'
  BY DEF IndInv, TableInv, OneWriter, OneRow, OneOwner, EntryOfRow, NamesDistinct, Key,
         Table!Holds
<1>2. HoldsNothing(r)' /\ \A i \in UserIds : ~Table!Holds(r, i)'
  BY DEF HoldsNothing, Table!Holds
<1>3. ControlInv'
  BY <1>2, ControlFrame DEF IndInv
<1> QED BY <1>1, <1>3

\* The end of a transaction, with an answer.
LEMMA EndStep ==
    ASSUME IndInv, NEW r \in Requests, pc[r] # "idle", UNCHANGED op,
           pc' = [pc EXCEPT ![r] = "done"],
           \/ Table!AbortTx(r)
           \/ pc[r] = "commit" /\ Table!CommitTx(r)
    PROVE  ControlInv' /\ TableInv' /\ Table!TypeInvariant'
<1>1. TableInv' /\ HoldsNothing(r)' /\ Table!TypeInvariant'
  <2>1. CASE Table!AbortTx(r)
    BY <2>1, AbortKeeps DEF IndInv
  <2>2. CASE pc[r] = "commit" /\ Table!CommitTx(r)
    <3>1. \A i \in UserIds : \A f \in Fields : Table!Holds(r, i) => Covered(r, i, f)
      BY <2>2 DEF IndInv, ControlInv, WritesCovered, Passed
    <3> QED BY <2>2, <3>1, CommitKeeps DEF IndInv
  <2> QED BY <2>1, <2>2
<1>2. /\ \A s \in Requests \ {r} : entered'[s] = entered[s] /\ dirty'[s] = dirty[s]
      /\ \A i \in UserIds : users'[i] = users[i] \/ Table!Holds(r, i)
      /\ \A i \in UserIds : users[i] # Absent => users'[i] # Absent
  BY ReleaseEffect DEF IndInv, Table!AbortTx, Table!CommitTx, Table!Holds
<1>3. pc'[r] = "done" /\ \A s \in Requests \ {r} : pc'[s] = pc[s]
  BY DEF IndInv, TypeOK
<1>4. op'[r] \in Operation
  BY DEF IndInv, ControlInv, OpFits
<1>5. ControlInv'
  BY <1>1, <1>2, <1>3, <1>4, ControlFrame DEF IndInv, HoldsNothing
<1> QED BY <1>1, <1>5

\* The one write of r, with the index it goes to next; a DELETE, which keeps
\* both names, goes to none.
LEMMA WriteStep ==
    ASSUME IndInv, NEW r \in Requests, NEW i \in UserIds, NEW user \in User,
           pc[r] \in {"write", "insert"},
           Table!Writers(i) = {}, Table!Write(r, i, user),
           UNCHANGED <<users, entered, op>>,
           \/ pc' = [pc EXCEPT ![r] = "email"]
           \/ /\ pc' = [pc EXCEPT ![r] = "commit"]
              /\ users[i] # Absent /\ user.names = users[i].names
    PROVE  ControlInv' /\ TableInv' /\ Table!TypeInvariant'
<1>1. HoldsNothing(r)
  BY DEF IndInv, ControlInv, IdleHoldsNothing
<1>2. /\ TableInv' /\ Table!TypeInvariant'
      /\ dirty'[r][i] = user
      /\ \A j \in UserIds \ {i} : dirty'[r][j] = Absent
      /\ \A s \in Requests \ {r} : dirty'[s] = dirty[s]
  BY <1>1, WriteKeeps DEF IndInv
<1>3. /\ \A s \in Requests \ {r} : pc'[s] = pc[s]
      /\ \/ pc'[r] = "email"
         \/ pc'[r] = "commit" /\ users[i] # Absent /\ user.names = users[i].names
  BY DEF IndInv, TypeOK
<1>4. op'[r] \in Operation
  BY DEF IndInv, ControlInv, OpFits
<1>5. \A j \in UserIds : \A f \in Passed(r)' : Table!Holds(r, j)' => Covered(r, j, f)'
  BY <1>2, <1>3 DEF Passed, Table!Holds, Covered
<1>6. ControlInv'
  BY <1>2, <1>3, <1>4, <1>5, ControlFrame DEF IndInv
<1> QED BY <1>2, <1>6

LEMMA EnterStep ==
    ASSUME IndInv, NEW r \in Requests, EnterIndex(r)
    PROVE  ControlInv' /\ TableInv' /\ Table!TypeInvariant'
<1>1. /\ pc[r] \in Fields /\ UNCHANGED <<users, dirty, op>>
      /\ pc' = [pc EXCEPT ![r] = IF pc[r] = "email" THEN "username" ELSE "commit"]
  BY DEF EnterIndex, Entering, Goto
<1>2. /\ TableInv' /\ Table!TypeInvariant'
      /\ \A s \in Requests \ {r} : entered'[s] = entered[s]
      /\ \A i \in UserIds : Table!Holds(r, i) => Key(pc[r], dirty[r][i]) \in entered'[r]
      /\ entered[r] \subseteq entered'[r]
  BY EnterKeeps DEF IndInv, EnterIndex
<1>3. /\ pc'[r] = IF pc[r] = "email" THEN "username" ELSE "commit"
      /\ \A s \in Requests \ {r} : pc'[s] = pc[s]
  BY <1>1 DEF IndInv, TypeOK
<1>4. Passed(r)' = Passed(r) \cup {pc[r]}
  BY <1>1, <1>3 DEF Passed, Fields
<1>5. \A i \in UserIds : \A f \in Passed(r)' : Table!Holds(r, i)' => Covered(r, i, f)'
  <2> SUFFICES ASSUME NEW i \in UserIds, NEW f \in Passed(r)', Table!Holds(r, i)
               PROVE  Covered(r, i, f)'
    BY <1>1 DEF Table!Holds
  <2>1. CASE f = pc[r]
    BY <1>1, <1>2, <2>1 DEF Covered, Key
  <2>2. CASE f \in Passed(r)
    <3>1. Covered(r, i, f)
      BY <2>2 DEF IndInv, ControlInv, WritesCovered
    <3> QED BY <1>1, <1>2, <3>1 DEF Covered, Key
  <2> QED BY <1>4, <2>1, <2>2
<1>6. pc'[r] \in {"username", "commit"} /\ op'[r] \in Operation
  BY <1>1, <1>3 DEF IndInv, ControlInv, OpFits, Fields
<1>7. ControlInv'
  BY <1>1, <1>2, <1>3, <1>5, <1>6, ControlFrame DEF IndInv
<1> QED BY <1>2, <1>7

\* The types besides those of the table.
RequestTypes ==
    /\ op \in [Requests -> Operation \cup {NoOp}]
    /\ pc \in [Requests -> Fields \cup {"idle", "exists", "write", "insert", "select",
                                        "commit", "done"}]
    /\ creds \in [Requests -> Credentials \cup {Nobody, None}]
    /\ status \in [Requests -> Statuses]

LEMMA AbortStep ==
    ASSUME IndInv, NEW r \in Requests, pc[r] # "idle", NEW a \in Statuses, Abort(r, a)
    PROVE  IndInv'
<1>1. /\ Table!AbortTx(r) /\ pc' = [pc EXCEPT ![r] = "done"]
      /\ status' = [status EXCEPT ![r] = a] /\ UNCHANGED <<op, creds>>
  BY DEF Abort, Answer, Goto
<1>2. ControlInv' /\ TableInv' /\ Table!TypeInvariant'
  BY <1>1, EndStep
<1>3. RequestTypes'
  BY <1>1 DEF IndInv, TypeOK, RequestTypes
<1> QED BY <1>2, <1>3 DEF IndInv, TypeOK, RequestTypes

LEMMA StepInv == ASSUME IndInv, [Next]_vars PROVE IndInv'
<1>1. ASSUME UNCHANGED vars PROVE IndInv'
  BY <1>1 DEF vars, IndInv, TypeOK, Table!TypeInvariant, TableInv, OneWriter, OneRow, OneOwner,
              EntryOfRow, NamesDistinct, Key, Table!Holds, ControlInv, OpFits, FoundRow,
              IdleHoldsNothing, HoldsNothing, WritesCovered, Passed, Covered
<1>2. SUFFICES ASSUME NEW r \in Requests,
                      Receive(r) \/ RefuseEmpty(r) \/ Works(r) \/ Faults(r)
               PROVE  IndInv'
  BY <1>1 DEF Next, Terminated
<1>3. ASSUME ControlInv' /\ TableInv' /\ Table!TypeInvariant', RequestTypes'
      PROVE  IndInv'
  BY <1>3 DEF IndInv, TypeOK, RequestTypes
<1>4. ASSUME UNCHANGED <<users, dirty, entered>> PROVE Table!TypeInvariant'
  BY <1>4 DEF IndInv, TypeOK, Table!TypeInvariant
<1>5. op[r] \in Operation \/ pc[r] = "idle"
  BY DEF IndInv, ControlInv, OpFits
<1>6. CASE Receive(r)
  <2>1. PICK o \in Ops : /\ op' = [op EXCEPT ![r] = o]
                         /\ pc' = [pc EXCEPT ![r] = FirstStatement(o)]
    BY <1>6 DEF Receive, Goto
  <2>2. o \in Operation
    BY OpsAssumption
  <2>3. \/ o \in UpdateOp \cup DeleteOp /\ FirstStatement(o) = "exists"
        \/ o \in CreateOp \cup RegisterOp /\ FirstStatement(o) = "insert"
        \/ FirstStatement(o) = "select"
    BY <2>2, OperationShape DEF FirstStatement
  <2>4. pc[r] = "idle" /\ UNCHANGED <<users, dirty, entered, creds, status>>
    BY <1>6 DEF Receive
  <2>5. /\ pc'[r] = FirstStatement(o) /\ op'[r] = o
        /\ \A s \in Requests \ {r} : pc'[s] = pc[s] /\ op'[s] = op[s]
    BY <2>1 DEF IndInv, TypeOK
  <2>6. HoldsNothing(r)
    BY <2>4 DEF IndInv, ControlInv, IdleHoldsNothing
  <2>7. ControlInv' /\ TableInv'
    BY <2>2, <2>3, <2>4, <2>5, <2>6, QuietStep
  <2>8. RequestTypes'
    BY <2>1, <2>2, <2>3, <2>4 DEF IndInv, TypeOK, RequestTypes
  <2> QED BY <1>3, <1>4, <2>4, <2>7, <2>8
<1>7. CASE RefuseEmpty(r)
  <2>1. PICK o \in Ops : op' = [op EXCEPT ![r] = o]
    BY <1>7 DEF RefuseEmpty
  <2>2. /\ pc[r] = "idle" /\ UNCHANGED <<users, dirty, entered, creds>>
        /\ pc' = [pc EXCEPT ![r] = "done"] /\ status' = [status EXCEPT ![r] = "BAD_REQUEST"]
        /\ o \in Operation
    BY <1>7, OpsAssumption DEF RefuseEmpty, Answer, Goto
  <2>3. /\ pc'[r] = "done" /\ op'[r] = o
        /\ \A s \in Requests \ {r} : pc'[s] = pc[s] /\ op'[s] = op[s]
    BY <2>1, <2>2 DEF IndInv, TypeOK
  <2>4. HoldsNothing(r)
    BY <2>2 DEF IndInv, ControlInv, IdleHoldsNothing
  <2>5. ControlInv' /\ TableInv'
    BY <2>2, <2>3, <2>4, QuietStep
  <2>6. RequestTypes'
    BY <2>1, <2>2 DEF IndInv, TypeOK, RequestTypes, Statuses
  <2> QED BY <1>3, <1>4, <2>2, <2>5, <2>6
<1>8. CASE Found(r)
  <2>1. /\ pc[r] = "exists" /\ Live(users, op[r].id) /\ pc' = [pc EXCEPT ![r] = "write"]
        /\ UNCHANGED <<users, dirty, entered, op, creds, status>>
    BY <1>8 DEF Found, Goto
  <2>2. pc'[r] = "write" /\ \A s \in Requests \ {r} : pc'[s] = pc[s]
    BY <2>1 DEF IndInv, TypeOK
  <2>3. HoldsNothing(r) /\ op[r] \in UpdateOp \cup DeleteOp /\ op[r] \in Operation
    BY <2>1 DEF IndInv, ControlInv, IdleHoldsNothing, OpFits
  <2>4. ControlInv' /\ TableInv'
    BY <2>1, <2>2, <2>3, QuietStep DEF Live
  <2>5. RequestTypes'
    BY <2>1 DEF IndInv, TypeOK, RequestTypes
  <2> QED BY <1>3, <1>4, <2>1, <2>4, <2>5
<1>9. CASE ReadCredentials(r)
  <2>1. /\ pc[r] = "select" /\ pc' = [pc EXCEPT ![r] = "commit"]
        /\ UNCHANGED <<users, dirty, entered, op, status>>
        /\ \/ \E i \in UserIds :
                  /\ MayLogIn(users, i, op[r].username)
                  /\ creds' = [creds EXCEPT ![r] = [id |-> i, password |-> users[i].password]]
           \/ creds' = [creds EXCEPT ![r] = Nobody]
    BY <1>9 DEF ReadCredentials, Goto
  <2>2. \A i \in UserIds : MayLogIn(users, i, op[r].username)
                           => [id |-> i, password |-> users[i].password] \in Credentials
    <3> SUFFICES ASSUME NEW i \in UserIds, MayLogIn(users, i, op[r].username)
                 PROVE  users[i].password \in Passwords
      BY DEF Credentials
    <3> QED BY DEF MayLogIn, Live, IndInv, TypeOK, Table!TypeInvariant, User
  <2>3. pc'[r] = "commit" /\ \A s \in Requests \ {r} : pc'[s] = pc[s]
    BY <2>1 DEF IndInv, TypeOK
  <2>4. HoldsNothing(r) /\ op[r] \in Operation
    BY <2>1 DEF IndInv, ControlInv, IdleHoldsNothing, OpFits
  <2>5. ControlInv' /\ TableInv'
    BY <2>1, <2>3, <2>4, QuietStep
  <2>6. RequestTypes'
    <3>1. PICK c \in Credentials \cup {Nobody} : creds' = [creds EXCEPT ![r] = c]
      BY <2>1, <2>2
    <3> QED BY <2>1, <3>1 DEF IndInv, TypeOK, RequestTypes
  <2> QED BY <1>3, <1>4, <2>1, <2>5, <2>6
<1>10. CASE DeleteRow(r) \/ UpdateRow(r)
  <2>1. /\ pc[r] = "write" /\ Table!Writers(op[r].id) = {}
        /\ UNCHANGED <<users, entered, op, creds, status>>
        /\ op[r] \in Operation /\ op[r] \in UpdateOp \cup DeleteOp
        /\ op[r].id \in UserIds /\ users[op[r].id] \in User
    <3>1. /\ pc[r] = "write" /\ Table!Writers(op[r].id) = {}
          /\ UNCHANGED <<users, entered, op, creds, status>>
      BY <1>10 DEF DeleteRow, UpdateRow
    <3>2. op[r] \in Operation /\ op[r] \in UpdateOp \cup DeleteOp
      BY <3>1 DEF IndInv, ControlInv, OpFits
    <3>3. op[r].id \in UserIds
      BY <3>2, OperationShape
    <3> QED BY <3>1, <3>2, <3>3 DEF IndInv, ControlInv, FoundRow, TypeOK, Table!TypeInvariant
  <2>2. users[op[r].id] # Absent
    BY <2>1, MarkerAssumption
  <2>3. CASE DeleteRow(r)
    <3>1. /\ Deleted(users[op[r].id]) \in User
          /\ Deleted(users[op[r].id]).names = users[op[r].id].names
      BY <2>1, DeletedType
    <3>2. /\ Table!Write(r, op[r].id, Deleted(users[op[r].id]))
          /\ pc' = [pc EXCEPT ![r] = "commit"]
      BY <2>3 DEF DeleteRow, Goto
    <3>3. ControlInv' /\ TableInv' /\ Table!TypeInvariant'
      BY <2>1, <2>2, <3>1, <3>2, WriteStep
    <3>4. RequestTypes'
      BY <2>1, <3>2 DEF IndInv, TypeOK, RequestTypes
    <3> QED BY <1>3, <3>3, <3>4
  <2>4. CASE UpdateRow(r)
    <3>1. /\ Storable(op[r].patch) /\ op[r].kind = "update"
          /\ Table!Write(r, op[r].id, Patched(users[op[r].id], op[r].patch))
          /\ pc' = [pc EXCEPT ![r] = "email"]
      BY <2>4 DEF UpdateRow, Goto
    <3>2. Patched(users[op[r].id], op[r].patch) \in User
      BY <2>1, <3>1, OperationShape, PatchedType
    <3>3. ControlInv' /\ TableInv' /\ Table!TypeInvariant'
      BY <2>1, <3>1, <3>2, WriteStep
    <3>4. RequestTypes'
      BY <2>1, <3>1 DEF IndInv, TypeOK, RequestTypes, Fields
    <3> QED BY <1>3, <3>3, <3>4
  <2> QED BY <1>10, <2>3, <2>4
<1>11. CASE InsertUser(r)
  <2>1. /\ pc[r] = "insert" /\ pc' = [pc EXCEPT ![r] = "email"]
        /\ UNCHANGED <<users, entered, op, creds, status>>
    BY <1>11 DEF InsertUser, Goto
  <2>2. PICK i \in UserIds : Table!Writers(i) = {} /\ Table!Write(r, i, NewUser(op[r]))
    BY <1>11 DEF InsertUser, Table!FreeIds
  <2>3. NewUser(op[r]) \in User
    BY <2>1, NewUserType DEF IndInv, ControlInv, OpFits
  <2>4. ControlInv' /\ TableInv' /\ Table!TypeInvariant'
    BY <2>1, <2>2, <2>3, WriteStep
  <2>5. RequestTypes'
    BY <2>1 DEF IndInv, TypeOK, RequestTypes, Fields
  <2> QED BY <1>3, <2>4, <2>5
<1>12. CASE EnterIndex(r)
  <2>1. ControlInv' /\ TableInv' /\ Table!TypeInvariant'
    BY <1>12, EnterStep
  <2>2. RequestTypes'
    BY <1>12 DEF EnterIndex, Goto, IndInv, TypeOK, RequestTypes, Fields
  <2> QED BY <1>3, <2>1, <2>2
<1>13. CASE NotFound(r) \/ RejectPatch(r) \/ Duplicate(r) \/ StatementLost(r) \/ DeadlockVictim(r)
  <2>1. pc[r] # "idle"
    BY <1>13, DeadlockWaits
       DEF NotFound, RejectPatch, Duplicate, Entering, StatementLost, DeadlockVictim, Fields
  <2>2. PICK a \in Statuses : Abort(r, a)
    BY <1>13 DEF NotFound, RejectPatch, Duplicate, StatementLost, DeadlockVictim, Fail, Statuses
  <2> QED BY <2>1, <2>2, AbortStep
<1>14. CASE Commit(r) \/ CommitLost(r)
  <2>1. pc[r] = "commit" /\ (Table!CommitTx(r) \/ Table!AbortTx(r)) /\ UNCHANGED <<op, creds>>
    BY <1>14 DEF Commit, CommitLost
  <2>2. PICK a \in Statuses : Answer(r, a)
    BY <1>5, <1>14, <2>1, SuccessType DEF Commit, CommitLost, Statuses
  <2>3. pc' = [pc EXCEPT ![r] = "done"] /\ status' = [status EXCEPT ![r] = a]
    BY <2>2 DEF Answer, Goto
  <2>4. ControlInv' /\ TableInv' /\ Table!TypeInvariant'
    BY <2>1, <2>3, EndStep
  <2>5. RequestTypes'
    BY <2>1, <2>3 DEF IndInv, TypeOK, RequestTypes
  <2> QED BY <1>3, <2>4, <2>5
<1> QED BY <1>2, <1>6, <1>7, <1>8, <1>9, <1>10, <1>11, <1>12, <1>13, <1>14 DEF Works, Faults

LEMMA Invariance == Spec => []IndInv
<1>1. Init => IndInv
  BY InitInv
<1>2. IndInv /\ [Next]_vars => IndInv'
  BY StepInv
<1> QED BY <1>1, <1>2, PTL DEF Spec

-----------------------------------------------------------------------------

\* Whatever the requests ask and however they overlap, what is stored is an
\* account with both names, and credentials are only read of one with a hash.
THEOREM TypeCorrect == Spec => []TypeOK
BY Invariance, PTL DEF IndInv

\* For any number of concurrent requests, with failures at any point, no
\* email and no username belongs to two accounts, deleted ones included.
THEOREM NamesStayDistinct == Spec => []NamesDistinct
<1>1. IndInv => NamesDistinct
  BY DEF IndInv, TableInv
<1> QED BY <1>1, Invariance, PTL

-----------------------------------------------------------------------------
(* What an open transaction has written is what its request asked for.  It *)
(* is the invariant, on top of IndInv, that the contract needs.            *)

\* r holds the row i and no other.
HoldsOnly(r, i) == \A j \in UserIds : Table!Holds(r, j) <=> j = i

\* Its row is written.
HasWritten(r) == pc[r] \in Fields \cup {"commit"}

UpdateWrote(r) ==
    HasWritten(r) /\ op[r] \in UpdateOp =>
        /\ HoldsOnly(r, op[r].id) /\ users[op[r].id] # Absent
        /\ dirty[r][op[r].id] = Patched(users[op[r].id], op[r].patch)

DeleteWrote(r) ==
    HasWritten(r) /\ op[r] \in DeleteOp =>
        /\ HoldsOnly(r, op[r].id) /\ users[op[r].id] # Absent
        /\ dirty[r][op[r].id] = Deleted(users[op[r].id])

CreateWrote(r) ==
    HasWritten(r) /\ op[r] \in CreateOp \cup RegisterOp =>
        \E i \in UserIds :
            /\ HoldsOnly(r, i) /\ users[i] = Absent
            /\ dirty[r][i] = NewUser(op[r])

\* A login writes nothing, and reads once.
LoginRead(r) ==
    op[r] \in LoginOp =>
        /\ pc[r] \in {"select", "commit", "done"}
        /\ pc[r] = "select" => creds[r] = None
        /\ pc[r] = "commit" => HoldsNothing(r) /\ creds[r] # None

\* The indexes r has entries in are those it has passed.
EnteredPassed(r) ==
    /\ \A e \in entered[r] : e[1] \in Passed(r)
    /\ pc[r] = "select" => op[r] \in LoginOp

\* A request has an operation from its receipt and an answer at its end.
Progress(r) == /\ pc[r] = "idle" => op[r] = NoOp /\ creds[r] = None
               /\ pc[r] # "done" => status[r] = "none"

Wrote(r) == /\ UpdateWrote(r) /\ DeleteWrote(r) /\ CreateWrote(r) /\ LoginRead(r)
            /\ EnteredPassed(r) /\ Progress(r)

EffectInv == \A r \in Requests : Wrote(r)

\* A step of r leaves the others where they are, with what they hold.
LEMMA OthersFrame ==
    ASSUME IndInv, NEW r \in Requests, NEW s \in Requests \ {r},
           Receive(r) \/ RefuseEmpty(r) \/ Works(r) \/ Faults(r)
    PROVE  /\ pc'[s] = pc[s] /\ op'[s] = op[s] /\ creds'[s] = creds[s] /\ status'[s] = status[s]
           /\ dirty'[s] = dirty[s] /\ entered'[s] = entered[s]
           /\ \A i \in UserIds : Table!Holds(s, i) => users'[i] = users[i]
<1> USE DEF IndInv
<1>1. ASSUME NEW a, Answer(r, a) PROVE pc'[s] = pc[s] /\ status'[s] = status[s]
  BY <1>1 DEF Answer, Goto, TypeOK
<1>2. ASSUME NEW l, Goto(r, l) PROVE pc'[s] = pc[s]
  BY <1>2 DEF Goto, TypeOK
<1>3. ASSUME Table!CommitTx(r) \/ Table!AbortTx(r)
      PROVE  /\ dirty'[s] = dirty[s] /\ entered'[s] = entered[s]
             /\ \A i \in UserIds : Table!Holds(s, i) => users'[i] = users[i]
  <2>1. dirty'[s] = dirty[s] /\ entered'[s] = entered[s]
    BY <1>3, ReleaseEffect DEF Table!CommitTx, Table!AbortTx
  <2>2. ASSUME NEW i \in UserIds, Table!Holds(s, i) PROVE users'[i] = users[i]
    <3>1. ~Table!Holds(r, i)
      BY <2>2 DEF TableInv, OneWriter
    <3> QED BY <1>3, <3>1 DEF Table!CommitTx, Table!AbortTx, TypeOK, Table!TypeInvariant
  <2> QED BY <2>1, <2>2
<1>4. ASSUME NEW a, Abort(r, a)
      PROVE  /\ pc'[s] = pc[s] /\ op'[s] = op[s] /\ creds'[s] = creds[s]
             /\ status'[s] = status[s] /\ dirty'[s] = dirty[s] /\ entered'[s] = entered[s]
             /\ \A i \in UserIds : Table!Holds(s, i) => users'[i] = users[i]
  BY <1>1, <1>3, <1>4 DEF Abort
<1>5. CASE Receive(r) \/ RefuseEmpty(r) \/ Found(r)
  BY <1>1, <1>2, <1>5 DEF Receive, RefuseEmpty, Found, TypeOK
<1>6. CASE NotFound(r) \/ RejectPatch(r) \/ Duplicate(r) \/ DeadlockVictim(r) \/ StatementLost(r)
  BY <1>4, <1>6 DEF NotFound, RejectPatch, Duplicate, DeadlockVictim, StatementLost, Fail
<1>7. CASE DeleteRow(r) \/ UpdateRow(r) \/ InsertUser(r)
  <2>1. PICK i, user : Table!Write(r, i, user)
    BY <1>7 DEF DeleteRow, UpdateRow, InsertUser
  <2>2. dirty'[s] = dirty[s]
    BY <2>1 DEF Table!Write, TypeOK, Table!TypeInvariant
  <2> QED BY <1>2, <1>7, <2>2 DEF DeleteRow, UpdateRow, InsertUser
<1>8. CASE EnterIndex(r)
  BY <1>2, <1>8 DEF EnterIndex, Table!Enter, TypeOK, Table!TypeInvariant
<1>9. CASE ReadCredentials(r)
  BY <1>2, <1>9 DEF ReadCredentials, TypeOK
<1>10. CASE Commit(r) \/ CommitLost(r)
  BY <1>1, <1>3, <1>10 DEF Commit, CommitLost
<1> QED BY <1>5, <1>6, <1>7, <1>8, <1>9, <1>10 DEF Works, Faults

\* So what the others have written still is what they were asked.
LEMMA OthersWrote ==
    ASSUME IndInv, NEW r \in Requests, NEW s \in Requests \ {r}, Wrote(s),
           Receive(r) \/ RefuseEmpty(r) \/ Works(r) \/ Faults(r)
    PROVE  Wrote(s)'
<1>1. /\ pc'[s] = pc[s] /\ op'[s] = op[s] /\ creds'[s] = creds[s] /\ status'[s] = status[s]
      /\ dirty'[s] = dirty[s] /\ entered'[s] = entered[s]
      /\ \A i \in UserIds : Table!Holds(s, i) => users'[i] = users[i]
  BY OthersFrame
<1>2. op[s] \in UpdateOp \cup DeleteOp => op[s].id \in UserIds
  BY DEF UpdateOp, DeleteOp
<1>3. UpdateWrote(s)' /\ DeleteWrote(s)'
  BY <1>1, <1>2 DEF Wrote, UpdateWrote, DeleteWrote, HasWritten, HoldsOnly, Table!Holds
<1>4. CreateWrote(s)'
  BY <1>1 DEF Wrote, CreateWrote, HasWritten, HoldsOnly, Table!Holds
<1>5. LoginRead(s)' /\ EnteredPassed(s)' /\ Progress(s)'
  BY <1>1 DEF Wrote, LoginRead, EnteredPassed, Passed, Progress, HoldsNothing, Table!Holds
<1> QED BY <1>3, <1>4, <1>5 DEF Wrote

\* The operation of a request is of one kind.
LEMMA OneKind ==
    ASSUME NEW o \in Operation
    PROVE  /\ o \in UpdateOp => o \notin CreateOp \cup RegisterOp \cup DeleteOp \cup LoginOp
           /\ o \in DeleteOp => o \notin CreateOp \cup RegisterOp \cup LoginOp
           /\ o \in CreateOp \cup RegisterOp => o \notin LoginOp
BY OperationShape

\* What r has written after its own step is what it was asked.
LEMMA OwnWrote ==
    ASSUME IndInv, IndInv', NEW r \in Requests, Wrote(r),
           Receive(r) \/ RefuseEmpty(r) \/ Works(r) \/ Faults(r)
    PROVE  Wrote(r)'
<1> USE DEF IndInv
<1>0. pc[r] # "idle" => op[r] \in Operation
  BY DEF ControlInv, OpFits
<1>1. ASSUME pc'[r] = "done" PROVE Wrote(r)'
  <2>1. HoldsNothing(r)'
    BY <1>1 DEF ControlInv, IdleHoldsNothing
  <2> QED BY <1>1, <2>1
          DEF Wrote, UpdateWrote, DeleteWrote, CreateWrote, HasWritten, LoginRead, EnteredPassed,
              Progress, HoldsNothing, Fields
<1>2. ASSUME NEW a, Answer(r, a) PROVE pc'[r] = "done"
  BY <1>2 DEF Answer, Goto, TypeOK
<1>3. CASE \/ RefuseEmpty(r) \/ NotFound(r) \/ RejectPatch(r) \/ Duplicate(r)
           \/ DeadlockVictim(r) \/ StatementLost(r) \/ Commit(r) \/ CommitLost(r)
  BY <1>1, <1>2, <1>3
     DEF RefuseEmpty, NotFound, RejectPatch, Duplicate, DeadlockVictim, StatementLost,
         Commit, CommitLost, Abort, Fail
<1>4. CASE Receive(r)
  <2>1. PICK o \in Ops : /\ op' = [op EXCEPT ![r] = o]
                         /\ pc' = [pc EXCEPT ![r] = FirstStatement(o)]
    BY <1>4 DEF Receive, Goto
  <2>2. /\ o \in Operation /\ op'[r] = o /\ pc'[r] = FirstStatement(o)
        /\ UNCHANGED <<users, dirty, entered, creds, status>> /\ pc[r] = "idle"
    BY <1>4, <2>1, OpsAssumption DEF Receive, TypeOK
  <2>3. HoldsNothing(r) /\ status[r] = "none" /\ creds[r] = None
    BY <2>2 DEF ControlInv, IdleHoldsNothing, Wrote, Progress
  <2>4. /\ pc'[r] \in {"exists", "insert", "select"}
        /\ pc'[r] = "select" <=> o \in LoginOp
    BY <2>2, OperationShape DEF FirstStatement
  <2> QED BY <2>2, <2>3, <2>4
          DEF Wrote, UpdateWrote, DeleteWrote, CreateWrote, HasWritten, LoginRead, EnteredPassed,
              Progress, HoldsNothing, Fields
<1>5. CASE Found(r)
  <2>1. /\ pc'[r] = "write" /\ UNCHANGED <<op, status, entered>> /\ op[r] \in UpdateOp \cup DeleteOp
        /\ pc[r] = "exists" /\ HoldsNothing(r)
    BY <1>5 DEF Found, Goto, TypeOK, ControlInv, OpFits, IdleHoldsNothing
  <2> QED BY <1>0, <2>1, OneKind
          DEF Wrote, UpdateWrote, DeleteWrote, CreateWrote, HasWritten, LoginRead, EnteredPassed,
              Progress, HoldsNothing, Fields
<1>6. ASSUME NEW i \in UserIds, NEW user \in User, Table!Write(r, i, user), HoldsNothing(r),
             UNCHANGED <<users, entered, op, status>>,
             pc'[r] \in {"email", "commit"}, pc[r] # "idle", pc[r] # "done",
             op[r] \notin LoginOp,
             op[r] \in UpdateOp =>
                 i = op[r].id /\ users[i] # Absent /\ user = Patched(users[i], op[r].patch),
             op[r] \in DeleteOp =>
                 i = op[r].id /\ users[i] # Absent /\ user = Deleted(users[i]),
             op[r] \in CreateOp \cup RegisterOp => users[i] = Absent /\ user = NewUser(op[r])
      PROVE  Wrote(r)'
  <2>1. dirty'[r][i] = user /\ user # Absent /\ \A j \in UserIds \ {i} : dirty'[r][j] = Absent
    BY <1>6, MarkerAssumption
       DEF Table!Write, HoldsNothing, Table!Holds, TypeOK, Table!TypeInvariant
  <2>2. HoldsOnly(r, i)'
    BY <2>1 DEF HoldsOnly, Table!Holds
  <2>3. UpdateWrote(r)'
    BY <1>6, <2>1, <2>2 DEF UpdateWrote, HoldsOnly, Table!Holds
  <2>4. DeleteWrote(r)'
    BY <1>6, <2>1, <2>2 DEF DeleteWrote, HoldsOnly, Table!Holds
  <2>5. CreateWrote(r)'
    BY <1>6, <2>1, <2>2 DEF CreateWrote, HoldsOnly, Table!Holds
  <2>6. LoginRead(r)' /\ EnteredPassed(r)' /\ Progress(r)'
    BY <1>6 DEF LoginRead, EnteredPassed, Progress, HoldsNothing, Wrote
  <2> QED BY <2>3, <2>4, <2>5, <2>6 DEF Wrote
<1>7. CASE DeleteRow(r) \/ UpdateRow(r)
  <2>1. /\ op[r] \in Operation /\ op[r].id \in UserIds /\ HoldsNothing(r)
        /\ op[r] \in UpdateOp \cup DeleteOp
        /\ pc[r] = "write" /\ UNCHANGED <<users, entered, op, status>>
    BY <1>7, OperationShape DEF DeleteRow, UpdateRow, ControlInv, OpFits, IdleHoldsNothing
  <2>2. users[op[r].id] \in User /\ users[op[r].id] # Absent
    BY <2>1 DEF ControlInv, FoundRow, TypeOK, Table!TypeInvariant
  <2>3. CASE DeleteRow(r)
    <3>1. op[r] \in DeleteOp /\ pc'[r] = "commit"
      BY <2>1, <2>3, OperationShape DEF DeleteRow, Goto, TypeOK
    <3>2. Deleted(users[op[r].id]) \in User
      BY <2>2, DeletedType
    <3> QED BY <1>6, <2>1, <2>2, <2>3, <3>1, <3>2, OneKind DEF DeleteRow
  <2>4. CASE UpdateRow(r)
    <3>1. op[r] \in UpdateOp /\ pc'[r] = "email" /\ Storable(op[r].patch)
      BY <2>1, <2>4, OperationShape DEF UpdateRow, Goto, TypeOK
    <3>2. Patched(users[op[r].id], op[r].patch) \in User
      BY <2>1, <2>2, <3>1, OperationShape, PatchedType
    <3> QED BY <1>6, <2>1, <2>2, <2>4, <3>1, <3>2, OneKind DEF UpdateRow
  <2> QED BY <1>7, <2>3, <2>4
<1>8. CASE InsertUser(r)
  <2>1. /\ op[r] \in CreateOp \cup RegisterOp /\ op[r] \in Operation /\ HoldsNothing(r)
        /\ pc[r] = "insert" /\ pc'[r] = "email" /\ UNCHANGED <<users, entered, op, status>>
    BY <1>8 DEF InsertUser, Goto, TypeOK, ControlInv, OpFits, IdleHoldsNothing
  <2>2. PICK i \in UserIds : users[i] = Absent /\ Table!Write(r, i, NewUser(op[r]))
    BY <1>8 DEF InsertUser, Table!FreeIds
  <2> QED BY <1>6, <2>1, <2>2, OneKind, NewUserType
<1>9. CASE EnterIndex(r)
  <2>1. /\ pc[r] \in Fields /\ UNCHANGED <<users, dirty, op, status>>
        /\ pc'[r] = IF pc[r] = "email" THEN "username" ELSE "commit"
        /\ entered'[r] = entered[r] \cup NewEntry(r)
    BY <1>9 DEF EnterIndex, Entering, Goto, Table!Enter, TypeOK, Table!TypeInvariant
  <2>2. op[r] \notin LoginOp
    BY <2>1 DEF Wrote, LoginRead, Fields
  <2>3. Passed(r)' = Passed(r) \cup {pc[r]}
    BY <2>1 DEF Passed, Fields
  <2>4. EnteredPassed(r)'
    BY <2>1, <2>3 DEF Wrote, EnteredPassed, NewEntry
  <2>5. UpdateWrote(r)' /\ DeleteWrote(r)' /\ CreateWrote(r)'
    BY <2>1 DEF Wrote, UpdateWrote, DeleteWrote, CreateWrote, HasWritten, HoldsOnly, Table!Holds
  <2>6. LoginRead(r)' /\ Progress(r)'
    BY <2>1, <2>2 DEF LoginRead, Progress, Wrote, Fields
  <2> QED BY <2>4, <2>5, <2>6 DEF Wrote
<1>10. CASE ReadCredentials(r)
  <2>1. /\ pc[r] = "select" /\ pc'[r] = "commit" /\ UNCHANGED <<users, dirty, entered, op, status>>
        /\ op[r] \in LoginOp /\ op[r] \in Operation /\ HoldsNothing(r)
    BY <1>10
       DEF ReadCredentials, Goto, TypeOK, Wrote, EnteredPassed, ControlInv, OpFits, IdleHoldsNothing
  <2>2. creds'[r] # None
    BY <1>10, <2>1, MarkerAssumption
       DEF ReadCredentials, MayLogIn, Live, Credentials, User, TypeOK, Table!TypeInvariant
  <2> QED BY <2>1, <2>2, OneKind
          DEF Wrote, UpdateWrote, DeleteWrote, CreateWrote, HasWritten, LoginRead, EnteredPassed,
              Progress, HoldsNothing, Table!Holds
<1> QED BY <1>3, <1>4, <1>5, <1>7, <1>8, <1>9, <1>10 DEF Works, Faults

LEMMA StepEffect == ASSUME IndInv, IndInv', EffectInv, [Next]_vars PROVE EffectInv'
<1>1. ASSUME UNCHANGED vars PROVE EffectInv'
  <2> SUFFICES ASSUME NEW s \in Requests PROVE Wrote(s)'
    BY DEF EffectInv
  <2>1. Wrote(s)
    BY DEF EffectInv
  <2> QED
    BY <1>1, <2>1
       DEF vars, Wrote, UpdateWrote, DeleteWrote, CreateWrote, HasWritten, LoginRead,
           EnteredPassed, Passed, Progress, HoldsOnly, HoldsNothing, Table!Holds
<1>2. ASSUME NEW r \in Requests, Receive(r) \/ RefuseEmpty(r) \/ Works(r) \/ Faults(r)
      PROVE  EffectInv'
  BY <1>2, OwnWrote, OthersWrote DEF EffectInv
<1> QED BY <1>1, <1>2 DEF Next, Terminated

LEMMA EffectInvariance == Spec => []EffectInv
<1>1. Init => EffectInv
  BY MarkerAssumption
     DEF Init, EffectInv, Wrote, UpdateWrote, DeleteWrote, CreateWrote, HasWritten, LoginRead,
         EnteredPassed, Progress, Fields, Operation
<1> QED BY <1>1, StepEffect, Invariance, PTL DEF Spec

-----------------------------------------------------------------------------
(* The contract: each answer is one step of Accounts. *)

\* What the transaction of r would make of the table.
Outcome(r) == [i \in UserIds |-> IF Table!Holds(r, i) THEN dirty[r][i] ELSE users[i]]

\* The contract speaks of the same accounts, operations and answers.
LEMMA ContractTerms ==
    /\ Contract!User = User /\ Contract!Statuses = Statuses /\ Contract!Fields = Fields
    /\ Contract!UpdateOp = UpdateOp /\ Contract!DeleteOp = DeleteOp
    /\ Contract!LoginOp = LoginOp
    /\ \A table : Contract!DistinctNames(table) <=> DistinctNames(table)
    /\ \A table, i : Contract!Live(table, i) <=> Live(table, i)
    /\ \A table, i, name : Contract!MayLogIn(table, i, name) <=> MayLogIn(table, i, name)
BY DEF Contract!User, User, Contract!Fields, Fields, Contract!Statuses, Statuses,
       Contract!UpdateOp, UpdateOp, Contract!DeleteOp, DeleteOp, Contract!LoginOp, LoginOp,
       Contract!DistinctNames, DistinctNames, Contract!Live, Live,
       Contract!MayLogIn, MayLogIn

\* The answer to an operation that went through.
LEMMA SuccessOf ==
    ASSUME NEW r \in Requests, op[r] \in Operation
    PROVE  /\ op[r] \in CreateOp \cup RegisterOp => Success(r) = "CREATED"
           /\ op[r] \in UpdateOp => Success(r) = "OK"
           /\ op[r] \in DeleteOp => Success(r) = "NO_CONTENT"
           /\ op[r] \in LoginOp =>
                  Success(r) = IF creds[r] # Nobody /\ creds[r].password = op[r].password
                               THEN "OK" ELSE "UNAUTHORIZED"
<1>1. CASE op[r].kind \in {"create", "register"}
  <2>1. Success(r) = "CREATED"
    BY <1>1 DEF Success
  <2> QED BY <1>1, <2>1, OperationShape
<1>2. CASE op[r].kind = "update"
  <2>1. Success(r) = "OK"
    BY <1>2 DEF Success
  <2> QED BY <1>2, <2>1, OperationShape
<1>3. CASE op[r].kind = "delete"
  <2>1. Success(r) = "NO_CONTENT"
    BY <1>3 DEF Success
  <2> QED BY <1>3, <2>1, OperationShape
<1>4. CASE op[r].kind = "login"
  <2>1. Success(r) = IF creds[r] # Nobody /\ creds[r].password = op[r].password
                     THEN "OK" ELSE "UNAUTHORIZED"
    BY <1>4 DEF Success
  <2> QED BY <1>4, <2>1, OperationShape
<1> QED BY <1>1, <1>2, <1>3, <1>4, OperationShape

\* What a patch changes of an account, and what it leaves.
LEMMA PatchedFields ==
    ASSUME NEW user \in User, NEW patch
    PROVE  /\ Patched(user, patch).password = user.password
           /\ Patched(user, patch).deleted = user.deleted
           /\ \A f \in Fields : Patched(user, patch).names[f] =
                  IF patch[f] = UNSET THEN user.names[f] ELSE patch[f]
BY DEF Patched, User

\* The commit of a transaction is the effect its operation promises; when the
\* operation is not a login, whatever credentials the contract is shown.
LEMMA CommitDoes ==
    ASSUME IndInv, EffectInv, NEW r \in Requests, pc[r] = "commit", DistinctNames(Outcome(r))
    PROVE  /\ Contract!Does(op[r], r \in Seen, creds[r], Success(r), Outcome(r))
           /\ op[r] \notin LoginOp =>
                  Contract!Does(op[r], r \in Seen, None, Success(r), Outcome(r))
           /\ op[r] \in LoginOp => Outcome(r) = users
<1>1. op[r] \in Operation /\ HasWritten(r) /\ Wrote(r) /\ op[r] # NoOp
  BY MarkerAssumption DEF IndInv, ControlInv, OpFits, EffectInv, HasWritten
<1>2. Outcome(r) \in [UserIds -> User \cup {Absent}]
  BY DEF Outcome, IndInv, TypeOK, Table!TypeInvariant
<1>3. users \in [UserIds -> User \cup {Absent}] /\ Absent \notin User
  BY MarkerAssumption DEF IndInv, TypeOK, Table!TypeInvariant
<1>4. /\ Contract!DistinctNames(Outcome(r)) /\ Contract!User = User
      /\ Contract!Fields = Fields
  BY ContractTerms
<1>5. ASSUME NEW i \in UserIds, HoldsOnly(r, i)
      PROVE  /\ Outcome(r)[i] = dirty[r][i] /\ Outcome(r)[i] \in User
             /\ Outcome(r) = [users EXCEPT ![i] = dirty[r][i]]
  BY <1>2, <1>3, <1>5 DEF Outcome, HoldsOnly, Table!Holds
<1>6. CASE op[r] \in CreateOp \cup RegisterOp
  <2>1. PICK i \in UserIds : /\ HoldsOnly(r, i) /\ users[i] = Absent
                             /\ dirty[r][i] = NewUser(op[r])
    BY <1>1, <1>6 DEF Wrote, CreateWrote
  <2>2. op[r].kind \in {"create", "register"} /\ op[r] \notin LoginOp
    BY <1>1, <1>6, OperationShape
  <2>3. Contract!Create(op[r], "CREATED", Outcome(r))
    BY <1>4, <1>5, <2>1 DEF Contract!Create, NewUser
  <2> QED BY <1>1, <1>6, <2>2, <2>3, SuccessOf DEF Contract!Does
<1>7. CASE op[r] \in UpdateOp
  <2>1. op[r].kind = "update" /\ op[r].id \in UserIds /\ r \in Seen /\ op[r] \notin LoginOp
    BY <1>1, <1>7, OperationShape DEF Seen
  <2>2. /\ HoldsOnly(r, op[r].id) /\ users[op[r].id] # Absent
        /\ dirty[r][op[r].id] = Patched(users[op[r].id], op[r].patch)
    BY <1>1, <1>7 DEF Wrote, UpdateWrote
  <2>3. /\ Outcome(r)[op[r].id] = dirty[r][op[r].id] /\ Outcome(r)[op[r].id] \in User
        /\ Outcome(r) = [users EXCEPT ![op[r].id] = dirty[r][op[r].id]]
        /\ users[op[r].id] \in User
    BY <1>3, <1>5, <2>1, <2>2
  <2>4. /\ Outcome(r)[op[r].id].password = users[op[r].id].password
        /\ Outcome(r)[op[r].id].deleted = users[op[r].id].deleted
        /\ \A f \in Fields :
               Outcome(r)[op[r].id].names[f] =
                   IF op[r].patch[f] = UNSET THEN users[op[r].id].names[f] ELSE op[r].patch[f]
    BY <2>2, <2>3, PatchedFields
  <2>5. Contract!Update(op[r], r \in Seen, "OK", Outcome(r))
    BY <1>4, <2>1, <2>3, <2>4 DEF Contract!Update
  <2> QED BY <1>1, <1>7, <2>1, <2>5, SuccessOf DEF Contract!Does
<1>8. CASE op[r] \in DeleteOp
  <2>1. op[r].kind = "delete" /\ op[r].id \in UserIds /\ r \in Seen /\ op[r] \notin LoginOp
    BY <1>1, <1>8, OperationShape DEF Seen
  <2>2. /\ HoldsOnly(r, op[r].id)
        /\ dirty[r][op[r].id] = Deleted(users[op[r].id])
    BY <1>1, <1>8 DEF Wrote, DeleteWrote
  <2>3. Outcome(r) = [users EXCEPT ![op[r].id] = Deleted(users[op[r].id])]
    BY <1>5, <2>1, <2>2
  <2>4. Outcome(r) = [users EXCEPT ![op[r].id].deleted = TRUE]
    BY <2>3 DEF Deleted
  <2>5. Contract!Delete(op[r], r \in Seen, "NO_CONTENT", Outcome(r))
    BY <2>1, <2>4 DEF Contract!Delete
  <2> QED BY <1>1, <1>8, <2>1, <2>5, SuccessOf DEF Contract!Does
<1>9. CASE op[r] \in LoginOp
  <2>1. op[r].kind = "login" /\ HoldsNothing(r) /\ creds[r] # None
    BY <1>1, <1>9, OperationShape DEF Wrote, LoginRead
  <2>2. Outcome(r) = users
    BY <1>3, <2>1 DEF Outcome, HoldsNothing
  <2>3. Contract!Login(op[r], creds[r], Success(r), Outcome(r))
    BY <1>1, <1>9, <2>1, <2>2, SuccessOf DEF Contract!Login
  <2> QED BY <1>9, <2>1, <2>2, <2>3 DEF Contract!Does
<1> QED BY <1>1, <1>6, <1>7, <1>8, <1>9 DEF Operation

\* The answer of a request ends its part in the contract.
LEMMA AnswerServes ==
    ASSUME IndInv, EffectInv, NEW r \in Requests, NEW a \in Statuses,
           Works(r) \/ Faults(r), Answer(r, a), UNCHANGED <<op, creds>>,
           pc[r] \notin {"idle", "done"},
           \/ Contract!Does(op[r], r \in Seen, creds[r], a, users')
           \/ Contract!Fails(op[r], r \in Seen, a, users')
    PROVE  Contract!Serve(r)
<1>1. op[r] # NoOp /\ status[r] = "none"
  BY MarkerAssumption DEF IndInv, ControlInv, OpFits, EffectInv, Wrote, Progress
<1>2. pc'[r] = "done" /\ status' = [status EXCEPT ![r] = a]
  BY DEF Answer, Goto, IndInv, TypeOK
<1>3. \A s \in Requests \ {r} : pc'[s] = pc[s]
  BY OthersFrame
<1>4. Seen' = Seen \ {r}
  BY <1>2, <1>3 DEF Seen, Fields
<1> QED BY <1>1, <1>2, <1>4, ContractTerms DEF Contract!Serve

\* A request that fails before its commit leaves the table as it was.
LEMMA FailureServes ==
    ASSUME IndInv, EffectInv, NEW r \in Requests, Works(r) \/ Faults(r),
           Fail(r), pc[r] \notin {"idle", "done"}
    PROVE  Contract!Serve(r)
<1>1. Contract!Fails(op[r], r \in Seen, "INTERNAL_SERVER_ERROR", users')
  BY DEF Fail, Abort, Table!AbortTx, Contract!Fails
<1> QED BY <1>1, AnswerServes DEF Fail, Abort, Statuses

\* A duplicate is a name of another row: the index it is found in is one the
\* request has not passed, so the entry is not its own.
LEMMA DuplicateServes ==
    ASSUME IndInv, EffectInv, NEW r \in Requests, Duplicate(r)
    PROVE  Contract!Serve(r)
<1>1. pc[r] \in Fields /\ pc[r] \notin {"idle", "done"} /\ op[r] \in Operation
  BY DEF Duplicate, Entering, Fields, IndInv, ControlInv, OpFits
<1>2. CASE op[r].kind = "update"
  BY <1>1, <1>2, FailureServes DEF Duplicate, Works
<1>3. CASE op[r].kind # "update"
  <2>1. Answer(r, "CONFLICT") /\ UNCHANGED <<users, op, creds>>
    BY <1>3 DEF Duplicate, Abort, Table!AbortTx
  <2>2. NewEntry(r) \cap entered[r] = {}
    <3>1. pc[r] \notin Passed(r)
      BY <1>1 DEF Passed, Fields
    <3> QED BY <3>1 DEF EffectInv, Wrote, EnteredPassed, NewEntry
  <2>3. PICK j \in UserIds : /\ ~Table!Holds(r, j)
                             /\ NewEntry(r) \cap Table!Entries(users[j]) # {}
    BY <2>2 DEF Duplicate, Table!Taken
  <2>4. users[j] # Absent /\ users[j] \in User
    BY <2>3 DEF Table!Entries, IndInv, TypeOK, Table!TypeInvariant
  <2>5. PICK e \in NewEntry(r) : e \in UserIndex[users[j]]
    BY <2>3, <2>4 DEF Table!Entries
  <2>6. PICK i \in UserIds : Table!Holds(r, i) /\ e \in UserIndex[dirty[r][i]]
    BY <2>5 DEF NewEntry
  <2>7. dirty[r][i] \in User /\ e[1] = pc[r]
    BY <2>5, <2>6 DEF Table!Holds, NewEntry, IndInv, TypeOK, Table!TypeInvariant
  <2>8. users[j].names[pc[r]] = dirty[r][i].names[pc[r]]
    <3>1. PICK f \in Fields : e = <<f, users[j].names[f]>>
      BY <2>4, <2>5 DEF UserIndex
    <3>2. PICK g \in Fields : e = <<g, dirty[r][i].names[g]>>
      BY <2>6, <2>7 DEF UserIndex
    <3> QED BY <2>7, <3>1, <3>2
  <2>9. op[r] \in CreateOp \cup RegisterOp /\ op[r].kind \in {"create", "register"}
    <3>1. op[r] \notin LoginOp
      BY <1>1 DEF EffectInv, Wrote, LoginRead, Fields
    <3>2. op[r] \notin DeleteOp
      <4> SUFFICES ASSUME op[r] \in DeleteOp PROVE FALSE
        OBVIOUS
      <4>1. /\ HoldsOnly(r, op[r].id) /\ users[op[r].id] # Absent
            /\ dirty[r][op[r].id] = Deleted(users[op[r].id]) /\ op[r].id \in UserIds
        BY <1>1, OperationShape DEF EffectInv, Wrote, DeleteWrote, HasWritten
      <4>2. users[i].names[pc[r]] = users[j].names[pc[r]] /\ i = op[r].id /\ i # j
        BY <2>3, <2>6, <2>8, <4>1, DeletedType
           DEF HoldsOnly, IndInv, TypeOK, Table!TypeInvariant
      <4> QED BY <1>1, <2>4, <4>1, <4>2 DEF IndInv, TableInv, NamesDistinct, DistinctNames
    <3> QED BY <1>1, <1>3, <3>1, <3>2, OperationShape
  <2>10. dirty[r][i] = NewUser(op[r])
    BY <1>1, <2>6, <2>9 DEF EffectInv, Wrote, CreateWrote, HasWritten, HoldsOnly
  <2>11. Contract!NameTaken(pc[r], op[r].names[pc[r]], {})
    BY <2>4, <2>8, <2>10 DEF Contract!NameTaken, NewUser
  <2>12. Contract!Create(op[r], "CONFLICT", users')
    BY <1>1, <2>1, <2>11, ContractTerms DEF Contract!Create
  <2>13. Contract!Does(op[r], r \in Seen, creds[r], "CONFLICT", users')
    BY <2>9, <2>12 DEF Contract!Does
  <2> QED BY <1>1, <2>1, <2>13, AnswerServes DEF Works, Statuses
<1> QED BY <1>2, <1>3

\* A commit has its effect at once, whether the client hears of it or not.
LEMMA CommitServes ==
    ASSUME IndInv, EffectInv, IndInv', NEW r \in Requests, Commit(r) \/ CommitLost(r)
    PROVE  Contract!Serve(r)
<1>1. op[r] \in Operation /\ pc[r] = "commit" /\ UNCHANGED <<op, creds>>
  BY DEF Commit, CommitLost, IndInv, ControlInv, OpFits
<1>2. ASSUME Table!CommitTx(r) PROVE users' = Outcome(r) /\ DistinctNames(Outcome(r))
  <2>1. users' = Outcome(r)
    BY <1>2 DEF Table!CommitTx, Outcome
  <2>2. DistinctNames(users')
    BY DEF IndInv, TableInv, NamesDistinct
  <2> QED BY <2>1, <2>2
<1>3. CASE Commit(r)
  <2>1. Contract!Does(op[r], r \in Seen, creds[r], Success(r), users')
    BY <1>1, <1>2, <1>3, CommitDoes DEF Commit
  <2> QED BY <1>1, <1>3, <2>1, AnswerServes, SuccessType DEF Commit, Works
<1>4. CASE CommitLost(r)
  <2>1. \/ users' = users
        \/ /\ op[r] \notin LoginOp
           /\ Contract!Does(op[r], r \in Seen, None, Success(r), users')
    BY <1>1, <1>2, <1>4, CommitDoes DEF CommitLost, Table!AbortTx
  <2>2. op[r] \notin LoginOp => Success(r) \in {"CREATED", "OK", "NO_CONTENT"}
    BY <1>1, SuccessOf DEF Operation
  <2>3. Contract!Fails(op[r], r \in Seen, "INTERNAL_SERVER_ERROR", users')
    BY <2>1, <2>2 DEF Contract!Fails
  <2> QED BY <1>1, <1>4, <2>3, AnswerServes DEF CommitLost, Faults, Statuses
<1> QED BY <1>3, <1>4

\* A request that finds no live user says so of the table at that instant.
LEMMA NotFoundServes ==
    ASSUME IndInv, EffectInv, NEW r \in Requests, NotFound(r)
    PROVE  Contract!Serve(r)
<1>1. /\ op[r] \in Operation /\ op[r].kind \in {"update", "delete"} /\ r \notin Seen
      /\ users' = users /\ Answer(r, "NOT_FOUND") /\ UNCHANGED <<op, creds>>
      /\ pc[r] = "exists"
  BY OperationShape
     DEF NotFound, Abort, Table!AbortTx, IndInv, ControlInv, OpFits, Seen, Fields
<1>2. ~Contract!Live(users, op[r].id)
  BY ContractTerms DEF NotFound
<1>3. Contract!Does(op[r], r \in Seen, creds[r], "NOT_FOUND", users')
  BY <1>1, <1>2 DEF Contract!Does, Contract!Update, Contract!Delete
<1> QED BY <1>1, <1>3, AnswerServes DEF Works, Statuses

\* Every step is a step of the contract, or none that it knows of.
LEMMA StepServes ==
    ASSUME IndInv, EffectInv, IndInv', [Next]_vars
    PROVE  [Contract!Next]_(Contract!vars)
<1>1. CASE UNCHANGED vars
  BY <1>1 DEF vars, Contract!vars, Seen
<1>2. SUFFICES ASSUME NEW r \in Requests,
                      Receive(r) \/ RefuseEmpty(r) \/ Works(r) \/ Faults(r)
               PROVE  Contract!Next \/ UNCHANGED Contract!vars
  BY <1>1 DEF Next, Terminated
<1>3. \A s \in Requests \ {r} : pc'[s] = pc[s] /\ op'[s] = op[s]
  BY <1>2, OthersFrame
<1>4. CASE Receive(r)
  <2>1. PICK o \in Ops : /\ op' = [op EXCEPT ![r] = o]
                         /\ pc' = [pc EXCEPT ![r] = FirstStatement(o)]
    BY <1>4 DEF Receive, Goto
  <2>2. /\ op[r] = NoOp /\ UNCHANGED <<users, creds, status>> /\ pc[r] = "idle"
        /\ o \in Operation
    BY <1>4, OpsAssumption DEF Receive, EffectInv, Wrote, Progress
  <2>3. op'[r] = o /\ pc'[r] = FirstStatement(o)
    BY <2>1 DEF IndInv, TypeOK
  <2>4. pc'[r] \in {"exists", "insert", "select"}
    BY <2>2, <2>3, OperationShape DEF FirstStatement
  <2>5. Seen' = Seen
    BY <1>3, <2>2, <2>4 DEF Seen, Fields
  <2> QED BY <2>1, <2>2, <2>5 DEF Contract!Next, Contract!Receive
<1>5. CASE RefuseEmpty(r)
  <2>1. PICK o \in Ops : Empty(o) /\ op' = [op EXCEPT ![r] = o]
    BY <1>5 DEF RefuseEmpty
  <2>2. /\ op[r] = NoOp /\ UNCHANGED <<users, creds>> /\ pc[r] = "idle" /\ o \in UpdateOp
        /\ status' = [status EXCEPT ![r] = "BAD_REQUEST"] /\ pc'[r] = "done"
    BY <1>5, <2>1, OpsAssumption, OperationShape
       DEF RefuseEmpty, EffectInv, Wrote, Progress, Empty, Answer, Goto, IndInv, TypeOK
  <2>3. o.patch = [f \in Fields |-> UNSET]
    BY <2>1, <2>2 DEF Empty, UpdateOp
  <2>4. Seen' = Seen
    BY <1>3, <2>2 DEF Seen, Fields
  <2> QED BY <2>1, <2>2, <2>3, <2>4, ContractTerms DEF Contract!Next, Contract!Refuse
<1>6. CASE Found(r)
  <2>1. /\ op[r] \in UpdateOp \cup DeleteOp /\ op[r] \in Operation /\ status[r] = "none"
        /\ pc[r] = "exists" /\ pc'[r] = "write" /\ UNCHANGED <<users, op, creds, status>>
        /\ Live(users, op[r].id)
    BY <1>6 DEF Found, Goto, IndInv, TypeOK, ControlInv, OpFits, EffectInv, Wrote, Progress
  <2>2. op[r].kind \in {"update", "delete"} /\ op[r] # NoOp
    BY <2>1, OperationShape, MarkerAssumption
  <2>3. Seen' = Seen \cup {r}
    BY <1>3, <2>1, <2>2 DEF Seen
  <2> QED BY <2>1, <2>3, ContractTerms DEF Contract!Next, Contract!Find
<1>7. CASE DeleteRow(r) \/ UpdateRow(r) \/ EnterIndex(r)
  <2>1. /\ UNCHANGED <<users, op, creds, status>> /\ pc[r] \in Fields \cup {"write"}
        /\ pc'[r] \in Fields \cup {"commit"}
    BY <1>7 DEF DeleteRow, UpdateRow, EnterIndex, Entering, Goto, IndInv, TypeOK, Fields
  <2>2. Seen' = Seen
    BY <1>3, <2>1 DEF Seen
  <2> QED BY <2>1, <2>2 DEF Contract!vars
<1>8. CASE InsertUser(r)
  <2>1. /\ UNCHANGED <<users, op, creds, status>> /\ op[r] \in Operation
        /\ op[r] \in CreateOp \cup RegisterOp
    BY <1>8 DEF InsertUser, IndInv, ControlInv, OpFits
  <2>2. op[r].kind \notin {"update", "delete"}
    BY <2>1, OperationShape
  <2>3. Seen' = Seen
    BY <1>3, <2>1, <2>2 DEF Seen
  <2> QED BY <2>1, <2>3 DEF Contract!vars
<1>9. CASE ReadCredentials(r)
  <2>1. /\ UNCHANGED <<users, op, status>> /\ pc[r] = "select" /\ op[r] \in Operation
        /\ op[r] \in LoginOp /\ status[r] = "none" /\ creds[r] = None
    BY <1>9 DEF ReadCredentials, IndInv, ControlInv, OpFits, EffectInv, Wrote, EnteredPassed,
       LoginRead, Progress
  <2>2. op[r].kind \notin {"update", "delete"}
    BY <2>1, OperationShape
  <2>3. Seen' = Seen
    BY <1>3, <2>1, <2>2 DEF Seen
  <2>4. \/ \E i \in UserIds :
               /\ Contract!MayLogIn(users, i, op[r].username)
               /\ creds' = [creds EXCEPT ![r] = [id |-> i, password |-> users[i].password]]
        \/ /\ \A i \in UserIds : ~Contract!MayLogIn(users, i, op[r].username)
           /\ creds' = [creds EXCEPT ![r] = Nobody]
    BY <1>9, ContractTerms DEF ReadCredentials
  <2> QED BY <2>1, <2>3, <2>4, ContractTerms DEF Contract!Next, Contract!See
<1>10. CASE RejectPatch(r) \/ StatementLost(r) \/ DeadlockVictim(r)
  <2>1. Fail(r) /\ pc[r] \notin {"idle", "done"}
    BY <1>10, DeadlockWaits DEF RejectPatch, StatementLost, DeadlockVictim, Fields
  <2> QED BY <1>10, <2>1, FailureServes DEF Works, Faults, Contract!Next
<1>11. CASE NotFound(r) \/ Duplicate(r) \/ Commit(r) \/ CommitLost(r)
  BY <1>11, NotFoundServes, DuplicateServes, CommitServes DEF Contract!Next
<1> QED
  BY <1>2, <1>4, <1>5, <1>6, <1>7, <1>8, <1>9, <1>10, <1>11 DEF Works, Faults

\* Any number of overlapping requests on the accounts are served as if each
\* took effect at one instant while it was open: a 201 is an account with both
\* names its own, a login is answered by what one account was at one instant,
\* and a failure at whatever statement is all or nothing.
THEOREM AccountsServedAtomically == Spec => ServesAtomically
<1>1. Init => Contract!Init
  BY DEF Init, Contract!Init, Seen
<1>2. IndInv /\ EffectInv /\ IndInv' /\ [Next]_vars => [Contract!Next]_(Contract!vars)
  BY StepServes
<1> QED
  BY <1>1, <1>2, Invariance, EffectInvariance, PTL DEF Spec, ServesAtomically, Contract!Spec
=============================================================================
