-------------------------- MODULE BookStoreProofs --------------------------
(***************************************************************************)
(* What BookStore and BookStorePool guarantee for any number of books,     *)
(* requests, texts and connections.                                        *)
(*                                                                         *)
(* The keys of the live books stay distinct because of four facts about    *)
(* the open transactions, which together are inductive: a row has one      *)
(* writer; an index entry has one owner, and an entry of a committed live  *)
(* row can only be owned by the writer of that row; what a transaction is  *)
(* about to commit is covered by its entries; and it wrote no key twice.   *)
(*                                                                         *)
(* BookStore implements Catalogue because, on top of that, what an open    *)
(* transaction has written is what its request asked for and nothing else  *)
(* (EffectInv), so that its commit is the one effect its answer tells.     *)
(* A deadlock without a PATCH takes uploads that disagree on an order, as  *)
(* each has saved the book another wants before the one it wants itself;   *)
(* and the pool implements BookStore.                                      *)
(***************************************************************************)
EXTENDS BookStorePool, TLAPS

-----------------------------------------------------------------------------
(* The inductive invariant. *)

\* What a request asks fits the statement it is about to run.
OpFits ==
    \A r \in Requests :
        /\ pc[r] = "idle" => at[r] = 1
        /\ pc[r] # "idle" => op[r] \in Operation
        /\ pc[r] \in {"exists", "write"} => op[r] \in UpdateOp \cup DeleteOp
        /\ pc[r] = "index" => op[r] \in UpdateOp
        /\ pc[r] = "insert" =>
               op[r] \in CreateOp \/ (op[r] \in UploadOp /\ at[r] \in DOMAIN op[r].batch)

\* The row that a request is about to update exists.
FoundRow == \A r \in Requests : pc[r] = "write" => books[op[r].id] # Absent

\* Before its first write and after its answer a request holds nothing.
HoldsNothing(r) == entered[r] = {} /\ \A i \in BookIds : ~Table!Holds(r, i)

IdleHoldsNothing ==
    \A r \in Requests : pc[r] \in {"idle", "exists", "write", "done"} => HoldsNothing(r)

\* A PATCH that reached the index has written its row and only that.
PatchHoldsRow ==
    \A r \in Requests : pc[r] = "index" =>
        \A i \in BookIds : Table!Holds(r, i) <=> i = op[r].id

OneWriter ==
    \A i \in BookIds : \A s, t \in Requests :
        Table!Holds(s, i) /\ Table!Holds(t, i) => s = t

OneOwner == \A s, t \in Requests : s # t => entered[s] \cap entered[t] = {}

\* An entry of a live row is only made by who is changing that row.
EntryOfLiveRow ==
    \A t \in Requests : \A i \in BookIds :
        Live(books, i) /\ books[i].text \in entered[t] => Table!Holds(t, i)

\* What may be committed next is covered by entries, no key twice.
WritesCovered ==
    \A t \in Requests : \A i \in BookIds :
        pc[t] \in {"insert", "commit"} /\ Live(dirty[t], i) => dirty[t][i].text \in entered[t]

WritesDistinct ==
    \A t \in Requests : \A i, j \in BookIds :
        Live(dirty[t], i) /\ Live(dirty[t], j) /\ dirty[t][i].text = dirty[t][j].text => i = j

\* What concerns the table, and what concerns the statements run on it.
TableInv ==
    /\ OneWriter
    /\ OneOwner
    /\ EntryOfLiveRow
    /\ WritesDistinct
    /\ LiveKeysDistinct

ControlInv ==
    /\ OpFits
    /\ FoundRow
    /\ IdleHoldsNothing
    /\ PatchHoldsRow
    /\ WritesCovered

IndInv == TypeOK /\ ControlInv /\ TableInv

-----------------------------------------------------------------------------
(* The values the statements compute. *)

\* A new book is cut to what the columns hold.
LEMMA NewBookType ==
    ASSUME NEW text \in [Fields -> Texts]
    PROVE  NewBook(text) \in Book /\ ~NewBook(text).deleted
BY CutAssumption DEF NewBook, Book, Keys

\* A storable patch of a book is a book, as much deleted as before.
LEMMA PatchedType ==
    ASSUME NEW book \in Book, NEW patch \in [Fields -> Texts \cup {UNSET, NULL}],
           Storable(patch)
    PROVE  Patched(book, patch) \in Book /\ Patched(book, patch).deleted = book.deleted
BY DEF Patched, Storable, Book, Keys

\* A deleted book is a book with the mark and the same text.
LEMMA DeletedType ==
    ASSUME NEW book \in Book
    PROVE  Deleted(book) \in Book /\ Deleted(book).deleted
BY DEF Deleted, Book, Keys

\* The entries of a book are keys.
LEMMA BookIndexType ==
    ASSUME NEW book \in Book
    PROVE  BookIndex[book] \subseteq Keys
BY DEF BookIndex, Book

\* The row an INSERT wants to make is a live book.
LEMMA WantedType ==
    ASSUME OpFits, NEW r \in Requests, pc[r] = "insert"
    PROVE  Wanted(r) \in Book /\ ~Wanted(r).deleted
<1>1. CASE op[r] \in CreateOp
  BY <1>1, NewBookType DEF Wanted, CreateOp
<1>2. CASE op[r] \in UploadOp /\ at[r] \in DOMAIN op[r].batch
  <2>1. op[r].batch[at[r]] \in [Fields -> Texts]
    BY <1>2 DEF UploadOp
  <2> QED BY <1>2, <2>1, NewBookType DEF Wanted, UploadOp
<1> QED BY <1>1, <1>2 DEF OpFits

-----------------------------------------------------------------------------
(* Type correctness. *)

\* What the operators of the table do to its types.
LEMMA ReleaseType ==
    ASSUME TypeOK, NEW r \in Requests, Table!Release(r)
    PROVE  /\ dirty' \in [Requests -> [BookIds -> Book \cup {Absent}]]
           /\ entered' \in [Requests -> SUBSET Keys]
BY DEF TypeOK, Table!TypeInvariant, Table!Release

LEMMA CommitType ==
    ASSUME TypeOK, NEW r \in Requests, Table!CommitTx(r)
    PROVE  Table!TypeInvariant'
<1>1. books' \in [BookIds -> Book \cup {Absent}]
  BY DEF TypeOK, Table!TypeInvariant, Table!CommitTx
<1> QED BY <1>1, ReleaseType DEF Table!TypeInvariant, Table!CommitTx

LEMMA AbortType ==
    ASSUME TypeOK, NEW r \in Requests, Table!AbortTx(r)
    PROVE  Table!TypeInvariant'
BY ReleaseType DEF TypeOK, Table!TypeInvariant, Table!AbortTx

LEMMA WriteType ==
    ASSUME TypeOK, NEW r \in Requests, NEW i \in BookIds, NEW book \in Book,
           Table!Write(r, i, book)
    PROVE  dirty' \in [Requests -> [BookIds -> Book \cup {Absent}]]
BY DEF TypeOK, Table!TypeInvariant, Table!Write

LEMMA EnterType ==
    ASSUME TypeOK, NEW r \in Requests, NEW book \in Book,
           Table!Enter(r, BookIndex[book])
    PROVE  entered' \in [Requests -> SUBSET Keys]
BY BookIndexType DEF TypeOK, Table!TypeInvariant, Table!Enter

\* The shape of the operations a request may carry.
LEMMA OperationShape ==
    ASSUME NEW o \in Operation
    PROVE  /\ o \in CreateOp <=> o.kind = "create"
           /\ o \in UpdateOp <=> o.kind = "update"
           /\ o \in DeleteOp <=> o.kind = "delete"
           /\ o \in UploadOp <=> o.kind = "upload"
           /\ o \in CreateOp => o.text \in [Fields -> Texts]
           /\ o \in UpdateOp => o.id \in BookIds
           /\ o \in UpdateOp => o.patch \in [Fields -> Texts \cup {UNSET, NULL}]
           /\ o \in DeleteOp => o.id \in BookIds
           /\ o \in UploadOp => o.batch \in Seq([Fields -> Texts])
           /\ o.kind \in {"create", "update", "delete", "upload"}
BY DEF Operation, CreateOp, UpdateOp, DeleteOp, UploadOp

\* The answers of a request are answers.
LEMMA AnswerType ==
    ASSUME NEW o \in Operation
    PROVE  Success(o) \in Statuses /\ Failure(o) \in Statuses
BY OperationShape DEF Success, Failure, Statuses

\* A request that aborts keeps the types.
LEMMA AbortStep ==
    ASSUME TypeOK, OpFits, NEW r \in Requests, NEW a \in Statuses, Abort(r, a),
           pc[r] # "idle"
    PROVE  TypeOK' /\ OpFits'
<1>1. Table!TypeInvariant'
  BY AbortType DEF Abort
<1>2. pc' = [pc EXCEPT ![r] = "done"] /\ status' = [status EXCEPT ![r] = a]
      /\ UNCHANGED <<op, at>>
  BY DEF Abort, Answer, Goto
<1>3. TypeOK'
  BY <1>1, <1>2 DEF TypeOK
<1> QED BY <1>2, <1>3 DEF TypeOK, OpFits

\* Moving on within the batch, or to the commit after it.
LEMMA NextItemStep ==
    ASSUME TypeOK, OpFits, NEW r \in Requests, pc[r] = "insert", NextItem(r),
           UNCHANGED op
    PROVE  /\ pc' \in [Requests -> {"idle", "exists", "write", "index", "insert",
                                     "commit", "done"}]
           /\ at' \in [Requests -> Nat \ {0}]
           /\ OpFits'
<1>1. CASE op[r].kind = "upload" /\ at[r] < Len(op[r].batch)
  <2>1. UNCHANGED pc /\ at' = [at EXCEPT ![r] = at[r] + 1]
    BY <1>1 DEF NextItem
  <2>2. op[r] \in UploadOp /\ op[r].batch \in Seq([Fields -> Texts])
    BY <1>1, OperationShape DEF OpFits
  <2>3. at[r] + 1 \in DOMAIN op[r].batch /\ at[r] + 1 \in Nat \ {0}
    BY <1>1, <2>2 DEF TypeOK
  <2> QED BY <2>1, <2>2, <2>3 DEF TypeOK, OpFits
<1>2. CASE ~(op[r].kind = "upload" /\ at[r] < Len(op[r].batch))
  <2>1. pc' = [pc EXCEPT ![r] = "commit"] /\ UNCHANGED at
    BY <1>2 DEF NextItem, Goto
  <2> QED BY <2>1 DEF TypeOK, OpFits
<1> QED BY <1>1, <1>2

\* Only a request that is about to write waits for others.
LEMMA DeadlockWaits ==
    ASSUME NEW r \in Requests, Deadlocked(r)
    PROVE  pc[r] \in {"write", "index", "insert"}
<1>1. PICK n \in 1..Table!Cardinality(Requests) : \E cycle \in [1..n -> Requests] :
          /\ cycle[1] = r
          /\ \A k \in 1..n : cycle[(k % n) + 1] \in [s \in Requests |-> Blockers(s)][cycle[k]]
  BY DEF Deadlocked, Table!InCycle
<1>2. 1 \in 1..n
  OBVIOUS
<1>3. Blockers(r) # {}
  BY <1>1, <1>2
<1> QED BY <1>3 DEF Blockers

\* Every step keeps the types and what a request asks fitting its statement.
LEMMA TypeStep ==
    ASSUME TypeOK, OpFits, FoundRow, PatchHoldsRow, [Next]_vars
    PROVE  TypeOK' /\ OpFits'
<1> SUFFICES ASSUME NEW r \in Requests,
                    Receive(r) \/ RefuseEmpty(r) \/ Works(r) \/ Faults(r)
             PROVE  TypeOK' /\ OpFits'
  <2>1. CASE UNCHANGED vars
    BY <2>1 DEF TypeOK, OpFits, Table!TypeInvariant, vars
  <2> QED BY <2>1 DEF Next, Terminated
<1>1. CASE Receive(r)
  <2>1. PICK o \in Ops : /\ op' = [op EXCEPT ![r] = o]
                         /\ pc' = [pc EXCEPT ![r] = FirstStatement(o)]
    BY <1>1 DEF Receive, Goto
  <2>2. UNCHANGED <<books, dirty, entered, at, status>> /\ pc[r] = "idle"
    BY <1>1 DEF Receive
  <2>3. o \in Operation
    BY OpsAssumption
  <2>4. \/ /\ o \in UpdateOp \cup DeleteOp /\ FirstStatement(o) = "exists"
        \/ /\ o \in CreateOp /\ FirstStatement(o) = "insert"
        \/ /\ o \in UploadOp /\ o.batch # <<>> /\ FirstStatement(o) = "insert"
        \/ /\ o \in UploadOp /\ FirstStatement(o) = "commit"
    BY <2>3, OperationShape DEF FirstStatement
  <2>5. TypeOK'
    BY <2>1, <2>2, <2>3, <2>4 DEF TypeOK, Table!TypeInvariant
  <2>6. o \in UploadOp /\ o.batch # <<>> => 1 \in DOMAIN o.batch
    BY <2>3, OperationShape
  <2>7. at[r] = 1
    BY <2>2 DEF OpFits
  <2>8. pc'[r] = FirstStatement(o) /\ op'[r] = o
    BY <2>1 DEF TypeOK
  <2>9. OpFits'
    <3> SUFFICES ASSUME NEW s \in Requests
                 PROVE  /\ pc'[s] = "idle" => at'[s] = 1
                        /\ pc'[s] # "idle" => op'[s] \in Operation
                        /\ pc'[s] \in {"exists", "write"} => op'[s] \in UpdateOp \cup DeleteOp
                        /\ pc'[s] = "index" => op'[s] \in UpdateOp
                        /\ pc'[s] = "insert" =>
                               \/ op'[s] \in CreateOp
                               \/ op'[s] \in UploadOp /\ at'[s] \in DOMAIN op'[s].batch
      BY DEF OpFits
    <3>1. CASE s = r
      BY <3>1, <2>2, <2>3, <2>4, <2>6, <2>7, <2>8
    <3>2. CASE s # r
      BY <3>2, <2>1, <2>2 DEF TypeOK, OpFits
    <3> QED BY <3>1, <3>2
  <2> QED BY <2>5, <2>9
<1>2. CASE RefuseEmpty(r)
  <2>1. PICK o \in Ops : op' = [op EXCEPT ![r] = o]
    BY <1>2 DEF RefuseEmpty
  <2>2. o \in Operation
    BY OpsAssumption
  <2> QED BY <1>2, <2>1, <2>2
          DEF TypeOK, OpFits, Table!TypeInvariant, Statuses, RefuseEmpty, Answer, Goto
<1>3. CASE Found(r)
  BY <1>3 DEF TypeOK, OpFits, Table!TypeInvariant, Found, Goto
<1>4. CASE NotFound(r)
  BY <1>4, AbortStep DEF NotFound, Statuses
<1>5. CASE DeleteRow(r)
  <2>1. op[r].id \in BookIds /\ op[r] \in Operation
    BY <1>5, OperationShape DEF DeleteRow, OpFits
  <2>2. books[op[r].id] \in Book
    BY <1>5, <2>1 DEF DeleteRow, FoundRow, TypeOK, Table!TypeInvariant
  <2>3. Table!TypeInvariant'
    BY <1>5, <2>1, <2>2, DeletedType, WriteType DEF DeleteRow, TypeOK, Table!TypeInvariant
  <2> QED BY <1>5, <2>1, <2>3 DEF DeleteRow, Goto, TypeOK, OpFits
<1>6. CASE UpdateRow(r)
  <2>1. op[r].id \in BookIds /\ op[r] \in UpdateOp
    BY <1>6, OperationShape DEF UpdateRow, OpFits
  <2>2. books[op[r].id] \in Book
    BY <1>6, <2>1 DEF UpdateRow, FoundRow, TypeOK, Table!TypeInvariant
  <2>3. Patched(books[op[r].id], op[r].patch) \in Book
    BY <1>6, <2>1, <2>2, PatchedType DEF UpdateRow, UpdateOp
  <2>4. Table!TypeInvariant'
    BY <1>6, <2>1, <2>3, WriteType DEF UpdateRow, TypeOK, Table!TypeInvariant
  <2> QED BY <1>6, <2>1, <2>4 DEF UpdateRow, Goto, TypeOK, OpFits
<1>7. CASE RejectPatch(r)
  BY <1>7, AbortStep, AnswerType DEF RejectPatch, OpFits
<1>8. CASE EnterIndex(r)
  <2>1. op[r].id \in BookIds /\ pc[r] = "index"
    BY <1>8, OperationShape DEF EnterIndex, OpFits
  <2>2. dirty[r][op[r].id] \in Book
    BY <2>1 DEF PatchHoldsRow, Table!Holds, TypeOK, Table!TypeInvariant
  <2>3. Table!TypeInvariant'
    BY <1>8, <2>2, EnterType DEF EnterIndex, NewEntries, TypeOK, Table!TypeInvariant
  <2> QED BY <1>8, <2>3 DEF EnterIndex, Goto, TypeOK, OpFits
<1>9. CASE UpdateConflict(r)
  BY <1>9, AbortStep DEF UpdateConflict, Statuses
<1>10. CASE InsertBook(r)
  <2>1. pc[r] = "insert" /\ Wanted(r) \in Book
    BY <1>10, WantedType DEF InsertBook
  <2>2. PICK i \in BookIds : Table!Write(r, i, Wanted(r))
    BY <1>10 DEF InsertBook, Table!FreeIds
  <2>3. Table!TypeInvariant'
    BY <1>10, <2>1, <2>2, WriteType, EnterType DEF InsertBook, TypeOK, Table!TypeInvariant
  <2> QED BY <1>10, <2>1, <2>3, NextItemStep DEF InsertBook, TypeOK
<1>11. CASE CreateConflict(r)
  BY <1>11, AbortStep DEF CreateConflict, Statuses
<1>12. CASE SkipBook(r)
  BY <1>12, NextItemStep DEF SkipBook, TypeOK, Table!TypeInvariant
<1>13. CASE Commit(r) \/ CommitLost(r)
  <2>1. PICK a \in Statuses : Answer(r, a)
    BY <1>13, AnswerType DEF Commit, CommitLost, OpFits
  <2>2. Table!TypeInvariant' /\ UNCHANGED <<op, at>> /\ pc[r] = "commit"
    BY <1>13, CommitType, AbortType DEF Commit, CommitLost
  <2> QED BY <2>1, <2>2 DEF Answer, Goto, TypeOK, OpFits
<1>14. CASE StatementLost(r)
  BY <1>14, AbortStep, AnswerType DEF StatementLost, OpFits
<1>15. CASE DeadlockVictim(r)
  BY <1>15, DeadlockWaits, AbortStep, AnswerType DEF DeadlockVictim, OpFits
<1> QED
  BY <1>1, <1>2, <1>3, <1>4, <1>5, <1>6, <1>7, <1>8, <1>9, <1>10, <1>11, <1>12, <1>13,
     <1>14, <1>15 DEF Works, Faults

-----------------------------------------------------------------------------
(* The table: what each operation on it does to the facts about it. *)

\* The entries of a book: its text while it is live.
LEMMA EntriesOfBook ==
    ASSUME NEW book \in Book
    PROVE  BookIndex[book] = IF book.deleted THEN {} ELSE {book.text}
BY DEF BookIndex

LEMMA EntriesOfLive ==
    ASSUME TypeOK, NEW i \in BookIds, Live(books, i)
    PROVE  Table!Entries(books[i]) = {books[i].text}
BY EntriesOfBook DEF TypeOK, Table!TypeInvariant, Table!Entries, Live

\* After its transaction ends r holds nothing, and the others what they held.
LEMMA ReleaseEffect ==
    ASSUME TypeOK, NEW r \in Requests, Table!Release(r)
    PROVE  /\ entered'[r] = {}
           /\ \A i \in BookIds : dirty'[r][i] = Absent
           /\ \A s \in Requests \ {r} : entered'[s] = entered[s] /\ dirty'[s] = dirty[s]
BY DEF TypeOK, Table!TypeInvariant, Table!Release

LEMMA AbortKeeps ==
    ASSUME TypeOK, TableInv, NEW r \in Requests, Table!AbortTx(r)
    PROVE  TableInv' /\ HoldsNothing(r)'
<1>1. /\ entered'[r] = {}
      /\ \A i \in BookIds : dirty'[r][i] = Absent
      /\ \A s \in Requests \ {r} : entered'[s] = entered[s] /\ dirty'[s] = dirty[s]
      /\ books' = books
  BY ReleaseEffect DEF Table!AbortTx
<1>2. OneWriter'
  BY <1>1 DEF TableInv, OneWriter, Table!Holds
<1>3. OneOwner'
  BY <1>1 DEF TableInv, OneOwner
<1>4. EntryOfLiveRow'
  BY <1>1 DEF TableInv, EntryOfLiveRow, Live, Table!Holds
<1>5. WritesDistinct'
  BY <1>1 DEF TableInv, WritesDistinct, Live
<1>6. LiveKeysDistinct'
  BY <1>1 DEF TableInv, LiveKeysDistinct, DistinctLiveKeys, Live
<1> QED BY <1>1, <1>2, <1>3, <1>4, <1>5, <1>6 DEF TableInv, HoldsNothing, Table!Holds

\* A commit publishes only rows whose keys r owns and wrote once.
LEMMA CommitKeeps ==
    ASSUME TypeOK, TableInv, NEW r \in Requests, Table!CommitTx(r),
           \A i \in BookIds : Live(dirty[r], i) => dirty[r][i].text \in entered[r]
    PROVE  TableInv' /\ HoldsNothing(r)'
<1>1. /\ entered'[r] = {}
      /\ \A i \in BookIds : dirty'[r][i] = Absent
      /\ \A s \in Requests \ {r} : entered'[s] = entered[s] /\ dirty'[s] = dirty[s]
  BY ReleaseEffect DEF Table!CommitTx
<1>2. \A i \in BookIds : books'[i] = IF dirty[r][i] # Absent THEN dirty[r][i] ELSE books[i]
  BY DEF Table!CommitTx, Table!Holds
<1>3. OneWriter'
  BY <1>1 DEF TableInv, OneWriter, Table!Holds
<1>4. OneOwner'
  BY <1>1 DEF TableInv, OneOwner
<1>5. EntryOfLiveRow'
  <2> SUFFICES ASSUME NEW t \in Requests, NEW i \in BookIds, t # r,
                      Live(books', i), books'[i].text \in entered[t]
               PROVE  Table!Holds(t, i)
    BY <1>1 DEF EntryOfLiveRow, Table!Holds
  <2>1. dirty[r][i] = Absent
    BY <1>2 DEF TableInv, OneOwner, Live
  <2> QED BY <1>2, <2>1 DEF TableInv, EntryOfLiveRow, Live
<1>6. WritesDistinct'
  BY <1>1 DEF TableInv, WritesDistinct, Live
<1>7. LiveKeysDistinct'
  <2> SUFFICES ASSUME NEW i \in BookIds, NEW j \in BookIds,
                      Live(books', i), Live(books', j), books'[i].text = books'[j].text
               PROVE  i = j
    BY DEF LiveKeysDistinct, DistinctLiveKeys
  <2>1. CASE dirty[r][i] # Absent /\ dirty[r][j] # Absent
    BY <1>2, <2>1 DEF TableInv, WritesDistinct, Live
  <2>2. CASE dirty[r][i] = Absent /\ dirty[r][j] = Absent
    BY <1>2, <2>2 DEF TableInv, LiveKeysDistinct, DistinctLiveKeys, Live
  <2>3. CASE dirty[r][i] # Absent /\ dirty[r][j] = Absent
    BY <1>2, <2>3 DEF TableInv, EntryOfLiveRow, Live, Table!Holds
  <2>4. CASE dirty[r][i] = Absent /\ dirty[r][j] # Absent
    BY <1>2, <2>4 DEF TableInv, EntryOfLiveRow, Live, Table!Holds
  <2> QED BY <2>1, <2>2, <2>3, <2>4
<1> QED BY <1>1, <1>3, <1>4, <1>5, <1>6, <1>7 DEF TableInv, HoldsNothing, Table!Holds

\* A request that holds nothing locks one row and writes it.
LEMMA WriteKeeps ==
    ASSUME TypeOK, TableInv, NEW r \in Requests, NEW i \in BookIds, NEW book \in Book,
           HoldsNothing(r), Table!Writers(i) = {}, Table!Write(r, i, book),
           UNCHANGED <<books, entered>>
    PROVE  /\ TableInv'
           /\ dirty'[r][i] = book
           /\ \A j \in BookIds \ {i} : dirty'[r][j] = Absent
<1>1. /\ dirty'[r][i] = book
      /\ \A j \in BookIds \ {i} : dirty'[r][j] = Absent
      /\ \A s \in Requests \ {r} : dirty'[s] = dirty[s]
  BY DEF TypeOK, Table!TypeInvariant, Table!Write, HoldsNothing, Table!Holds
<1>2. \A s \in Requests : dirty[s][i] = Absent
  BY DEF Table!Writers, Table!Holds
<1>3. OneWriter'
  BY <1>1, <1>2 DEF TableInv, OneWriter, Table!Holds
<1>4. OneOwner'
  BY DEF TableInv, OneOwner
<1>5. EntryOfLiveRow'
  BY <1>1 DEF TableInv, EntryOfLiveRow, Live, Table!Holds, HoldsNothing
<1>6. WritesDistinct'
  BY <1>1 DEF TableInv, WritesDistinct, Live
<1>7. LiveKeysDistinct'
  BY DEF TableInv, LiveKeysDistinct, DistinctLiveKeys, Live
<1> QED BY <1>1, <1>3, <1>4, <1>5, <1>6, <1>7 DEF TableInv

\* Entries nobody else decides about and nobody has are made by r: no other
\* transaction made them, and no row but one that r writes needs them.
LEMMA EnterKeeps ==
    ASSUME TypeOK, TableInv, NEW r \in Requests, NEW book \in Book,
           Table!Deciders(r, BookIndex[book]) = {}, ~Table!Taken(r, BookIndex[book])
    PROVE  /\ \A s \in Requests \ {r} : BookIndex[book] \cap entered[s] = {}
           /\ BookIndex[book] \cap entered[r] = {}
           /\ \A i \in BookIds :
                  Live(books, i) /\ books[i].text \in BookIndex[book] => Table!Holds(r, i)
<1>1. \A s \in Requests \ {r} : BookIndex[book] \cap entered[s] = {}
  BY DEF Table!Deciders
<1>2. ASSUME NEW i \in BookIds, Live(books, i), books[i].text \in BookIndex[book]
      PROVE  Table!Holds(r, i)
  <2>1. BookIndex[book] \cap Table!Entries(books[i]) # {}
    BY <1>2, EntriesOfLive
  <2> QED BY <2>1 DEF Table!Taken
<1> QED BY <1>1, <1>2 DEF Table!Taken

\* A PATCH that holds its row makes the entry of its new version.
LEMMA EnterIndexKeeps ==
    ASSUME TypeOK, TableInv, NEW r \in Requests, NEW book \in Book,
           Table!Deciders(r, BookIndex[book]) = {}, ~Table!Taken(r, BookIndex[book]),
           Table!Enter(r, BookIndex[book]), UNCHANGED <<books, dirty>>
    PROVE  TableInv' /\ entered'[r] = entered[r] \cup BookIndex[book]
<1>1. /\ entered'[r] = entered[r] \cup BookIndex[book]
      /\ \A s \in Requests \ {r} : entered'[s] = entered[s]
  BY DEF TypeOK, Table!TypeInvariant, Table!Enter
<1>2. OneWriter'
  BY DEF TableInv, OneWriter, Table!Holds
<1>3. OneOwner'
  BY <1>1, EnterKeeps DEF TableInv, OneOwner
<1>4. EntryOfLiveRow'
  BY <1>1, EnterKeeps DEF TableInv, EntryOfLiveRow, Live, Table!Holds
<1>5. WritesDistinct'
  BY DEF TableInv, WritesDistinct, Live
<1>6. LiveKeysDistinct'
  BY DEF TableInv, LiveKeysDistinct, DistinctLiveKeys, Live
<1> QED BY <1>1, <1>2, <1>3, <1>4, <1>5, <1>6 DEF TableInv

\* An INSERT writes a fresh row and makes its entry in one go.
LEMMA InsertKeeps ==
    ASSUME TypeOK, TableInv, NEW r \in Requests, NEW book \in Book, ~book.deleted,
           \A i \in BookIds : Live(dirty[r], i) => dirty[r][i].text \in entered[r],
           Table!Deciders(r, BookIndex[book]) = {}, ~Table!Taken(r, BookIndex[book]),
           NEW k \in Table!FreeIds, Table!Write(r, k, book),
           Table!Enter(r, BookIndex[book]), UNCHANGED books
    PROVE  /\ TableInv'
           /\ \A i \in BookIds : Live(dirty'[r], i) => dirty'[r][i].text \in entered'[r]
           /\ \A s \in Requests \ {r} : entered'[s] = entered[s] /\ dirty'[s] = dirty[s]
<1>1. k \in BookIds /\ books[k] = Absent /\ \A s \in Requests : dirty[s][k] = Absent
  BY DEF Table!FreeIds, Table!Writers, Table!Holds
<1>2. /\ entered'[r] = entered[r] \cup {book.text}
      /\ \A s \in Requests \ {r} : entered'[s] = entered[s]
  BY EntriesOfBook DEF TypeOK, Table!TypeInvariant, Table!Enter
<1>3. /\ dirty'[r][k] = book
      /\ \A i \in BookIds \ {k} : dirty'[r][i] = dirty[r][i]
      /\ \A s \in Requests \ {r} : dirty'[s] = dirty[s]
  BY <1>1 DEF TypeOK, Table!TypeInvariant, Table!Write
<1>4. /\ book.text \notin entered[r]
      /\ \A s \in Requests \ {r} : book.text \notin entered[s]
      /\ \A i \in BookIds : Live(books, i) /\ books[i].text = book.text => Table!Holds(r, i)
  <2>1. BookIndex[book] = {book.text}
    BY EntriesOfBook
  <2>2. /\ BookIndex[book] \cap entered[r] = {}
        /\ \A s \in Requests \ {r} : BookIndex[book] \cap entered[s] = {}
        /\ \A i \in BookIds : Live(books, i) /\ books[i].text \in BookIndex[book] => Table!Holds(r, i)
    BY EnterKeeps
  <2> QED BY <2>1, <2>2
<1>5. OneWriter'
  BY <1>1, <1>3 DEF TableInv, OneWriter, Table!Holds
<1>6. OneOwner'
  BY <1>2, <1>4 DEF TableInv, OneOwner
<1>7. EntryOfLiveRow'
  BY <1>1, <1>2, <1>3, <1>4 DEF TableInv, EntryOfLiveRow, Live, Table!Holds
<1>8. WritesDistinct'
  BY <1>1, <1>3, <1>4 DEF TableInv, WritesDistinct, Live
<1>9. LiveKeysDistinct'
  BY DEF TableInv, LiveKeysDistinct, DistinctLiveKeys, Live
<1> QED BY <1>2, <1>3, <1>5, <1>6, <1>7, <1>8, <1>9 DEF TableInv, Live

-----------------------------------------------------------------------------
(* The invariant. *)

\* The initial states: nobody has started and the seed has distinct keys.
LEMMA InitInv == ASSUME Init PROVE IndInv
<1>1. TypeOK
  BY SeedsAssumption DEF Init, TypeOK, Table!TypeInvariant, Statuses
<1>2. ControlInv
  BY DEF Init, ControlInv, OpFits, FoundRow, IdleHoldsNothing, HoldsNothing, Table!Holds,
         PatchHoldsRow, WritesCovered
<1>3. TableInv
  BY SeedsAssumption
     DEF Init, TableInv, OneWriter, OneOwner, EntryOfLiveRow, WritesDistinct,
         LiveKeysDistinct, Table!Holds, Live
<1> QED BY <1>1, <1>2, <1>3 DEF IndInv

\* Rows are replaced by rows: nothing stored is ever erased.
LEMMA RowsStay ==
    ASSUME TypeOK, [Next]_vars, NEW i \in BookIds, books[i] # Absent
    PROVE  books'[i] # Absent
BY DEF Next, Works, Faults, Receive, RefuseEmpty, Found, NotFound, DeleteRow, UpdateRow,
       RejectPatch, EnterIndex, UpdateConflict, InsertBook, CreateConflict, SkipBook,
       Commit, CommitLost, StatementLost, DeadlockVictim, Abort, Terminated, vars,
       Table!CommitTx, Table!AbortTx, Table!Holds

\* What the control of one request must satisfy after its step; the others
\* are as they were.
LEMMA ControlFrame ==
    ASSUME TypeOK, ControlInv, OpFits', [Next]_vars, NEW r \in Requests,
           \A s \in Requests \ {r} : /\ pc'[s] = pc[s] /\ op'[s] = op[s]
                                    /\ dirty'[s] = dirty[s] /\ entered'[s] = entered[s],
           pc'[r] = "write" => books'[op'[r].id] # Absent,
           pc'[r] \in {"idle", "exists", "write", "done"} => HoldsNothing(r)',
           pc'[r] = "index" => \A i \in BookIds : dirty'[r][i] # Absent <=> i = op'[r].id,
           pc'[r] \in {"insert", "commit"} =>
               \A i \in BookIds : Live(dirty'[r], i) => dirty'[r][i].text \in entered'[r]
    PROVE  ControlInv'
<1>1. FoundRow'
  <2> SUFFICES ASSUME NEW s \in Requests, s # r, pc[s] = "write"
               PROVE  books'[op[s].id] # Absent
    BY DEF FoundRow
  <2>1. op[s].id \in BookIds /\ books[op[s].id] # Absent
    BY OperationShape DEF ControlInv, OpFits, FoundRow
  <2> QED BY <2>1, RowsStay
<1>2. IdleHoldsNothing'
  BY DEF ControlInv, IdleHoldsNothing, HoldsNothing, Table!Holds
<1>3. PatchHoldsRow'
  BY DEF ControlInv, PatchHoldsRow, Table!Holds
<1>4. WritesCovered'
  BY DEF ControlInv, WritesCovered, Live
<1> QED BY <1>1, <1>2, <1>3, <1>4 DEF ControlInv

\* Every step keeps the invariant.
LEMMA StepInv == ASSUME IndInv, [Next]_vars PROVE IndInv'
<1> USE DEF IndInv
<1>0. TypeOK' /\ OpFits'
  BY TypeStep DEF ControlInv
<1>1. ASSUME UNCHANGED vars PROVE IndInv'
  <2>1. TableInv'
    BY <1>1 DEF vars, TableInv, OneWriter, OneOwner, EntryOfLiveRow, WritesDistinct,
                LiveKeysDistinct, DistinctLiveKeys, Table!Holds, Live
  <2>2. ControlInv'
    BY <1>0, <1>1 DEF vars, ControlInv, FoundRow, IdleHoldsNothing, HoldsNothing, PatchHoldsRow,
                WritesCovered, Table!Holds, Live
  <2> QED BY <1>0, <2>1, <2>2
<1>2. SUFFICES ASSUME NEW r \in Requests,
                      Receive(r) \/ RefuseEmpty(r) \/ Works(r) \/ Faults(r)
               PROVE  ControlInv' /\ TableInv'
  BY <1>0, <1>1 DEF Next, Terminated
<1>3. ASSUME NEW a \in Statuses, Abort(r, a) PROVE ControlInv' /\ TableInv'
  <2>1. TableInv' /\ HoldsNothing(r)'
    BY <1>3, AbortKeeps DEF Abort
  <2>2. \A s \in Requests \ {r} : entered'[s] = entered[s] /\ dirty'[s] = dirty[s]
    BY <1>3, ReleaseEffect DEF Abort, Table!AbortTx
  <2>3. /\ pc'[r] = "done" /\ UNCHANGED op
        /\ \A s \in Requests \ {r} : pc'[s] = pc[s]
    BY <1>3 DEF Abort, Answer, Goto, TypeOK
  <2>4. ControlInv'
    BY <1>0, <2>1, <2>2, <2>3, ControlFrame
  <2> QED BY <2>1, <2>4
<1>4. ASSUME UNCHANGED <<books, dirty, entered>> PROVE TableInv'
  BY <1>4 DEF TableInv, OneWriter, OneOwner, EntryOfLiveRow, WritesDistinct,
              LiveKeysDistinct, DistinctLiveKeys, Table!Holds, Live
<1>5. CASE Receive(r) \/ RefuseEmpty(r)
  <2>1. /\ UNCHANGED <<books, dirty, entered>> /\ pc[r] = "idle"
        /\ \A s \in Requests \ {r} : pc'[s] = pc[s] /\ op'[s] = op[s]
        /\ pc'[r] \in {"exists", "insert", "commit", "done"}
    <3>1. CASE Receive(r)
      <4>1. PICK o \in Ops : /\ op' = [op EXCEPT ![r] = o]
                             /\ pc' = [pc EXCEPT ![r] = FirstStatement(o)]
        BY <3>1 DEF Receive, Goto
      <4>2. o \in Operation
        BY OpsAssumption
      <4>3. FirstStatement(o) \in {"exists", "insert", "commit"}
        BY <4>2, OperationShape DEF FirstStatement
      <4> QED BY <3>1, <4>1, <4>3 DEF Receive, TypeOK
    <3>2. CASE RefuseEmpty(r)
      BY <3>2 DEF RefuseEmpty, Answer, Goto, TypeOK
    <3> QED BY <1>5, <3>1, <3>2
  <2>2. HoldsNothing(r)
    BY <2>1 DEF ControlInv, IdleHoldsNothing
  <2>3. ControlInv'
    BY <1>0, <2>1, <2>2, ControlFrame DEF HoldsNothing, Table!Holds, Live
  <2> QED BY <1>4, <2>1, <2>3
<1>6. CASE Found(r)
  <2>1. /\ UNCHANGED <<books, dirty, entered, op>> /\ pc[r] = "exists"
        /\ Live(books, op[r].id) /\ pc' = [pc EXCEPT ![r] = "write"]
    BY <1>6 DEF Found, Goto
  <2>2. HoldsNothing(r)
    BY <2>1 DEF ControlInv, IdleHoldsNothing
  <2>3. ControlInv'
    BY <1>0, <2>1, <2>2, ControlFrame DEF HoldsNothing, Table!Holds, Live, TypeOK
  <2> QED BY <1>4, <2>1, <2>3
<1>7. CASE NotFound(r) \/ UpdateConflict(r) \/ CreateConflict(r)
  BY <1>3, <1>7 DEF NotFound, UpdateConflict, CreateConflict, Statuses
<1>8. CASE RejectPatch(r) \/ StatementLost(r) \/ DeadlockVictim(r)
  <2>1. pc[r] # "idle" /\ Abort(r, Failure(op[r]))
    BY <1>8, DeadlockWaits DEF RejectPatch, StatementLost, DeadlockVictim
  <2> QED BY <1>3, <2>1, AnswerType DEF ControlInv, OpFits
<1>9. CASE DeleteRow(r) \/ UpdateRow(r)
  <2>1. PICK book \in Book :
            /\ Table!Write(r, op[r].id, book)
            /\ \/ pc' = [pc EXCEPT ![r] = "index"]
               \/ pc' = [pc EXCEPT ![r] = "commit"] /\ book.deleted
    <3>1. op[r].id \in BookIds /\ op[r] \in UpdateOp \cup DeleteOp /\ op[r] \in Operation
      BY <1>9, OperationShape DEF DeleteRow, UpdateRow, ControlInv, OpFits
    <3>2. books[op[r].id] \in Book
      BY <1>9, <3>1
         DEF DeleteRow, UpdateRow, ControlInv, FoundRow, TypeOK, Table!TypeInvariant
    <3>3. CASE DeleteRow(r)
      BY <3>2, <3>3, DeletedType DEF DeleteRow, Goto
    <3>4. CASE UpdateRow(r)
      <4>1. op[r].patch \in [Fields -> Texts \cup {UNSET, NULL}]
        BY <3>1, <3>4, OperationShape DEF UpdateRow
      <4> QED BY <3>2, <3>4, <4>1, PatchedType DEF UpdateRow, Goto
    <3> QED BY <1>9, <3>3, <3>4
  <2>2. /\ op[r].id \in BookIds /\ HoldsNothing(r) /\ Table!Writers(op[r].id) = {}
        /\ UNCHANGED <<books, entered, op>>
    BY <1>9, OperationShape
       DEF DeleteRow, UpdateRow, ControlInv, OpFits, IdleHoldsNothing
  <2>3. /\ TableInv'
        /\ dirty'[r][op[r].id] = book
        /\ \A j \in BookIds \ {op[r].id} : dirty'[r][j] = Absent
    BY <2>1, <2>2, WriteKeeps
  <2>4. \A s \in Requests \ {r} : dirty'[s] = dirty[s] /\ pc'[s] = pc[s]
    BY <2>1 DEF Table!Write, TypeOK, Table!TypeInvariant
  <2>5. pc'[r] \in {"index", "commit"} /\ (pc'[r] = "commit" => book.deleted)
    BY <2>1 DEF TypeOK
  <2>6. book # Absent
    BY MarkerAssumption
  <2>7. ControlInv'
    BY <1>0, <2>2, <2>3, <2>4, <2>5, <2>6, ControlFrame DEF Live
  <2> QED BY <2>3, <2>7
<1>10. CASE EnterIndex(r)
  <2>1. /\ pc[r] = "index" /\ pc' = [pc EXCEPT ![r] = "commit"] /\ UNCHANGED <<books, dirty, op>>
        /\ op[r].id \in BookIds
    BY <1>10, OperationShape DEF EnterIndex, Goto, ControlInv, OpFits
  <2>2. \A i \in BookIds : dirty[r][i] # Absent <=> i = op[r].id
    BY <2>1 DEF ControlInv, PatchHoldsRow, Table!Holds
  <2>3. dirty[r][op[r].id] \in Book
    BY <2>1, <2>2 DEF TypeOK, Table!TypeInvariant
  <2>4. TableInv' /\ entered'[r] = entered[r] \cup BookIndex[dirty[r][op[r].id]]
    BY <1>10, <2>1, <2>3, EnterIndexKeeps DEF EnterIndex, NewEntries
  <2>5. \A s \in Requests \ {r} : entered'[s] = entered[s] /\ pc'[s] = pc[s]
    BY <1>10, <2>1 DEF EnterIndex, Table!Enter, TypeOK, Table!TypeInvariant
  <2>6. \A i \in BookIds : Live(dirty'[r], i) => dirty'[r][i].text \in entered'[r]
    BY <2>1, <2>2, <2>3, <2>4, EntriesOfBook DEF Live
  <2>7. ControlInv'
    BY <1>0, <2>1, <2>5, <2>6, ControlFrame DEF TypeOK
  <2> QED BY <2>4, <2>7
<1>11. CASE InsertBook(r)
  <2>1. pc[r] = "insert" /\ Wanted(r) \in Book /\ ~Wanted(r).deleted
    BY <1>11, WantedType DEF InsertBook, ControlInv
  <2>2. \A i \in BookIds : Live(dirty[r], i) => dirty[r][i].text \in entered[r]
    BY <2>1 DEF ControlInv, WritesCovered
  <2>3. PICK k \in Table!FreeIds : Table!Write(r, k, Wanted(r))
    BY <1>11 DEF InsertBook
  <2>4. /\ TableInv'
        /\ \A i \in BookIds : Live(dirty'[r], i) => dirty'[r][i].text \in entered'[r]
        /\ \A s \in Requests \ {r} : entered'[s] = entered[s] /\ dirty'[s] = dirty[s]
    BY <1>11, <2>1, <2>2, <2>3, InsertKeeps DEF InsertBook
  <2>5. /\ UNCHANGED op /\ pc'[r] \in {"insert", "commit"}
        /\ \A s \in Requests \ {r} : pc'[s] = pc[s]
    BY <1>11, <2>1 DEF InsertBook, NextItem, Goto, TypeOK
  <2>6. ControlInv'
    BY <1>0, <2>4, <2>5, ControlFrame
  <2> QED BY <2>4, <2>6
<1>12. CASE SkipBook(r)
  <2>1. /\ UNCHANGED <<books, dirty, entered, op>> /\ pc[r] = "insert"
        /\ pc'[r] \in {"insert", "commit"} /\ \A s \in Requests \ {r} : pc'[s] = pc[s]
    BY <1>12 DEF SkipBook, NextItem, Goto, TypeOK
  <2>2. \A i \in BookIds : Live(dirty[r], i) => dirty[r][i].text \in entered[r]
    BY <2>1 DEF ControlInv, WritesCovered
  <2>3. ControlInv'
    BY <1>0, <2>1, <2>2, ControlFrame DEF Live
  <2> QED BY <1>4, <2>1, <2>3
<1>13. CASE Commit(r) \/ CommitLost(r)
  <2>1. /\ pc[r] = "commit" /\ UNCHANGED op /\ pc'[r] = "done"
        /\ \A s \in Requests \ {r} : pc'[s] = pc[s]
    BY <1>13 DEF Commit, CommitLost, Answer, Goto, TypeOK
  <2>2. Table!CommitTx(r) \/ Table!AbortTx(r)
    BY <1>13 DEF Commit, CommitLost
  <2>3. \A i \in BookIds : Live(dirty[r], i) => dirty[r][i].text \in entered[r]
    BY <2>1 DEF ControlInv, WritesCovered
  <2>4. TableInv' /\ HoldsNothing(r)'
    BY <2>2, <2>3, CommitKeeps, AbortKeeps
  <2>5. \A s \in Requests \ {r} : entered'[s] = entered[s] /\ dirty'[s] = dirty[s]
    BY <2>2, ReleaseEffect DEF Table!CommitTx, Table!AbortTx
  <2>6. ControlInv'
    BY <1>0, <2>1, <2>4, <2>5, ControlFrame
  <2> QED BY <2>4, <2>6
<1> QED
  BY <1>2, <1>5, <1>6, <1>7, <1>8, <1>9, <1>10, <1>11, <1>12, <1>13 DEF Works, Faults

LEMMA Invariance == Spec => []IndInv
<1>1. Init => IndInv
  BY InitInv
<1>2. IndInv /\ [Next]_vars => IndInv'
  BY StepInv
<1> QED BY <1>1, <1>2, PTL DEF Spec

-----------------------------------------------------------------------------
(* Deletions.  The row that a request is changing has the mark if the       *)
(* committed one has it, a DELETE about to commit has set it, and a 204 was *)
(* given to nobody else.                                                    *)

Marked(table, i) == table[i] # Absent /\ table[i].deleted

MarkKept ==
    \A t \in Requests : \A i \in BookIds :
        Table!Holds(t, i) /\ Marked(books, i) => Marked(dirty[t], i)

DeleteMarks ==
    \A r \in Requests :
        pc[r] = "commit" /\ op[r].kind = "delete" => Marked(dirty[r], op[r].id)

AnswerGiven ==
    \A r \in Requests : /\ pc[r] # "done" => status[r] = "none"
                        /\ status[r] = "NO_CONTENT" => Marked(books, op[r].id)
                        /\ status[r] = "NO_CONTENT" => op[r] \in DeleteOp

DeletionInv == MarkKept /\ DeleteMarks /\ AnswerGiven

\* A committed mark is never taken back.
LEMMA MarksStay ==
    ASSUME IndInv, DeletionInv, [Next]_vars, NEW i \in BookIds, Marked(books, i)
    PROVE  Marked(books', i)
<1>1. CASE UNCHANGED books
  BY <1>1 DEF Marked
<1>2. ASSUME NEW r \in Requests, Table!CommitTx(r) PROVE Marked(books', i)
  BY <1>2 DEF DeletionInv, MarkKept, Marked, Table!CommitTx, Table!Holds
<1> QED
  BY <1>1, <1>2
     DEF Next, Works, Faults, Receive, RefuseEmpty, Found, NotFound, DeleteRow, UpdateRow,
         RejectPatch, EnterIndex, UpdateConflict, InsertBook, CreateConflict, SkipBook,
         Commit, CommitLost, StatementLost, DeadlockVictim, Abort, Terminated, vars,
         Table!AbortTx

\* Whatever ends a transaction keeps the marks of the other writers' rows:
\* the row of a writer is not the one that was committed.
LEMMA EndKeepsMarks ==
    ASSUME IndInv, DeletionInv, NEW r \in Requests, Table!CommitTx(r) \/ Table!AbortTx(r)
    PROVE  MarkKept'
<1>1. /\ \A i \in BookIds : dirty'[r][i] = Absent
      /\ \A s \in Requests \ {r} : dirty'[s] = dirty[s]
  BY ReleaseEffect DEF IndInv, Table!CommitTx, Table!AbortTx
<1>2. \A i \in BookIds : books'[i] = books[i] \/ dirty[r][i] # Absent
  BY DEF Table!CommitTx, Table!AbortTx, Table!Holds
<1> QED
  BY <1>1, <1>2
     DEF DeletionInv, MarkKept, Marked, IndInv, TableInv, OneWriter, Table!Holds

\* An answer is given once, with everything else about it unchanged.
LEMMA AnswerFrame ==
    ASSUME IndInv, DeletionInv, [Next]_vars, NEW r \in Requests,
           \A s \in Requests \ {r} : pc'[s] = pc[s] /\ op'[s] = op[s] /\ status'[s] = status[s],
           \/ pc[r] # "done" /\ status'[r] = "none"
           \/ pc'[r] = "done" /\ status'[r] # "NO_CONTENT"
           \/ pc'[r] = "done" /\ op'[r] \in DeleteOp /\ Marked(books', op'[r].id)
    PROVE  AnswerGiven'
<1> SUFFICES ASSUME NEW s \in Requests, s # r
             PROVE  /\ pc'[s] # "done" => status'[s] = "none"
                    /\ status'[s] = "NO_CONTENT" => Marked(books', op'[s].id)
                    /\ status'[s] = "NO_CONTENT" => op'[s] \in DeleteOp
  BY DEF AnswerGiven
<1>1. status[s] = "NO_CONTENT" => op[s].id \in BookIds /\ Marked(books, op[s].id)
  BY DEF DeletionInv, AnswerGiven, DeleteOp
<1> QED BY <1>1, MarksStay DEF DeletionInv, AnswerGiven

LEMMA InitDeletion == ASSUME Init PROVE DeletionInv
BY DEF Init, DeletionInv, MarkKept, DeleteMarks, AnswerGiven, Table!Holds

LEMMA StepDeletion == ASSUME IndInv, DeletionInv, [Next]_vars PROVE DeletionInv'
<1>1. ASSUME UNCHANGED vars PROVE DeletionInv'
  BY <1>1 DEF vars, DeletionInv, MarkKept, DeleteMarks, AnswerGiven, Marked, Table!Holds
<1>2. SUFFICES ASSUME NEW r \in Requests,
                      Receive(r) \/ RefuseEmpty(r) \/ Works(r) \/ Faults(r)
               PROVE  DeletionInv'
  BY <1>1 DEF Next, Terminated
<1> USE DEF IndInv
<1>3. ASSUME NEW a \in Statuses, a # "NO_CONTENT", Abort(r, a) PROVE DeletionInv'
  <2>1. /\ MarkKept'
        /\ \A s \in Requests \ {r} : dirty'[s] = dirty[s]
    BY <1>3, EndKeepsMarks, ReleaseEffect DEF Abort, Table!AbortTx
  <2>2. /\ pc'[r] = "done" /\ status'[r] = a /\ UNCHANGED op
        /\ \A s \in Requests \ {r} : pc'[s] = pc[s] /\ status'[s] = status[s]
    BY <1>3 DEF Abort, Answer, Goto, TypeOK
  <2>3. DeleteMarks'
    BY <2>1, <2>2 DEF DeletionInv, DeleteMarks, Marked
  <2>4. AnswerGiven'
    BY <1>3, <2>2, AnswerFrame
  <2> QED BY <2>1, <2>3, <2>4 DEF DeletionInv
<1>4. ASSUME UNCHANGED books, pc[r] # "done", pc'[r] # "done", MarkKept',
             \A s \in Requests \ {r} : /\ pc'[s] = pc[s] /\ op'[s] = op[s]
                                      /\ dirty'[s] = dirty[s],
             UNCHANGED status,
             pc'[r] = "commit" /\ op'[r].kind = "delete" => Marked(dirty'[r], op'[r].id)
      PROVE  DeletionInv'
  <2>1. DeleteMarks'
    BY <1>4 DEF DeletionInv, DeleteMarks, Marked
  <2>2. status[r] = "none"
    BY <1>4 DEF DeletionInv, AnswerGiven
  <2>3. AnswerGiven'
    BY <1>4, <2>2, AnswerFrame
  <2> QED BY <1>4, <2>1, <2>3 DEF DeletionInv
<1>5. UNCHANGED <<books, dirty>> => MarkKept'
  BY DEF DeletionInv, MarkKept, Marked, Table!Holds
<1>6. CASE Receive(r)
  <2>1. PICK o \in Ops : /\ op' = [op EXCEPT ![r] = o]
                         /\ pc' = [pc EXCEPT ![r] = FirstStatement(o)]
    BY <1>6 DEF Receive, Goto
  <2>2. o \in Operation
    BY OpsAssumption
  <2>3. /\ FirstStatement(o) \in {"exists", "insert", "commit"}
        /\ FirstStatement(o) = "commit" => o.kind = "upload"
    BY <2>2, OperationShape DEF FirstStatement
  <2> QED BY <1>4, <1>5, <1>6, <2>1, <2>3 DEF Receive, TypeOK
<1>7. CASE RefuseEmpty(r)
  <2>1. PICK o \in Ops : op' = [op EXCEPT ![r] = o]
    BY <1>7 DEF RefuseEmpty
  <2>2. /\ UNCHANGED <<books, dirty>> /\ pc'[r] = "done" /\ status'[r] = "BAD_REQUEST"
        /\ \A s \in Requests \ {r} : pc'[s] = pc[s] /\ op'[s] = op[s] /\ status'[s] = status[s]
    BY <1>7, <2>1 DEF RefuseEmpty, Answer, Goto, TypeOK
  <2>3. DeleteMarks'
    BY <2>2 DEF DeletionInv, DeleteMarks, Marked
  <2>4. AnswerGiven'
    BY <2>2, AnswerFrame
  <2> QED BY <1>5, <2>2, <2>3, <2>4 DEF DeletionInv
<1>8. CASE Found(r) \/ EnterIndex(r)
  <2>1. pc[r] = "index" => op[r].kind # "delete"
    BY OperationShape DEF ControlInv, OpFits
  <2> QED BY <1>4, <1>5, <1>8, <2>1 DEF Found, EnterIndex, Goto, TypeOK
<1>9. CASE NotFound(r) \/ UpdateConflict(r) \/ CreateConflict(r)
  BY <1>3, <1>9 DEF NotFound, UpdateConflict, CreateConflict, Statuses
<1>10. CASE RejectPatch(r) \/ StatementLost(r) \/ DeadlockVictim(r)
  <2>1. pc[r] # "idle" /\ Abort(r, Failure(op[r]))
    BY <1>10, DeadlockWaits DEF RejectPatch, StatementLost, DeadlockVictim
  <2>2. Failure(op[r]) \in Statuses \ {"NO_CONTENT"}
    BY DEF Failure, Statuses
  <2> QED BY <1>3, <2>1, <2>2
<1>11. CASE DeleteRow(r) \/ UpdateRow(r)
  <2>1. op[r].id \in BookIds /\ op[r] \in Operation /\ pc[r] = "write"
    BY <1>11, OperationShape DEF DeleteRow, UpdateRow, ControlInv, OpFits
  <2>2. books[op[r].id] \in Book
    BY <2>1 DEF ControlInv, FoundRow, TypeOK, Table!TypeInvariant
  <2>3. PICK book \in Book :
            /\ Table!Write(r, op[r].id, book)
            /\ books[op[r].id].deleted => book.deleted
            /\ op[r].kind = "delete" => book.deleted
    <3>1. CASE DeleteRow(r)
      BY <2>2, <3>1, DeletedType DEF DeleteRow
    <3>2. CASE UpdateRow(r)
      <4>1. op[r].patch \in [Fields -> Texts \cup {UNSET, NULL}]
        BY <2>1, <3>2, OperationShape DEF UpdateRow
      <4> QED BY <2>2, <3>2, <4>1, PatchedType DEF UpdateRow
    <3> QED BY <1>11, <3>1, <3>2
  <2>4. /\ dirty'[r] = [dirty[r] EXCEPT ![op[r].id] = book]
        /\ \A s \in Requests \ {r} : dirty'[s] = dirty[s]
        /\ book # Absent /\ UNCHANGED <<books, op, status>>
    BY <1>11, <2>3, MarkerAssumption
       DEF DeleteRow, UpdateRow, Table!Write, TypeOK, Table!TypeInvariant
  <2>5. /\ dirty'[r][op[r].id] = book
        /\ \A i \in BookIds \ {op[r].id} : dirty'[r][i] = dirty[r][i]
    BY <2>1, <2>4 DEF TypeOK, Table!TypeInvariant
  <2>6. MarkKept'
    <3>1. ASSUME NEW t \in Requests, NEW i \in BookIds,
                 t # r \/ i # op[r].id, Table!Holds(t, i)', Marked(books, i)'
          PROVE  Marked(dirty[t], i)'
      <4>1. dirty'[t][i] = dirty[t][i] /\ books' = books
        BY <2>4, <2>5, <3>1
      <4> QED BY <3>1, <4>1 DEF DeletionInv, MarkKept, Marked, Table!Holds
    <3>2. ASSUME Marked(books, op[r].id)' PROVE Marked(dirty[r], op[r].id)'
      <4>1. books' = books /\ op' = op
        BY <2>4
      <4> QED BY <2>3, <2>4, <2>5, <3>2, <4>1 DEF Marked
    <3>3. op' = op
      BY <2>4
    <3> QED BY <3>1, <3>2, <3>3 DEF MarkKept
  <2>7. pc'[r] # "done" /\ \A s \in Requests \ {r} : pc'[s] = pc[s]
    BY <1>11 DEF DeleteRow, UpdateRow, Goto, TypeOK
  <2> QED BY <1>4, <2>1, <2>3, <2>4, <2>5, <2>6, <2>7 DEF Marked
<1>12. CASE InsertBook(r) \/ SkipBook(r)
  <2>1. /\ UNCHANGED <<books, op, status>> /\ pc[r] = "insert"
        /\ pc'[r] \in {"insert", "commit"} /\ \A s \in Requests \ {r} : pc'[s] = pc[s]
    BY <1>12 DEF InsertBook, SkipBook, NextItem, Goto, TypeOK
  <2>2. op[r].kind # "delete"
    BY <2>1, OperationShape DEF ControlInv, OpFits
  <2>3. MarkKept' /\ \A s \in Requests \ {r} : dirty'[s] = dirty[s]
    <3>1. CASE SkipBook(r)
      BY <1>5, <2>1, <3>1 DEF SkipBook
    <3>2. CASE InsertBook(r)
      <4>1. PICK k \in BookIds : Table!Write(r, k, Wanted(r)) /\ books[k] = Absent
        BY <3>2 DEF InsertBook, Table!FreeIds
      <4> QED BY <2>1, <4>1
              DEF DeletionInv, MarkKept, Marked, Table!Holds, Table!Write, TypeOK,
                  Table!TypeInvariant
    <3> QED BY <1>12, <3>1, <3>2
  <2> QED BY <1>4, <2>1, <2>2, <2>3
<1>13. CASE Commit(r) \/ CommitLost(r)
  <2>1. pc[r] = "commit" /\ op[r] \in Operation /\ UNCHANGED op
    BY <1>13 DEF Commit, CommitLost, ControlInv, OpFits
  <2>2. /\ MarkKept'
        /\ \A s \in Requests \ {r} : dirty'[s] = dirty[s]
    BY <1>13, EndKeepsMarks, ReleaseEffect DEF Commit, CommitLost, Table!AbortTx, Table!CommitTx
  <2>3. /\ pc'[r] = "done"
        /\ \A s \in Requests \ {r} : pc'[s] = pc[s] /\ status'[s] = status[s]
    BY <1>13 DEF Commit, CommitLost, Answer, Goto, TypeOK
  <2>4. DeleteMarks'
    BY <2>1, <2>2, <2>3 DEF DeletionInv, DeleteMarks, Marked
  <2>5. CASE op[r] \in DeleteOp /\ Commit(r)
    <3>1. Marked(dirty[r], op[r].id) /\ op[r].id \in BookIds
      BY <2>1, <2>5, OperationShape DEF DeletionInv, DeleteMarks
    <3>2. Marked(books', op[r].id)
      BY <2>5, <3>1 DEF Commit, Table!CommitTx, Marked, Table!Holds
    <3> QED BY <2>1, <2>2, <2>3, <2>4, <2>5, <3>2, AnswerFrame DEF DeletionInv
  <2>6. CASE ~(op[r] \in DeleteOp /\ Commit(r))
    <3>1. status'[r] # "NO_CONTENT"
      BY <1>13, <2>1, <2>6, OperationShape
         DEF Commit, CommitLost, Answer, Success, Failure, TypeOK
    <3> QED BY <2>1, <2>2, <2>3, <2>4, <3>1, AnswerFrame DEF DeletionInv
  <2> QED BY <2>5, <2>6
<1> QED
  BY <1>2, <1>6, <1>7, <1>8, <1>9, <1>10, <1>11, <1>12, <1>13 DEF Works, Faults
-----------------------------------------------------------------------------
(* The theorems. *)

\* For any texts the clients send, what is stored fits its columns, and the
\* statements run by a request are those of its operation.
THEOREM TypeCorrect == Spec => []TypeOK
BY Invariance, PTL DEF IndInv

\* For any number of concurrent requests, with failures at any point, no
\* two live books share title, year and author.
THEOREM KeysStayDistinct == Spec => []LiveKeysDistinct
<1>1. IndInv => LiveKeysDistinct
  BY DEF IndInv, TableInv
<1> QED BY <1>1, Invariance, PTL

\* A book whose deletion was acknowledged stays deleted, whatever was under
\* way when it was deleted and whatever fails later.
THEOREM DeletionsAreFinal == Spec => []DeletionIsFinal
<1>1. Init => DeletionInv
  BY InitDeletion
<1>2. IndInv /\ DeletionInv /\ [Next]_vars => DeletionInv'
  BY StepDeletion
<1>3. DeletionInv => DeletionIsFinal
  BY DEF DeletionInv, AnswerGiven, Marked, DeletionIsFinal
<1> QED BY <1>1, <1>2, <1>3, Invariance, PTL DEF Spec

-----------------------------------------------------------------------------
(* What an open transaction has written is what its request asked for. *)

\* r holds the row i and no other.
HoldsOnly(r, i) == \A j \in BookIds : Table!Holds(r, j) <=> j = i

\* A row r has inserted: nobody else knows it yet.
Inserted(r, i, text) == books[i] = Absent /\ dirty[r][i] = NewBook(text)

UpdateWrote(r) ==
    pc[r] \in {"index", "commit"} /\ op[r] \in UpdateOp =>
        /\ HoldsOnly(r, op[r].id) /\ books[op[r].id] # Absent
        /\ dirty[r][op[r].id] = Patched(books[op[r].id], op[r].patch)
        /\ pc[r] = "index" => entered[r] = {}

DeleteWrote(r) ==
    pc[r] = "commit" /\ op[r] \in DeleteOp =>
        /\ HoldsOnly(r, op[r].id) /\ books[op[r].id] # Absent
        /\ dirty[r][op[r].id] = Deleted(books[op[r].id])

CreateWrote(r) ==
    op[r] \in CreateOp =>
        /\ pc[r] = "insert" => HoldsNothing(r)
        /\ pc[r] = "commit" =>
               \E i \in BookIds : HoldsOnly(r, i) /\ Inserted(r, i, op[r].text)

\* The items of its batch an upload has been through.
Saved(r) == IF pc[r] = "insert" THEN 1 .. at[r] - 1 ELSE DOMAIN op[r].batch

UploadWrote(r) ==
    pc[r] \in {"insert", "commit"} /\ op[r] \in UploadOp =>
        /\ \A i \in BookIds : Table!Holds(r, i) =>
               \E k \in Saved(r) : Inserted(r, i, op[r].batch[k])
        /\ \A key \in entered[r] : \E k \in Saved(r) : key = NewBook(op[r].batch[k]).text

Wrote(r) == UpdateWrote(r) /\ DeleteWrote(r) /\ CreateWrote(r) /\ UploadWrote(r)

\* A request has an operation from its receipt and an answer at its end.
Progress(r) == /\ pc[r] = "idle" => op[r] = NoOp
               /\ pc[r] # "idle" => op[r] \in Ops
               /\ pc[r] # "done" => status[r] = "none"

EffectInv == \A r \in Requests : Wrote(r) /\ Progress(r)

\* What releases, writes or enters for one request leaves the others alone.
LEMMA ReleaseFrame ==
    ASSUME TypeOK, NEW r \in Requests, NEW s \in Requests \ {r}, Table!Release(r)
    PROVE  dirty'[s] = dirty[s] /\ entered'[s] = entered[s]
BY DEF Table!Release, TypeOK, Table!TypeInvariant

\* A step of the store on a request changes the locks of no other one.
LEMMA LocksFrame ==
    ASSUME TypeOK, NEW r \in Requests, NEW s \in Requests \ {r},
           Receive(r) \/ RefuseEmpty(r) \/ Works(r) \/ Faults(r)
    PROVE  dirty'[s] = dirty[s] /\ entered'[s] = entered[s]
<1>1. CASE Table!Release(r)
  BY <1>1, ReleaseFrame
<1>2. CASE Table!CommitTx(r) \/ Table!AbortTx(r)
  BY <1>1, <1>2 DEF Table!CommitTx, Table!AbortTx
<1>3. ASSUME NEW a, Abort(r, a)
      PROVE  dirty'[s] = dirty[s] /\ entered'[s] = entered[s]
  BY <1>2, <1>3 DEF Abort
<1>4. CASE Receive(r) \/ RefuseEmpty(r) \/ Found(r)
  BY <1>4 DEF Receive, RefuseEmpty, Found
<1>5. CASE NotFound(r) \/ RejectPatch(r) \/ UpdateConflict(r) \/ CreateConflict(r)
           \/ DeadlockVictim(r) \/ StatementLost(r)
  BY <1>3, <1>5 DEF NotFound, RejectPatch, UpdateConflict, CreateConflict,
     DeadlockVictim, StatementLost
<1>6. CASE DeleteRow(r) \/ UpdateRow(r)
  BY <1>6 DEF DeleteRow, UpdateRow, Table!Write, TypeOK, Table!TypeInvariant
<1>7. CASE EnterIndex(r)
  BY <1>7 DEF EnterIndex, Table!Enter, TypeOK, Table!TypeInvariant
<1>8. CASE InsertBook(r)
  BY <1>8 DEF InsertBook, Table!Write, Table!Enter, TypeOK, Table!TypeInvariant
<1>9. CASE SkipBook(r)
  BY <1>9 DEF SkipBook
<1>10. CASE Commit(r) \/ CommitLost(r)
  BY <1>2, <1>10 DEF Commit, CommitLost
<1> QED BY <1>4, <1>5, <1>6, <1>7, <1>8, <1>9, <1>10 DEF Works, Faults


\* A step of r leaves the others where they are, and the rows they hold.
LEMMA OthersFrame ==
    ASSUME IndInv, NEW r \in Requests, NEW s \in Requests \ {r},
           Receive(r) \/ RefuseEmpty(r) \/ Works(r) \/ Faults(r)
    PROVE  /\ pc'[s] = pc[s] /\ op'[s] = op[s] /\ at'[s] = at[s] /\ status'[s] = status[s]
           /\ dirty'[s] = dirty[s] /\ entered'[s] = entered[s]
           /\ \A i \in BookIds : Table!Holds(s, i) => books'[i] = books[i]
<1>1. dirty'[s] = dirty[s] /\ entered'[s] = entered[s]
  BY LocksFrame DEF IndInv
<1>2. ASSUME NEW a, Answer(r, a) PROVE pc'[s] = pc[s] /\ status'[s] = status[s]
  BY <1>2 DEF Answer, Goto, IndInv, TypeOK
<1>3. ASSUME NEW l, Goto(r, l) PROVE pc'[s] = pc[s]
  BY <1>3 DEF Goto, IndInv, TypeOK
<1>4. pc'[s] = pc[s] /\ op'[s] = op[s] /\ at'[s] = at[s] /\ status'[s] = status[s]
  <2>1. CASE Receive(r) \/ RefuseEmpty(r)
    BY <1>2, <1>3, <2>1 DEF Receive, RefuseEmpty, IndInv, TypeOK
  <2>2. ASSUME NEW a, Abort(r, a)
        PROVE  pc'[s] = pc[s] /\ op'[s] = op[s] /\ at'[s] = at[s] /\ status'[s] = status[s]
    BY <1>2, <2>2 DEF Abort
  <2>3. CASE \/ NotFound(r) \/ RejectPatch(r) \/ UpdateConflict(r) \/ CreateConflict(r)
             \/ DeadlockVictim(r) \/ StatementLost(r)
    BY <2>2, <2>3 DEF NotFound, RejectPatch, UpdateConflict, CreateConflict,
       DeadlockVictim, StatementLost
  <2>4. CASE Found(r) \/ DeleteRow(r) \/ UpdateRow(r) \/ EnterIndex(r)
    BY <1>3, <2>4 DEF Found, DeleteRow, UpdateRow, EnterIndex
  <2>5. CASE InsertBook(r) \/ SkipBook(r)
    BY <1>3, <2>5 DEF InsertBook, SkipBook, NextItem, IndInv, TypeOK
  <2>6. CASE Commit(r) \/ CommitLost(r)
    BY <1>2, <2>6 DEF Commit, CommitLost
  <2> QED BY <2>1, <2>3, <2>4, <2>5, <2>6 DEF Works, Faults
<1>5. ASSUME NEW i \in BookIds, Table!Holds(s, i) PROVE books'[i] = books[i]
  <2>1. UNCHANGED books \/ Table!CommitTx(r)
    BY DEF Receive, RefuseEmpty, Works, Faults, Found, NotFound, DeleteRow, UpdateRow,
       RejectPatch, EnterIndex, UpdateConflict, InsertBook, CreateConflict, SkipBook,
       Commit, CommitLost, StatementLost, DeadlockVictim, Abort, Table!AbortTx
  <2>2. ~Table!Holds(r, i)
    BY <1>5 DEF IndInv, TableInv, OneWriter
  <2>3. CASE Table!CommitTx(r)
    BY <2>2, <2>3 DEF Table!CommitTx, IndInv, TypeOK, Table!TypeInvariant
  <2> QED BY <2>1, <2>3
<1> QED BY <1>1, <1>4, <1>5

\* So what the others have written still is what they were asked.
LEMMA OthersWrote ==
    ASSUME IndInv, NEW r \in Requests, NEW s \in Requests \ {r}, Wrote(s), Progress(s),
           Receive(r) \/ RefuseEmpty(r) \/ Works(r) \/ Faults(r)
    PROVE  Wrote(s)' /\ Progress(s)'
<1>1. /\ pc'[s] = pc[s] /\ op'[s] = op[s] /\ at'[s] = at[s] /\ status'[s] = status[s]
      /\ dirty'[s] = dirty[s] /\ entered'[s] = entered[s]
      /\ \A i \in BookIds : Table!Holds(s, i) => books'[i] = books[i]
  BY OthersFrame
<1>2. UpdateWrote(s)'
  <2>1. op[s] \in UpdateOp => op[s].id \in BookIds
    BY DEF UpdateOp
  <2> QED BY <1>1, <2>1 DEF Wrote, UpdateWrote, HoldsOnly, Table!Holds
<1>3. DeleteWrote(s)'
  <2>1. op[s] \in DeleteOp => op[s].id \in BookIds
    BY DEF DeleteOp
  <2> QED BY <1>1, <2>1 DEF Wrote, DeleteWrote, HoldsOnly, Table!Holds
<1>4. CreateWrote(s)'
  BY <1>1 DEF Wrote, CreateWrote, HoldsOnly, HoldsNothing, Inserted, Table!Holds
<1>5. UploadWrote(s)'
  <2>1. /\ Saved(s)' = Saved(s)
        /\ \A i \in BookIds : Table!Holds(s, i)' <=> Table!Holds(s, i)
    BY <1>1 DEF Saved, Table!Holds
  <2>2. \A i \in BookIds : \A text :
            Table!Holds(s, i) /\ Inserted(s, i, text) => Inserted(s, i, text)'
    BY <1>1 DEF Inserted
  <2> QED BY <1>1, <2>1, <2>2 DEF Wrote, UploadWrote
<1>6. Progress(s)'
  BY <1>1 DEF Progress
<1> QED BY <1>2, <1>3, <1>4, <1>5, <1>6 DEF Wrote

\* The operation of a request is of one kind.
LEMMA OneKind ==
    ASSUME NEW o \in Operation
    PROVE  /\ o \in UpdateOp => o \notin CreateOp /\ o \notin DeleteOp /\ o \notin UploadOp
           /\ o \in DeleteOp => o \notin CreateOp /\ o \notin UploadOp
           /\ o \in CreateOp => o \notin UploadOp
BY OperationShape

\* What r has written after its own step is what it was asked.
LEMMA OwnWrote ==
    ASSUME IndInv, NEW r \in Requests, Wrote(r), Progress(r),
           Receive(r) \/ RefuseEmpty(r) \/ Works(r) \/ Faults(r)
    PROVE  Wrote(r)' /\ Progress(r)'
<1> USE DEF IndInv
<1>0. pc[r] # "idle" => op[r] \in Operation
  BY DEF ControlInv, OpFits
<1>1. ASSUME pc'[r] = "done", op'[r] \in Ops PROVE Wrote(r)' /\ Progress(r)'
  BY <1>1 DEF Wrote, UpdateWrote, DeleteWrote, CreateWrote, UploadWrote, Progress
<1>2. ASSUME NEW a, Answer(r, a) PROVE pc'[r] = "done"
  BY <1>2 DEF Answer, Goto, TypeOK
<1>3. CASE \/ RefuseEmpty(r) \/ NotFound(r) \/ RejectPatch(r) \/ UpdateConflict(r)
           \/ CreateConflict(r) \/ DeadlockVictim(r) \/ StatementLost(r)
           \/ Commit(r) \/ CommitLost(r)
  <2>1. pc'[r] = "done"
    BY <1>2, <1>3
       DEF RefuseEmpty, NotFound, RejectPatch, UpdateConflict, CreateConflict, DeadlockVictim,
           StatementLost, Commit, CommitLost, Abort
  <2>2. op'[r] \in Ops
    <3>1. CASE RefuseEmpty(r)
      BY <3>1 DEF RefuseEmpty, TypeOK
    <3>2. CASE ~RefuseEmpty(r)
      BY <1>3, <3>2, DeadlockWaits
         DEF NotFound, RejectPatch, UpdateConflict, CreateConflict, DeadlockVictim,
             StatementLost, Commit, CommitLost, Abort, Progress
    <3> QED BY <3>1, <3>2
  <2> QED BY <1>1, <2>1, <2>2
<1>4. CASE Receive(r)
  <2>1. PICK o \in Ops : /\ op' = [op EXCEPT ![r] = o]
                         /\ pc' = [pc EXCEPT ![r] = FirstStatement(o)]
    BY <1>4 DEF Receive, Goto
  <2>2. /\ o \in Operation /\ op'[r] = o /\ pc'[r] = FirstStatement(o)
        /\ UNCHANGED <<books, dirty, entered, at, status>> /\ pc[r] = "idle"
    BY <1>4, <2>1, OpsAssumption DEF Receive, TypeOK
  <2>3. /\ HoldsNothing(r) /\ status[r] = "none"
    BY <2>2 DEF ControlInv, IdleHoldsNothing, Progress
  <2>4. HoldsNothing(r)'
    BY <2>2, <2>3 DEF HoldsNothing, Table!Holds
  <2>5. /\ o \in UpdateOp \cup DeleteOp => FirstStatement(o) = "exists"
        /\ o \in CreateOp => FirstStatement(o) = "insert"
    BY <2>2, OperationShape DEF FirstStatement
  <2>6. FirstStatement(o) # "idle"
    BY <2>2, OperationShape DEF FirstStatement
  <2>7. UpdateWrote(r)' /\ DeleteWrote(r)' /\ CreateWrote(r)'
    BY <2>2, <2>4, <2>5 DEF UpdateWrote, DeleteWrote, CreateWrote
  <2>8. UploadWrote(r)'
    BY <2>4 DEF UploadWrote, HoldsNothing
  <2>9. Progress(r)'
    BY <2>2, <2>3, <2>6 DEF Progress
  <2> QED BY <2>7, <2>8, <2>9 DEF Wrote
<1>5. CASE Found(r)
  <2>1. pc'[r] = "write" /\ op' = op /\ status' = status /\ op[r] \in UpdateOp \cup DeleteOp
    BY <1>5 DEF Found, Goto, TypeOK, ControlInv, OpFits
  <2> QED BY <1>0, <1>5, <2>1, OneKind
          DEF Found, Wrote, UpdateWrote, DeleteWrote, CreateWrote, UploadWrote, Progress
<1>6. CASE DeleteRow(r) \/ UpdateRow(r)
  <2>1. /\ op[r] \in Operation /\ op[r].id \in BookIds /\ HoldsNothing(r)
        /\ pc[r] = "write" /\ UNCHANGED <<books, entered, op, status>>
    BY <1>6, OperationShape DEF DeleteRow, UpdateRow, ControlInv, OpFits, IdleHoldsNothing
  <2>2. books[op[r].id] \in Book /\ books[op[r].id] # Absent
    BY <2>1, MarkerAssumption DEF ControlInv, FoundRow, TypeOK, Table!TypeInvariant
  <2>3. ASSUME NEW book \in Book, Table!Write(r, op[r].id, book)
        PROVE  HoldsOnly(r, op[r].id)' /\ dirty'[r][op[r].id] = book
    BY <2>1, <2>3, MarkerAssumption
       DEF Table!Write, HoldsOnly, HoldsNothing, Table!Holds, TypeOK, Table!TypeInvariant
  <2>4. CASE DeleteRow(r)
    <3>1. op[r] \in DeleteOp /\ pc'[r] = "commit"
      BY <2>1, <2>4, OperationShape DEF DeleteRow, Goto, TypeOK
    <3>2. HoldsOnly(r, op[r].id)' /\ dirty'[r][op[r].id] = Deleted(books[op[r].id])
      BY <2>2, <2>3, <2>4, DeletedType DEF DeleteRow
    <3> QED BY <2>1, <2>2, <3>1, <3>2, OneKind
            DEF Wrote, UpdateWrote, DeleteWrote, CreateWrote, UploadWrote, Progress
  <2>5. CASE UpdateRow(r)
    <3>1. op[r] \in UpdateOp /\ pc'[r] = "index" /\ Storable(op[r].patch)
          /\ op[r].patch \in [Fields -> Texts \cup {UNSET, NULL}]
      BY <2>1, <2>5, OperationShape DEF UpdateRow, Goto, TypeOK
    <3>2. /\ HoldsOnly(r, op[r].id)'
          /\ dirty'[r][op[r].id] = Patched(books[op[r].id], op[r].patch)
      BY <2>2, <2>3, <2>5, <3>1, PatchedType DEF UpdateRow
    <3> QED BY <2>1, <2>2, <3>1, <3>2, OneKind
            DEF Wrote, UpdateWrote, DeleteWrote, CreateWrote, UploadWrote, Progress, HoldsNothing
  <2> QED BY <1>6, <2>4, <2>5
<1>7. CASE EnterIndex(r)
  <2>1. op[r] \in UpdateOp /\ pc[r] = "index" /\ pc'[r] = "commit"
        /\ UNCHANGED <<books, dirty, op, status>>
    BY <1>7 DEF EnterIndex, Goto, TypeOK, ControlInv, OpFits
  <2> QED BY <1>0, <2>1, OneKind
          DEF Wrote, UpdateWrote, DeleteWrote, CreateWrote, UploadWrote, Progress, HoldsOnly,
              Table!Holds
<1>8. CASE InsertBook(r) \/ SkipBook(r)
  <2>1. /\ pc[r] = "insert" /\ op[r] \in Operation /\ NextItem(r) /\ UNCHANGED <<books, op, status>>
        /\ op[r] \in CreateOp \/ (op[r] \in UploadOp /\ at[r] \in DOMAIN op[r].batch)
    BY <1>8, <1>0 DEF InsertBook, SkipBook, ControlInv, OpFits
  <2>2. Progress(r)' /\ pc'[r] \in {"insert", "commit"}
    BY <2>1 DEF Progress, NextItem, Goto, TypeOK
  <2>3. ASSUME NEW i \in Table!FreeIds, Table!Write(r, i, Wanted(r))
        PROVE  /\ i \in BookIds /\ dirty'[r][i] = Wanted(r) /\ books'[i] = Absent
               /\ Wanted(r) # Absent
               /\ \A j \in BookIds \ {i} : dirty'[r][j] = dirty[r][j]
    BY <2>1, <2>3, WantedType, MarkerAssumption
       DEF Table!Write, Table!FreeIds, TypeOK, Table!TypeInvariant, ControlInv
  <2>4. CASE op[r] \in CreateOp
    <3>1. op[r].kind = "create" /\ InsertBook(r)
      BY <1>8, <2>1, <2>4, OperationShape DEF SkipBook
    <3>2. pc'[r] = "commit" /\ HoldsNothing(r)
      BY <2>1, <2>4, <3>1 DEF NextItem, Goto, TypeOK, Wrote, CreateWrote
    <3>3. PICK i \in Table!FreeIds : Table!Write(r, i, Wanted(r))
      BY <3>1 DEF InsertBook
    <3>4. i \in BookIds /\ HoldsOnly(r, i)' /\ Inserted(r, i, op[r].text)'
      BY <2>1, <2>3, <3>1, <3>2, <3>3
         DEF HoldsOnly, Inserted, HoldsNothing, Table!Holds, Wanted
    <3>5. CreateWrote(r)'
      BY <2>1, <3>2, <3>4 DEF CreateWrote, HoldsOnly, Inserted, Table!Holds
    <3> QED BY <2>1, <2>2, <2>4, <3>5, OneKind DEF Wrote, UpdateWrote, DeleteWrote, UploadWrote
  <2>5. CASE op[r] \in UploadOp /\ at[r] \in DOMAIN op[r].batch
    <3>1. /\ op[r].kind = "upload" /\ op[r].batch \in Seq([Fields -> Texts])
          /\ Wanted(r) = NewBook(op[r].batch[at[r]]) /\ at[r] \in Nat \ {0}
      BY <2>1, <2>5, OperationShape DEF Wanted, TypeOK
    <3>2. Saved(r) \cup {at[r]} \subseteq Saved(r)'
      <4>1. CASE at[r] < Len(op[r].batch)
        <5>1. at'[r] = at[r] + 1 /\ pc'[r] = "insert"
          BY <2>1, <3>1, <4>1 DEF NextItem, TypeOK
        <5> QED BY <2>1, <3>1, <5>1 DEF Saved
      <4>2. CASE ~(at[r] < Len(op[r].batch))
        <5>1. pc'[r] = "commit"
          BY <2>1, <4>2 DEF NextItem, Goto, TypeOK
        <5> QED BY <2>1, <2>5, <3>1, <5>1 DEF Saved
      <4> QED BY <4>1, <4>2
    <3>3. UploadWrote(r)
      BY DEF Wrote
    <3>4. UploadWrote(r)'
      <4>1. CASE SkipBook(r)
        <5>1. UNCHANGED <<dirty, entered>>
          BY <4>1 DEF SkipBook
        <5> QED BY <2>1, <2>5, <3>2, <3>3, <5>1 DEF UploadWrote, Inserted, Table!Holds
      <4>2. CASE InsertBook(r)
        <5>1. PICK i \in Table!FreeIds : Table!Write(r, i, Wanted(r))
          BY <4>2 DEF InsertBook
        <5>2. entered'[r] = entered[r] \cup {Wanted(r).text}
          BY <2>1, <4>2, WantedType, EntriesOfBook
             DEF InsertBook, Table!Enter, TypeOK, Table!TypeInvariant, ControlInv
        <5>3. \A j \in BookIds : Table!Holds(r, j)' =>
                  \E k \in Saved(r)' : Inserted(r, j, op[r].batch[k])'
          BY <2>1, <2>3, <2>5, <3>1, <3>2, <3>3, <5>1 DEF UploadWrote, Inserted, Table!Holds
        <5>4. \A key \in entered'[r] : \E k \in Saved(r)' : key = NewBook(op[r].batch[k]).text
          BY <2>1, <2>5, <3>1, <3>2, <3>3, <5>2 DEF UploadWrote
        <5> QED BY <2>1, <5>3, <5>4 DEF UploadWrote, Inserted, Table!Holds
      <4> QED BY <1>8, <4>1, <4>2
    <3> QED BY <2>1, <2>2, <2>5, <3>4, OneKind DEF Wrote, UpdateWrote, DeleteWrote, CreateWrote
  <2> QED BY <2>1, <2>4, <2>5
<1> QED BY <1>3, <1>4, <1>5, <1>6, <1>7, <1>8 DEF Works, Faults

LEMMA StepEffect == ASSUME IndInv, EffectInv, [Next]_vars PROVE EffectInv'
<1>1. ASSUME UNCHANGED vars PROVE EffectInv'
  <2> SUFFICES ASSUME NEW s \in Requests PROVE Wrote(s)' /\ Progress(s)'
    BY DEF EffectInv
  <2>1. Wrote(s) /\ Progress(s)
    BY DEF EffectInv
  <2> QED
    BY <1>1, <2>1
       DEF vars, Wrote, UpdateWrote, DeleteWrote, CreateWrote, UploadWrote, Progress, HoldsOnly,
           Inserted, HoldsNothing, Saved, Table!Holds
<1>2. ASSUME NEW r \in Requests, Receive(r) \/ RefuseEmpty(r) \/ Works(r) \/ Faults(r)
      PROVE  EffectInv'
  BY <1>2, OwnWrote, OthersWrote DEF EffectInv
<1> QED BY <1>1, <1>2 DEF Next, Terminated

LEMMA EffectInvariance == Spec => []EffectInv
<1>1. Init => EffectInv
  BY OneKind DEF Init, EffectInv, Wrote, UpdateWrote, DeleteWrote, CreateWrote, UploadWrote,
     HoldsNothing, Table!Holds, Progress
<1> QED BY <1>1, StepEffect, Invariance, PTL DEF Spec

-----------------------------------------------------------------------------
(* The contract: each answer is one step of Catalogue. *)

\* What the transaction of r would make of the table.
Outcome(r) == [i \in BookIds |-> IF Table!Holds(r, i) THEN dirty[r][i] ELSE books[i]]

\* A request that is about to commit has seen its book, if its kind looks.
LEMMA CommitterSaw ==
    ASSUME IndInv, NEW r \in Requests, pc[r] = "commit"
    PROVE  r \in Seen <=> op[r] \in UpdateOp \cup DeleteOp
BY OperationShape DEF IndInv, ControlInv, OpFits, Seen

\* The answer to an operation that went through.
LEMMA SuccessOf ==
    ASSUME NEW o
    PROVE  /\ o.kind = "create" => Success(o) = "CREATED"
           /\ o.kind = "update" => Success(o) = "OK"
           /\ o.kind = "delete" => Success(o) = "NO_CONTENT"
           /\ o.kind = "upload" => Success(o) = "ACK"
BY DEF Success

\* The contract speaks of the same books, operations and answers.
LEMMA ContractTerms ==
    /\ Contract!Book = Book /\ Contract!Statuses = Statuses
    /\ Contract!UpdateOp = UpdateOp /\ Contract!DeleteOp = DeleteOp
    /\ \A table : Contract!DistinctLiveKeys(table) <=> DistinctLiveKeys(table)
    /\ \A table, i : Contract!Live(table, i) <=> Live(table, i)
BY DEF Contract!Book, Book, Contract!Keys, Keys, Contract!Statuses, Statuses,
       Contract!UpdateOp, UpdateOp, Contract!DeleteOp, DeleteOp,
       Contract!DistinctLiveKeys, DistinctLiveKeys, Contract!Live, Live

\* The commit of a transaction is the effect its operation promises.
LEMMA CommitDoes ==
    ASSUME IndInv, EffectInv, NEW r \in Requests, pc[r] = "commit",
           DistinctLiveKeys(Outcome(r))
    PROVE  Contract!Does(op[r], r \in Seen, Success(op[r]), Outcome(r))
<1>1. op[r] \in Operation
  BY DEF IndInv, ControlInv, OpFits
<1>2. Outcome(r) \in [BookIds -> Book \cup {Absent}]
  BY DEF Outcome, IndInv, TypeOK, Table!TypeInvariant
<1>3. books \in [BookIds -> Book \cup {Absent}] /\ Absent \notin Book
  BY MarkerAssumption DEF IndInv, TypeOK, Table!TypeInvariant
<1>4. Contract!DistinctLiveKeys(Outcome(r)) /\ Contract!Book = Book
  BY ContractTerms
<1>5. CASE op[r] \in CreateOp
  <2>1. PICK i \in BookIds : HoldsOnly(r, i) /\ Inserted(r, i, op[r].text)
    BY <1>5 DEF EffectInv, Wrote, CreateWrote
  <2>2. op[r].kind = "create" /\ op[r].text \in [Fields -> Texts]
    BY <1>1, <1>5, OperationShape
  <2>3. NewBook(op[r].text) \in Book /\ ~NewBook(op[r].text).deleted
    BY <2>2, NewBookType
  <2>4. /\ \A j \in BookIds \ {i} : Outcome(r)[j] = books[j]
        /\ Outcome(r)[i] = NewBook(op[r].text) /\ books[i] = Absent
    BY <2>1 DEF Outcome, HoldsOnly, Inserted
  <2>5. Contract!Added(Outcome(r)) = {i}
    BY <1>3, <2>3, <2>4 DEF Contract!Added
  <2>6. Contract!OnlyAdds(Outcome(r))
    BY <1>2, <1>4, <2>3, <2>4, <2>5 DEF Contract!OnlyAdds
  <2>7. Contract!Stores(i, Outcome(r), op[r].text)
    BY <2>4 DEF Contract!Stores, NewBook
  <2>8. Contract!Create(op[r], "CREATED", Outcome(r))
    BY <1>4, <2>5, <2>6, <2>7 DEF Contract!Create
  <2> QED BY <2>2, <2>8, SuccessOf DEF Contract!Does
<1>6. CASE op[r] \in UpdateOp
  <2>1. HoldsOnly(r, op[r].id) /\ dirty[r][op[r].id] = Patched(books[op[r].id], op[r].patch)
    BY <1>6 DEF EffectInv, Wrote, UpdateWrote
  <2>2. op[r].kind = "update" /\ op[r].id \in BookIds /\ r \in Seen
    BY <1>1, <1>6, OperationShape, CommitterSaw
  <2>3. /\ \A j \in BookIds \ {op[r].id} : Outcome(r)[j] = books[j]
        /\ Outcome(r)[op[r].id] = Patched(books[op[r].id], op[r].patch)
        /\ Outcome(r)[op[r].id] # Absent
    BY <2>1, <2>2 DEF Outcome, HoldsOnly, Table!Holds
  <2>4. books[op[r].id] \in Book
    BY <1>3, <1>6, <2>2 DEF EffectInv, Wrote, UpdateWrote
  <2>5. /\ Outcome(r)[op[r].id].deleted = books[op[r].id].deleted
        /\ \A f \in Fields :
               Outcome(r)[op[r].id].text[f] =
                   IF op[r].patch[f] = UNSET THEN books[op[r].id].text[f] ELSE op[r].patch[f]
    BY <2>3, <2>4 DEF Patched, Book
  <2>6. Contract!Update(op[r], r \in Seen, "OK", Outcome(r))
    BY <1>2, <1>4, <2>2, <2>3, <2>5 DEF Contract!Update
  <2> QED BY <2>2, <2>6, SuccessOf DEF Contract!Does
<1>7. CASE op[r] \in DeleteOp
  <2>1. HoldsOnly(r, op[r].id) /\ dirty[r][op[r].id] = Deleted(books[op[r].id])
    BY <1>7 DEF EffectInv, Wrote, DeleteWrote
  <2>2. op[r].kind = "delete" /\ op[r].id \in BookIds /\ r \in Seen
    BY <1>1, <1>7, OperationShape, CommitterSaw
  <2>3. /\ \A j \in BookIds \ {op[r].id} : Outcome(r)[j] = books[j]
        /\ Outcome(r)[op[r].id] = Deleted(books[op[r].id])
        /\ Outcome(r)[op[r].id] # Absent
    BY <2>1, <2>2 DEF Outcome, HoldsOnly, Table!Holds
  <2>4. books[op[r].id] \in Book
    BY <1>3, <1>7, <2>2 DEF EffectInv, Wrote, DeleteWrote
  <2>5. /\ Outcome(r)[op[r].id].deleted
        /\ Outcome(r)[op[r].id].text = books[op[r].id].text
    BY <2>3, <2>4 DEF Deleted, Book
  <2>6. Outcome(r) = [books EXCEPT ![op[r].id] = Outcome(r)[op[r].id]]
    BY <1>2, <1>3, <2>2, <2>3
  <2>7. Contract!Delete(op[r], r \in Seen, "NO_CONTENT", Outcome(r))
    BY <2>2, <2>3, <2>5, <2>6 DEF Contract!Delete
  <2> QED BY <2>2, <2>7, SuccessOf DEF Contract!Does
<1>8. CASE op[r] \in UploadOp
  <2>1. op[r].kind = "upload" /\ op[r].batch \in Seq([Fields -> Texts])
    BY <1>1, <1>8, OperationShape
  <2>2. ASSUME NEW i \in BookIds, Table!Holds(r, i)
        PROVE  /\ books[i] = Absent /\ Outcome(r)[i] \in Book /\ ~Outcome(r)[i].deleted
               /\ \E k \in DOMAIN op[r].batch : Contract!Stores(i, Outcome(r), op[r].batch[k])
    <3>1. PICK k \in DOMAIN op[r].batch : Inserted(r, i, op[r].batch[k])
      BY <1>8, <2>2 DEF EffectInv, Wrote, UploadWrote, Saved
    <3>2. op[r].batch[k] \in [Fields -> Texts]
      BY <2>1
    <3>3. Outcome(r)[i] = NewBook(op[r].batch[k])
      BY <2>2, <3>1 DEF Outcome, Inserted
    <3> QED BY <3>1, <3>2, <3>3, NewBookType DEF Inserted, Contract!Stores, NewBook
  <2>3. \A i \in BookIds : ~Table!Holds(r, i) => Outcome(r)[i] = books[i]
    BY DEF Outcome
  <2>4. Contract!Added(Outcome(r)) = {i \in BookIds : Table!Holds(r, i)}
    BY <1>3, <2>2, <2>3 DEF Contract!Added
  <2>5. Contract!OnlyAdds(Outcome(r))
    BY <1>2, <1>4, <2>2, <2>3, <2>4 DEF Contract!OnlyAdds
  <2>6. Contract!Upload(op[r], "ACK", Outcome(r))
    BY <1>4, <2>2, <2>4, <2>5 DEF Contract!Upload
  <2> QED BY <2>1, <2>6, SuccessOf DEF Contract!Does
<1> QED BY <1>1, <1>5, <1>6, <1>7, <1>8 DEF Operation

\* The answer of a request ends its part in the contract.
LEMMA AnswerServes ==
    ASSUME IndInv, EffectInv, NEW r \in Requests, NEW a \in Statuses,
           Works(r) \/ Faults(r), Answer(r, a), UNCHANGED op, pc[r] \notin {"idle", "done"},
           \/ Contract!Does(op[r], r \in Seen, a, books')
           \/ Contract!Fails(op[r], r \in Seen, a, books')
    PROVE  Contract!Serve(r)
<1>1. op[r] # NoOp /\ status[r] = "none"
  BY MarkerAssumption DEF IndInv, ControlInv, OpFits, EffectInv, Progress
<1>2. pc'[r] = "done" /\ status' = [status EXCEPT ![r] = a]
  BY DEF Answer, Goto, IndInv, TypeOK
<1>3. \A s \in Requests \ {r} : pc'[s] = pc[s] /\ op'[s] = op[s]
  BY OthersFrame
<1>4. Seen' = Seen \ {r}
  BY <1>2, <1>3 DEF Seen
<1> QED BY <1>1, <1>2, <1>4, ContractTerms DEF Contract!Serve

\* A request that fails before its commit leaves the table as it was.
LEMMA FailureServes ==
    ASSUME IndInv, EffectInv, NEW r \in Requests, Works(r) \/ Faults(r),
           Abort(r, Failure(op[r])), pc[r] \notin {"idle", "done"}
    PROVE  Contract!Serve(r)
<1>1. Failure(op[r]) \in Statuses
  BY AnswerType DEF IndInv, ControlInv, OpFits
<1>2. Contract!Fails(op[r], r \in Seen, Failure(op[r]), books')
  BY DEF Abort, Table!AbortTx, Contract!Fails, Failure
<1> QED BY <1>1, <1>2, AnswerServes DEF Abort

\* An entry that is taken by a row is the key of a live book r does not hold.
LEMMA TakenByRow ==
    ASSUME IndInv, NEW r \in Requests, NEW book \in Book, entered[r] = {},
           Table!Taken(r, BookIndex[book])
    PROVE  \E j \in BookIds : ~Table!Holds(r, j) /\ Live(books, j) /\ books[j].text = book.text
<1>1. PICK j \in BookIds : ~Table!Holds(r, j) /\ BookIndex[book] \cap Table!Entries(books[j]) # {}
  BY DEF Table!Taken
<1>2. books[j] # Absent /\ books[j] \in Book
  BY <1>1 DEF Table!Entries, IndInv, TypeOK, Table!TypeInvariant
<1> QED BY <1>1, <1>2, EntriesOfBook DEF Table!Entries, Live

\* A conflict is answered while somebody else's live book has the key.
LEMMA ConflictServes ==
    ASSUME IndInv, EffectInv, NEW r \in Requests, UpdateConflict(r) \/ CreateConflict(r)
    PROVE  Contract!Serve(r)
<1>1. op[r] \in Operation /\ books' = books /\ Answer(r, "CONFLICT") /\ UNCHANGED op
  BY DEF UpdateConflict, CreateConflict, Abort, Table!AbortTx, IndInv, ControlInv, OpFits
<1>2. CASE UpdateConflict(r)
  <2>1. /\ op[r] \in UpdateOp /\ op[r].kind = "update" /\ op[r].id \in BookIds /\ r \in Seen
        /\ pc[r] = "index" /\ op[r].patch \in [Fields -> Texts \cup {UNSET, NULL}]
    BY <1>1, <1>2, OperationShape DEF UpdateConflict, Seen, IndInv, ControlInv, OpFits
  <2>2. /\ HoldsOnly(r, op[r].id) /\ books[op[r].id] \in Book /\ entered[r] = {}
        /\ dirty[r][op[r].id] = Patched(books[op[r].id], op[r].patch)
    BY <2>1 DEF EffectInv, Wrote, UpdateWrote, IndInv, TypeOK, Table!TypeInvariant
  <2>3. dirty[r][op[r].id] \in Book
    BY <2>1, <2>2 DEF HoldsOnly, Table!Holds, IndInv, TypeOK, Table!TypeInvariant
  <2>4. PICK j \in BookIds : /\ ~Table!Holds(r, j) /\ Live(books, j)
                             /\ books[j].text = dirty[r][op[r].id].text
    BY <1>2, <2>2, <2>3, TakenByRow DEF UpdateConflict, NewEntries
  <2>5. \A f \in Fields : op[r].patch[f] \in {UNSET, books[j].text[f]}
    BY <2>2, <2>4 DEF Patched, Book
  <2>6. j # op[r].id /\ Contract!Live(books, j)
    BY <2>1, <2>2, <2>4, ContractTerms DEF HoldsOnly
  <2>7. Contract!Update(op[r], r \in Seen, "CONFLICT", books')
    BY <1>1, <2>1, <2>5, <2>6 DEF Contract!Update
  <2>8. Contract!Does(op[r], r \in Seen, "CONFLICT", books')
    BY <2>1, <2>7 DEF Contract!Does
  <2> QED BY <1>1, <1>2, <2>1, <2>8, AnswerServes DEF Works, Statuses
<1>3. CASE CreateConflict(r)
  <2>1. /\ op[r] \in CreateOp /\ op[r].kind = "create" /\ pc[r] = "insert"
        /\ Wanted(r) = NewBook(op[r].text) /\ op[r].text \in [Fields -> Texts]
    BY <1>1, <1>3, OperationShape DEF CreateConflict, Wanted
  <2>2. entered[r] = {} /\ NewBook(op[r].text) \in Book
    BY <2>1, NewBookType DEF EffectInv, Wrote, CreateWrote, HoldsNothing
  <2>3. PICK j \in BookIds : Live(books, j) /\ books[j].text = NewBook(op[r].text).text
    BY <1>3, <2>1, <2>2, TakenByRow DEF CreateConflict
  <2>4. Contract!Create(op[r], "CONFLICT", books')
    BY <1>1, <2>3, ContractTerms DEF Contract!Create, Contract!Taken, NewBook
  <2>5. Contract!Does(op[r], r \in Seen, "CONFLICT", books')
    BY <2>1, <2>4 DEF Contract!Does
  <2> QED BY <1>1, <1>3, <2>1, <2>5, AnswerServes DEF Works, Statuses
<1> QED BY <1>2, <1>3

\* A commit has its effect at once, whether the client hears of it or not.
LEMMA CommitServes ==
    ASSUME IndInv, EffectInv, IndInv', NEW r \in Requests, Commit(r) \/ CommitLost(r)
    PROVE  Contract!Serve(r)
<1>1. op[r] \in Operation /\ pc[r] = "commit" /\ UNCHANGED op
  BY DEF Commit, CommitLost, IndInv, ControlInv, OpFits
<1>2. ASSUME Table!CommitTx(r)
      PROVE  Contract!Does(op[r], r \in Seen, Success(op[r]), books')
  <2>1. books' = Outcome(r)
    BY <1>2 DEF Table!CommitTx, Outcome
  <2>2. DistinctLiveKeys(books')
    BY DEF IndInv, TableInv, LiveKeysDistinct
  <2> QED BY <1>1, <2>1, <2>2, CommitDoes
<1>3. Success(op[r]) \in {"CREATED", "OK", "NO_CONTENT", "ACK"}
  BY <1>1, SuccessOf, OperationShape
<1>4. CASE Commit(r)
  BY <1>1, <1>2, <1>4, AnswerServes, AnswerType DEF Commit, Works
<1>5. CASE CommitLost(r)
  <2>1. books' = books \/ Contract!Does(op[r], r \in Seen, Success(op[r]), books')
    BY <1>2, <1>5 DEF CommitLost, Table!AbortTx
  <2>2. Contract!Fails(op[r], r \in Seen, Failure(op[r]), books')
    BY <1>3, <2>1 DEF Contract!Fails, Failure
  <2> QED BY <1>1, <1>5, <2>2, AnswerServes, AnswerType DEF CommitLost, Faults
<1> QED BY <1>4, <1>5

\* A request that finds no live book says so of the table at that instant.
LEMMA NotFoundServes ==
    ASSUME IndInv, EffectInv, NEW r \in Requests, NotFound(r)
    PROVE  Contract!Serve(r)
<1>1. /\ op[r] \in Operation /\ op[r].kind \in {"update", "delete"} /\ r \notin Seen
      /\ books' = books /\ Answer(r, "NOT_FOUND") /\ UNCHANGED op /\ pc[r] = "exists"
  BY OperationShape
     DEF NotFound, Abort, Table!AbortTx, IndInv, ControlInv, OpFits, Seen
<1>2. ~Contract!Live(books, op[r].id)
  BY ContractTerms DEF NotFound
<1>3. Contract!Does(op[r], r \in Seen, "NOT_FOUND", books')
  BY <1>1, <1>2 DEF Contract!Does, Contract!Update, Contract!Delete
<1> QED BY <1>1, <1>3, AnswerServes DEF Works, Statuses

\* Every step is a step of the contract, or none that it knows of.
LEMMA StepServes ==
    ASSUME IndInv, EffectInv, IndInv', [Next]_vars
    PROVE  [Contract!Next]_(Contract!vars)
<1>1. CASE UNCHANGED vars
  BY <1>1 DEF vars, Contract!vars, Seen
<1>2. SUFFICES ASSUME NEW r \in Requests,
                      Receive(r) \/ RefuseEmpty(r) \/ Works(r) \/ Faults(r)
               PROVE  Contract!Next \/ UNCHANGED Contract!vars
  BY <1>1 DEF Next, Terminated
<1>3. \A s \in Requests \ {r} : pc'[s] = pc[s] /\ op'[s] = op[s]
  BY <1>2, OthersFrame
<1>4. CASE Receive(r)
  <2>1. PICK o \in Ops : /\ op' = [op EXCEPT ![r] = o]
                         /\ pc' = [pc EXCEPT ![r] = FirstStatement(o)]
    BY <1>4 DEF Receive, Goto
  <2>2. op[r] = NoOp /\ UNCHANGED <<books, status>> /\ pc[r] = "idle" /\ o \in Operation
    BY <1>4, OpsAssumption DEF Receive, EffectInv, Progress
  <2>3. op'[r] = o /\ pc'[r] = FirstStatement(o)
    BY <2>1 DEF IndInv, TypeOK
  <2>4. pc'[r] \in {"write", "index", "commit"} => op'[r].kind = "upload"
    BY <2>2, <2>3, OperationShape DEF FirstStatement
  <2>5. Seen' = Seen
    BY <1>3, <2>2, <2>4 DEF Seen
  <2> QED BY <2>1, <2>2, <2>5 DEF Contract!Next, Contract!Receive
<1>5. CASE RefuseEmpty(r)
  <2>1. PICK o \in Ops : Empty(o) /\ op' = [op EXCEPT ![r] = o]
    BY <1>5 DEF RefuseEmpty
  <2>2. /\ op[r] = NoOp /\ UNCHANGED books /\ pc[r] = "idle" /\ o \in UpdateOp
        /\ status' = [status EXCEPT ![r] = "BAD_REQUEST"] /\ pc'[r] = "done"
    BY <1>5, <2>1, OpsAssumption, OperationShape
       DEF RefuseEmpty, EffectInv, Progress, Empty, Answer, Goto, IndInv, TypeOK
  <2>3. o.patch = [f \in Fields |-> UNSET]
    BY <2>1, <2>2 DEF Empty, UpdateOp
  <2>4. Seen' = Seen
    BY <1>3, <2>2 DEF Seen
  <2> QED BY <2>1, <2>2, <2>3, <2>4, ContractTerms DEF Contract!Next, Contract!Refuse
<1>6. CASE Found(r)
  <2>1. /\ op[r] \in UpdateOp \cup DeleteOp /\ op[r] \in Operation /\ status[r] = "none"
        /\ pc[r] = "exists" /\ pc'[r] = "write" /\ UNCHANGED <<books, op, status>>
        /\ Live(books, op[r].id)
    BY <1>6 DEF Found, Goto, IndInv, TypeOK, ControlInv, OpFits, EffectInv, Progress
  <2>2. op[r].kind \in {"update", "delete"}
    BY <2>1, OperationShape
  <2>3. Seen' = Seen \cup {r}
    BY <1>3, <2>1, <2>2 DEF Seen
  <2> QED BY <2>1, <2>3, ContractTerms DEF Contract!Next, Contract!Find
<1>7. CASE DeleteRow(r) \/ UpdateRow(r) \/ EnterIndex(r)
  <2>1. /\ UNCHANGED <<books, op, status>> /\ pc[r] \in {"write", "index"}
        /\ pc'[r] \in {"index", "commit"}
    BY <1>7 DEF DeleteRow, UpdateRow, EnterIndex, Goto, IndInv, TypeOK
  <2>2. Seen' = Seen
    BY <1>3, <2>1 DEF Seen
  <2> QED BY <2>1, <2>2 DEF Contract!vars
<1>8. CASE InsertBook(r) \/ SkipBook(r)
  <2>1. /\ UNCHANGED <<books, op, status>> /\ pc[r] = "insert"
        /\ op[r].kind \notin {"update", "delete"}
    BY <1>8, OperationShape DEF InsertBook, SkipBook, IndInv, ControlInv, OpFits
  <2>2. Seen' = Seen
    BY <1>3, <2>1 DEF Seen
  <2> QED BY <2>1, <2>2 DEF Contract!vars
<1>9. CASE RejectPatch(r) \/ StatementLost(r) \/ DeadlockVictim(r)
  <2>1. Abort(r, Failure(op[r])) /\ pc[r] \notin {"idle", "done"}
    BY <1>9, DeadlockWaits DEF RejectPatch, StatementLost, DeadlockVictim
  <2> QED BY <1>9, <2>1, FailureServes DEF Works, Faults, Contract!Next
<1>10. CASE NotFound(r) \/ UpdateConflict(r) \/ CreateConflict(r) \/ Commit(r) \/ CommitLost(r)
  BY <1>10, NotFoundServes, ConflictServes, CommitServes DEF Contract!Next
<1> QED BY <1>2, <1>4, <1>5, <1>6, <1>7, <1>8, <1>9, <1>10 DEF Works, Faults

\* Any number of overlapping requests, on any catalogue, are served as if
\* each took effect at one instant while it was open: the response and the
\* acknowledgement of a message tell what happened to the table, and a
\* failure at whatever statement is all or nothing.
THEOREM BooksServedAtomically == Spec => ServesAtomically
<1>1. Init => Contract!Init
  BY DEF Init, Contract!Init, Seen
<1>2. IndInv /\ EffectInv /\ IndInv' /\ [Next]_vars => [Contract!Next]_(Contract!vars)
  BY StepServes
<1> QED
  BY <1>1, <1>2, Invariance, EffectInvariance, PTL DEF Spec, ServesAtomically, Contract!Spec

-----------------------------------------------------------------------------
(* Deadlocks. *)

\* Whoever is in a cycle of waits is waited for.
LEMMA CycleHasPredecessor ==
    ASSUME NEW r \in Requests, Deadlocked(r)
    PROVE  \E s \in Requests : r \in Blockers(s)
<1>1. PICK n \in 1..Table!Cardinality(Requests) : \E cycle \in [1..n -> Requests] :
          /\ cycle[1] = r
          /\ \A k \in 1..n : cycle[(k % n) + 1] \in [s \in Requests |-> Blockers(s)][cycle[k]]
  BY DEF Deadlocked, Table!InCycle
<1>2. PICK cycle \in [1..n -> Requests] :
          /\ cycle[1] = r
          /\ \A k \in 1..n : cycle[(k % n) + 1] \in [s \in Requests |-> Blockers(s)][cycle[k]]
  BY <1>1
<1>3. n \in 1..n /\ (n % n) + 1 = 1
  OBVIOUS
<1>4. cycle[n] \in Requests /\ cycle[1] \in [s \in Requests |-> Blockers(s)][cycle[n]]
  BY <1>2, <1>3
<1> QED BY <1>2, <1>4

\* Only who is about to write waits.
LEMMA WaitingAt ==
    ASSUME IndInv, NEW r \in Requests, NEW s \in Blockers(r)
    PROVE  /\ pc[r] \in {"write", "index", "insert"} /\ op[r] \in Operation
           /\ s \in Requests
<1>1. pc[r] \in {"write", "index", "insert"}
  BY DEF Blockers
<1> QED BY <1>1 DEF Blockers, Table!Writers, Table!Deciders, IndInv, ControlInv, OpFits

\* Who is waited for has locked a row or made an index entry.
LEMMA BlockerHolds ==
    ASSUME IndInv, NEW s \in Requests, NEW r \in Blockers(s)
    PROVE  r \in Requests /\ ~HoldsNothing(r)
<1>1. pc[s] \in {"write", "index", "insert"} /\ op[s] \in Operation /\ r \in Requests
  BY WaitingAt
<1>2. CASE pc[s] = "write"
  BY <1>1, <1>2, OperationShape
     DEF Blockers, Table!Writers, HoldsNothing, IndInv, ControlInv, OpFits
<1>3. CASE pc[s] # "write"
  <2>1. \E E : r \in Table!Deciders(s, E)
    BY <1>1, <1>3 DEF Blockers
  <2> QED BY <2>1 DEF Table!Deciders, HoldsNothing
<1> QED BY <1>1, <1>2, <1>3

\* Whoever is in a cycle both waits and is waited for, so it has done a part
\* of its work: a create or a deletion has one write, and waits before it.
LEMMA VictimHasWorked ==
    ASSUME IndInv, EffectInv, NEW r \in Requests, Deadlocked(r)
    PROVE  \/ op[r].kind = "update" /\ pc[r] = "index"
           \/ op[r].kind = "upload" /\ at[r] > 1
<1>1. pc[r] \in {"write", "index", "insert"} /\ ~HoldsNothing(r)
  BY DeadlockWaits, CycleHasPredecessor, BlockerHolds
<1>2. pc[r] # "write"
  BY <1>1 DEF IndInv, ControlInv, IdleHoldsNothing
<1>3. op[r] \in Operation
  BY <1>1 DEF IndInv, ControlInv, OpFits
<1>4. CASE pc[r] = "index"
  BY <1>3, <1>4, OperationShape DEF IndInv, ControlInv, OpFits
<1>5. CASE pc[r] = "insert"
  <2>1. op[r] \notin CreateOp
    BY <1>1, <1>5 DEF EffectInv, Wrote, CreateWrote
  <2>2. op[r] \in UploadOp
    BY <1>5, <2>1 DEF IndInv, ControlInv, OpFits
  <2>3. at[r] \in Nat \ {0} /\ Saved(r) = 1 .. at[r] - 1
    BY <1>5 DEF Saved, IndInv, TypeOK
  <2>4. Saved(r) # {}
    BY <1>1, <1>5, <2>2 DEF HoldsNothing, EffectInv, Wrote, UploadWrote
  <2>5. at[r] > 1
    BY <2>3, <2>4
  <2> QED BY <1>3, <2>2, <2>5, OperationShape
<1> QED BY <1>1, <1>2, <1>4, <1>5

\* An upload or a create under way holds rows that are new, and so no entry
\* of a committed one.
LEMMA InserterHolds ==
    ASSUME IndInv, EffectInv, NEW s \in Requests, pc[s] = "insert", NEW i \in BookIds,
           Table!Holds(s, i)
    PROVE  books[i] = Absent
BY DEF IndInv, ControlInv, OpFits, EffectInv, Wrote, CreateWrote, UploadWrote, HoldsNothing,
       Inserted

\* Between requests that wait and are no PATCH, the one waited for is an
\* upload that has entered the key the other wants to insert.
LEMMA WaitsForUpload ==
    ASSUME IndInv, EffectInv, NEW r \in Requests, NEW s \in Blockers(r), NEW t \in Blockers(s),
           op[r].kind # "update", op[s].kind # "update"
    PROVE  /\ pc[r] = "insert" /\ pc[s] = "insert" /\ op[s] \in UploadOp /\ s # r
           /\ Wanted(r) \in Book /\ Wanted(r).text \in entered[s]
<1>1. /\ pc[r] \in {"write", "insert"} /\ op[r] \in Operation
      /\ pc[s] \in {"write", "insert"} /\ op[s] \in Operation
      /\ s \in Requests
  BY WaitingAt, OperationShape DEF IndInv, ControlInv, OpFits
<1>2. CASE pc[r] = "write"
  <2>1. op[r].id \in BookIds /\ books[op[r].id] # Absent /\ Table!Holds(s, op[r].id)
    BY <1>1, <1>2, OperationShape
       DEF Blockers, Table!Writers, IndInv, ControlInv, OpFits, FoundRow
  <2>2. pc[s] # "write"
    BY <1>1, <2>1 DEF IndInv, ControlInv, IdleHoldsNothing, HoldsNothing
  <2> QED BY <1>1, <2>1, <2>2, InserterHolds
<1>3. CASE pc[r] = "insert"
  <2>1. Wanted(r) \in Book /\ BookIndex[Wanted(r)] = {Wanted(r).text}
    BY <1>3, WantedType, EntriesOfBook DEF IndInv, ControlInv
  <2>2. s \in Table!Deciders(r, {Wanted(r).text})
    BY <1>3, <2>1 DEF Blockers
  <2>3. pc[s] = "insert"
    BY <1>1, <2>2 DEF Table!Deciders, IndInv, ControlInv, IdleHoldsNothing, HoldsNothing
  <2>4. s # r /\ Wanted(r).text \in entered[s]
    BY <1>1, <2>2, <2>3, InserterHolds DEF Table!Deciders, Table!Entries
  <2>5. op[s] \in UploadOp
    BY <1>1, <2>3, <2>4
       DEF IndInv, ControlInv, OpFits, EffectInv, Wrote, CreateWrote, HoldsNothing
  <2> QED BY <1>3, <2>1, <2>3, <2>4, <2>5
<1> QED BY <1>1, <1>2, <1>3

\* So the book that somebody waits for was saved before the one its upload
\* waits for.
LEMMA KeysGoUp ==
    ASSUME IndInv, EffectInv, NEW D \in SUBSET Requests, NEW r \in D,
           NEW s \in Blockers(r) \cap D, NEW t \in Blockers(s), NEW u \in Blockers(t),
           op[r].kind # "update", op[s].kind # "update", op[t].kind # "update"
    PROVE  Wanted(r).text \in Keys /\ SavesBefore(D, Wanted(r).text, Wanted(s).text)
<1>1. /\ r \in Requests /\ s \in Requests /\ t \in Requests
      /\ pc[s] = "insert" /\ op[s] \in UploadOp /\ Wanted(r).text \in entered[s]
      /\ Wanted(s).text \in entered[t] /\ t # s /\ Wanted(r) \in Book
  BY WaitsForUpload, WaitingAt
<1>2. /\ op[s].batch \in Seq([Fields -> Texts])
      /\ op[s].kind = "upload" /\ at[s] \in DOMAIN op[s].batch
      /\ Wanted(s) = NewBook(op[s].batch[at[s]])
  BY <1>1, OperationShape DEF Operation, IndInv, ControlInv, OpFits, Wanted
<1>3. PICK k \in 1 .. at[s] - 1 : Wanted(r).text = NewBook(op[s].batch[k]).text
  BY <1>1 DEF EffectInv, Wrote, UploadWrote, Saved
<1>4. k \in DOMAIN op[s].batch /\ at[s] \in Nat /\ k < at[s]
  BY <1>2, <1>3
<1>5. Wanted(r).text # Wanted(s).text
  BY <1>1 DEF IndInv, TableInv, OneOwner
<1>6. Wanted(r).text \in Keys
  BY <1>1 DEF Book
<1> QED BY <1>2, <1>3, <1>4, <1>5, <1>6 DEF SavesBefore

\* Hence the books that a stuck set without a PATCH wants go round in a circle.
LEMMA StuckDisagrees ==
    ASSUME IndInv, EffectInv, NEW D \in SUBSET Requests, Stuck(D),
           \A r \in D : op[r].kind # "update"
    PROVE  ~Agree(D)
<1> DEFINE circle == {Wanted(r).text : r \in D}
<1>1. ASSUME NEW r \in D
      PROVE  \E s \in D : /\ Wanted(r).text \in Keys
                          /\ SavesBefore(D, Wanted(r).text, Wanted(s).text)
  <2>1. PICK s \in D : s \in Blockers(r)
    BY DEF Stuck
  <2>2. PICK t \in D : t \in Blockers(s)
    BY DEF Stuck
  <2>3. PICK u \in D : u \in Blockers(t)
    BY DEF Stuck
  <2> QED BY <2>1, <2>2, <2>3, KeysGoUp
<1>2. circle \in (SUBSET Keys) \ {{}}
  BY <1>1 DEF Stuck
<1>3. \A b \in circle : \E c \in circle : SavesBefore(D, b, c)
  BY <1>1
<1> HIDE DEF circle
<1> QED BY <1>2, <1>3 DEF Agree

\* Among any number of requests and whatever their uploads list: only a PATCH
\* or an upload that has locked something fails in a deadlock, and a deadlock
\* without a PATCH takes uploads that save the same books in different orders.
THEOREM DeadlocksTakeDisorder == Spec => []DeadlocksNeedDisorder
<1>1. IndInv /\ EffectInv => DeadlocksNeedDisorder
  BY VictimHasWorked, StuckDisagrees DEF DeadlocksNeedDisorder
<1> QED BY <1>1, Invariance, EffectInvariance, PTL

-----------------------------------------------------------------------------
(* The connection pool. *)

\* A step of the pool is a step of the store, or none.  Running out of
\* connections looks like losing the first statement.
LEMMA PoolStepRefines == [PoolNext]_poolVars => [Next]_vars
<1> SUFFICES ASSUME [PoolNext]_poolVars PROVE [Next]_vars
  OBVIOUS
<1>1. CASE UNCHANGED poolVars
  BY <1>1 DEF poolVars
<1>2. CASE PoolTerminated
  BY <1>2 DEF PoolTerminated, poolVars
<1>3. ASSUME NEW r \in Requests,
             \/ Take(r) \/ Connect(r) \/ PoolTimeout(r) \/ Serve(r)
             \/ LoseStatement(r) \/ LoseCommit(r) \/ Collect(r)
      PROVE  [Next]_vars
  <2>1. CASE Take(r)
    BY <2>1 DEF Take, Next
  <2>2. CASE Connect(r) \/ Collect(r)
    BY <2>2 DEF Connect, Collect
  <2>3. CASE PoolTimeout(r)
    <3>1. StatementLost(r)
      BY <2>3 DEF PoolTimeout, AtFirstStatement, StatementLost
    <3> QED BY <3>1 DEF Faults, Next
  <2>4. CASE Serve(r)
    BY <2>4 DEF Serve, Next
  <2>5. CASE LoseStatement(r) \/ LoseCommit(r)
    BY <2>5 DEF LoseStatement, LoseCommit, Faults, Next
  <2> QED BY <1>3, <2>1, <2>2, <2>3, <2>4, <2>5
<1> QED BY <1>1, <1>2, <1>3 DEF PoolNext

\* Every behaviour of the store on a pool, of whatever size, is one of the
\* store: waiting for a connection and running out of them add no outcome.
THEOREM PoolImplementsBookStore == PoolSpec => Spec
<1>1. PoolInit => Init
  BY DEF PoolInit
<1> QED BY <1>1, PoolStepRefines, PTL DEF PoolSpec, Spec

\* Behind a pool too, no two live books share title, year and author.
THEOREM PoolKeepsKeysDistinct == PoolSpec => []LiveKeysDistinct
BY PoolImplementsBookStore, KeysStayDistinct, PTL

\* Waiting for a connection, or giving up on one, breaks no promise: behind a
\* pool of any size each answer still tells one effect of its request.
THEOREM PoolServesAtomically == PoolSpec => ServesAtomically
BY PoolImplementsBookStore, BooksServedAtomically, PTL
============================================================================
