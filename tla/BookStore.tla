----------------------------- MODULE BookStore -----------------------------
(***************************************************************************)
(* The books use cases served concurrently: POST, PATCH and DELETE on      *)
(* /api/v1/books and the upload message of the stream.  Each request has a *)
(* unit of work of its own (scope REQUEST), so one session and one         *)
(* transaction; every await on the database is a point where the others    *)
(* run, and so is every wait for a lock of theirs.                         *)
(***************************************************************************)
EXTENDS BookTypes

VARIABLES
    books,      \* the committed table
    dirty,      \* the rows each open transaction wrote
    entered,    \* the index entries each open transaction made
    op,         \* what each request asks
    pc,         \* the statement each request is about to run
    at,         \* the item of its batch an upload is about to save
    status      \* how each request was answered

vars == <<books, dirty, entered, op, pc, at, status>>

(* Definitions that begin with Bug are what a slip in the code would make  *)
(* of the definition below them; no specification here uses them.          *)

\* Without unique=True.
BugPlainIndex == [b \in Book |-> {}]

\* Without postgresql_where.
BugWholeIndex == [b \in Book |-> {b.text}]

\* The entries of a row in the partial index on title, year and author.
BookIndex == [b \in Book |-> IF b.deleted THEN {} ELSE {b.text}]

Table == INSTANCE PgTable
         WITH RowIds <- BookIds, Txns <- Requests, Versions <- Book,
              rows <- books, EntriesOf <- BookIndex

-----------------------------------------------------------------------------
(* The values the statements write. *)

NewBook(text) == [text |-> [f \in Fields |-> Cut[text[f]]], deleted |-> FALSE]

\* Saving the book that was read instead of the columns that were sent.
BugPatchedWhole(book, patch) ==
    [text |-> [f \in Fields |-> IF patch[f] = UNSET THEN book.text[f] ELSE patch[f]],
     deleted |-> FALSE]

Patched(book, patch) ==
    [book EXCEPT !.text = [f \in Fields |-> IF patch[f] = UNSET THEN @[f] ELSE patch[f]]]

Deleted(book) == [book EXCEPT !.deleted = TRUE]

\* exclude_unset left nothing: the controller refuses before any transaction.
Empty(o) == o.kind = "update" /\ \A f \in Fields : o.patch[f] = UNSET

\* A column without its length.
BugAnyLength(patch) == \A f \in Fields : patch[f] # NULL

\* What the column types admit: no null, nothing over 255 characters.
Storable(patch) == \A f \in Fields : patch[f] \in Stored \cup {UNSET}

FirstStatement(o) ==
    CASE o.kind \in {"update", "delete"} -> "exists"
      [] o.kind = "create" -> "insert"
      [] o.kind = "upload" -> IF o.batch = <<>> THEN "commit" ELSE "insert"

Success(o) ==
    CASE o.kind = "create" -> "CREATED"
      [] o.kind = "update" -> "OK"
      [] o.kind = "delete" -> "NO_CONTENT"
      [] o.kind = "upload" -> "ACK"

\* An exception no handler is registered for, or a LibraryException.
Failure(o) == IF o.kind = "upload" THEN "REJECT" ELSE "INTERNAL_SERVER_ERROR"

\* The text of the row the next INSERT of r makes.
Wanted(r) == NewBook(IF op[r].kind = "create" THEN op[r].text ELSE op[r].batch[at[r]])

-----------------------------------------------------------------------------
Goto(r, label) == pc' = [pc EXCEPT ![r] = label]

Answer(r, answer) ==
    /\ status' = [status EXCEPT ![r] = answer]
    /\ Goto(r, "done")

\* The exception leaves the unit of work: rollback, close, error response.
Abort(r, answer) ==
    /\ Table!AbortTx(r)
    /\ Answer(r, answer)
    /\ UNCHANGED <<op, at>>

Init ==
    /\ books \in Seeds
    /\ dirty = [r \in Requests |-> [i \in BookIds |-> Absent]]
    /\ entered = [r \in Requests |-> {}]
    /\ op = [r \in Requests |-> NoOp]
    /\ pc = [r \in Requests |-> "idle"]
    /\ at = [r \in Requests |-> 1]
    /\ status = [r \in Requests |-> "none"]

Receive(r) ==
    /\ pc[r] = "idle"
    /\ \E o \in Ops :
           /\ ~Empty(o)
           /\ op' = [op EXCEPT ![r] = o]
           /\ Goto(r, FirstStatement(o))
    /\ UNCHANGED <<books, dirty, entered, at, status>>

RefuseEmpty(r) ==
    /\ pc[r] = "idle"
    /\ \E o \in Ops : Empty(o) /\ op' = [op EXCEPT ![r] = o]
    /\ Answer(r, "BAD_REQUEST")
    /\ UNCHANGED <<books, dirty, entered, at>>

\* SELECT EXISTS sees committed live books only; nothing is locked by it.
Found(r) ==
    /\ pc[r] = "exists"
    /\ Live(books, op[r].id)
    /\ Goto(r, "write")
    /\ UNCHANGED <<books, dirty, entered, op, at, status>>

NotFound(r) ==
    /\ pc[r] = "exists"
    /\ ~Live(books, op[r].id)
    /\ Abort(r, "NOT_FOUND")

\* UPDATE ... WHERE id: waits for the row, then sets deleted_at on whatever
\* version is there by now.
DeleteRow(r) ==
    /\ pc[r] = "write" /\ op[r].kind = "delete"
    /\ Table!Writers(op[r].id) = {}
    /\ Table!Write(r, op[r].id, Deleted(books[op[r].id]))
    /\ Goto(r, "commit")
    /\ UNCHANGED <<books, entered, op, at, status>>

\* The same for PATCH; the index is maintained once the row is locked.
UpdateRow(r) ==
    /\ pc[r] = "write" /\ op[r].kind = "update"
    /\ Storable(op[r].patch)
    /\ Table!Writers(op[r].id) = {}
    /\ Table!Write(r, op[r].id, Patched(books[op[r].id], op[r].patch))
    /\ Goto(r, "index")
    /\ UNCHANGED <<books, entered, op, at, status>>

\* NOT NULL gives the LibraryException "Unknown error", a value too long a
\* DBAPIError that nobody catches: 500 both.
RejectPatch(r) ==
    /\ pc[r] = "write" /\ op[r].kind = "update"
    /\ ~Storable(op[r].patch)
    /\ Abort(r, Failure(op[r]))

NewEntries(r) == BookIndex[dirty[r][op[r].id]]

EnterIndex(r) ==
    /\ pc[r] = "index"
    /\ Table!Deciders(r, NewEntries(r)) = {}
    /\ ~Table!Taken(r, NewEntries(r))
    /\ Table!Enter(r, NewEntries(r))
    /\ Goto(r, "commit")
    /\ UNCHANGED <<books, dirty, op, at, status>>

UpdateConflict(r) ==
    /\ pc[r] = "index"
    /\ Table!Deciders(r, NewEntries(r)) = {}
    /\ Table!Taken(r, NewEntries(r))
    /\ Abort(r, "CONFLICT")

\* Slip: an upload tries the books that were taken again before its COMMIT.
BugNextItem(r) ==
    IF op[r].kind = "upload" /\ at[r] < Len(op[r].batch)
    THEN at' = [at EXCEPT ![r] = @ + 1] /\ UNCHANGED pc
    ELSE \/ Goto(r, "commit") /\ UNCHANGED at
         \/ op[r].kind = "upload" /\ at' = [at EXCEPT ![r] = 1] /\ UNCHANGED pc

\* After the last item of the batch, and after the only one of a create.
NextItem(r) ==
    IF op[r].kind = "upload" /\ at[r] < Len(op[r].batch)
    THEN at' = [at EXCEPT ![r] = @ + 1] /\ UNCHANGED pc
    ELSE Goto(r, "commit") /\ UNCHANGED at

InsertBook(r) ==
    /\ pc[r] = "insert"
    /\ Table!Deciders(r, BookIndex[Wanted(r)]) = {}
    /\ ~Table!Taken(r, BookIndex[Wanted(r)])
    /\ \E i \in Table!FreeIds : Table!Write(r, i, Wanted(r))
    /\ Table!Enter(r, BookIndex[Wanted(r)])
    /\ NextItem(r)
    /\ UNCHANGED <<books, op, status>>

CreateConflict(r) ==
    /\ pc[r] = "insert" /\ op[r].kind = "create"
    /\ Table!Deciders(r, BookIndex[Wanted(r)]) = {}
    /\ Table!Taken(r, BookIndex[Wanted(r)])
    /\ Abort(r, "CONFLICT")

\* ON CONFLICT DO NOTHING
SkipBook(r) ==
    /\ pc[r] = "insert" /\ op[r].kind = "upload"
    /\ Table!Deciders(r, BookIndex[Wanted(r)]) = {}
    /\ Table!Taken(r, BookIndex[Wanted(r)])
    /\ NextItem(r)
    /\ UNCHANGED <<books, dirty, entered, op, status>>

Commit(r) ==
    /\ pc[r] = "commit"
    /\ Table!CommitTx(r)
    /\ Answer(r, Success(op[r]))
    /\ UNCHANGED <<op, at>>

\* The connection fails during COMMIT: the server may have done it or not,
\* the client sees an error in both cases.
CommitLost(r) ==
    /\ pc[r] = "commit"
    /\ Table!CommitTx(r) \/ Table!AbortTx(r)
    /\ Answer(r, Failure(op[r]))
    /\ UNCHANGED <<op, at>>

\* The connection fails before: the server rolls back.
StatementLost(r) ==
    /\ pc[r] \in {"exists", "write", "index", "insert"}
    /\ Abort(r, Failure(op[r]))

-----------------------------------------------------------------------------
(* Waiting for one another. *)

\* Whom r waits for right now.  A patch that is to be rejected waits for
\* nobody, but it holds nothing either, so it is never part of a cycle.
Blockers(r) ==
    CASE pc[r] = "write" -> Table!Writers(op[r].id)
      [] pc[r] = "index" -> Table!Deciders(r, NewEntries(r))
      [] pc[r] = "insert" -> Table!Deciders(r, BookIndex[Wanted(r)])
      [] OTHER -> {}

Deadlocked(r) == Table!InCycle(r, [s \in Requests |-> Blockers(s)])

\* The error is not an IntegrityError, so it reaches the client as 500.
DeadlockVictim(r) ==
    /\ Deadlocked(r)
    /\ Abort(r, Failure(op[r]))

Terminated ==
    /\ \A r \in Requests : pc[r] = "done"
    /\ UNCHANGED vars

Works(r) ==
    \/ Found(r) \/ NotFound(r)
    \/ DeleteRow(r) \/ UpdateRow(r) \/ RejectPatch(r)
    \/ EnterIndex(r) \/ UpdateConflict(r)
    \/ InsertBook(r) \/ CreateConflict(r) \/ SkipBook(r)
    \/ Commit(r)
    \/ DeadlockVictim(r)

Faults(r) == CommitLost(r) \/ StatementLost(r)

Next ==
    \/ \E r \in Requests : Receive(r) \/ RefuseEmpty(r) \/ Works(r) \/ Faults(r)
    \/ Terminated

Spec == Init /\ [][Next]_vars

-----------------------------------------------------------------------------
(* Properties. *)

\* Every variable stays in its type: in particular no committed row ever
\* holds a text that its column cannot store, whatever the clients send.
TypeOK ==
    /\ Table!TypeInvariant
    /\ op \in [Requests -> Operation \cup {NoOp}]
    /\ pc \in [Requests -> {"idle", "exists", "write", "index", "insert", "commit", "done"}]
    /\ at \in [Requests -> Nat \ {0}]
    /\ status \in [Requests -> Statuses]

\* No two live books ever share title, year and author, however creates,
\* patches, uploads and deletions overlap and whichever of them fail.
LiveKeysDistinct == DistinctLiveKeys(books)

\* The requests that saw their book live and have not answered yet.
Seen == {r \in Requests : /\ pc[r] \in {"write", "index", "commit"}
                          /\ op[r].kind \in {"update", "delete"}}

\* Every answer tells one atomic effect on the catalogue: what the response
\* (or the acknowledgement) says is what happened, at an instant when the
\* request was open, and a failure is all or nothing.
Contract == INSTANCE Catalogue WITH seen <- Seen
ServesAtomically == Contract!Spec

\* A book somebody was told is deleted (204) never comes back: not by an
\* update that found it before, not by a rollback, not by a later upload.
DeletionIsFinal ==
    \A r \in Requests :
        op[r] # NoOp /\ status[r] = "NO_CONTENT" => books[op[r].id].deleted

\* The requests of D wait for one another: each of them for another one.
Stuck(D) == D # {} /\ \A r \in D : Blockers(r) \cap D # {}

\* An upload of D saves book b before book c.
SavesBefore(D, b, c) ==
    \E r \in D : /\ op[r].kind = "upload"
                 /\ \E i, j \in DOMAIN op[r].batch :
                        /\ i < j /\ b # c
                        /\ NewBook(op[r].batch[i]).text = b
                        /\ NewBook(op[r].batch[j]).text = c

\* The uploads of D can be saved in one order: there is no circle of books in
\* which each is saved before the next.
Agree(D) ==
    \A circle \in (SUBSET Keys) \ {{}} :
        \E b \in circle : \A c \in circle : ~SavesBefore(D, b, c)

\* What a deadlock takes.  Who fails in one has done a part of its work: a
\* PATCH that locked its row, an upload that saved some of its books, and
\* never a POST, a DELETE or an upload at its first book.  And requests without
\* a PATCH among them only wait for one another if their uploads save the same
\* books in different orders (upload_books.py:33).
DeadlocksNeedDisorder ==
    /\ \A r \in Requests :
           Deadlocked(r) => \/ op[r].kind = "update" /\ pc[r] = "index"
                            \/ op[r].kind = "upload" /\ at[r] > 1
    /\ \A D \in SUBSET Requests :
           Stuck(D) => (\E r \in D : op[r].kind = "update") \/ ~Agree(D)

\* Every request that was received is answered in the end, deadlocks and
\* lock waits notwithstanding.
EveryRequestAnswered == \A r \in Requests : pc[r] # "idle" ~> pc[r] = "done"

============================================================================
