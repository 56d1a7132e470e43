----------------------------- MODULE Catalogue -----------------------------
(***************************************************************************)
(* What the book endpoints and the upload handler promise: every request   *)
(* takes effect at one instant between its receipt and its answer, on the  *)
(* table as it is at that instant, and the answer tells the effect.  PATCH *)
(* and DELETE first see their book live, at an instant of its own: what    *)
(* others do between the two is part of the promise.  No transactions,     *)
(* locks or half-done work here; BookStore implements this specification.  *)
(***************************************************************************)
EXTENDS BookTypes

VARIABLES
    books,    \* the table
    op,       \* what each request asks
    seen,     \* the requests that saw their book live
    status    \* how each request was answered

vars == <<books, op, seen, status>>

Taken(key) == \E i \in BookIds : Live(books, i) /\ books[i].text = key

Added(table) == {i \in BookIds : books[i] = Absent /\ table[i] # Absent}

\* table is books plus some new live books: nothing else changed.
OnlyAdds(table) ==
    /\ table \in [BookIds -> Book \cup {Absent}]
    /\ \A i \in BookIds : table[i] = books[i] \/ i \in Added(table)
    /\ \A i \in Added(table) : ~table[i].deleted

Stores(i, table, text) ==
    \A f \in Fields : table[i].text[f] = Cut[text[f]]

Create(o, answer, table) ==
    \/ /\ answer = "CREATED"
       /\ OnlyAdds(table)
       /\ DistinctLiveKeys(table)
       /\ \E i \in BookIds : Added(table) = {i} /\ Stores(i, table, o.text)
    \/ /\ answer = "CONFLICT"
       /\ Taken([f \in Fields |-> Cut[o.text[f]]])
       /\ table = books

\* The fields that were sent change, the others and the deletion mark stay.
\* The book may have been deleted since the request found it.
Update(o, found, answer, table) ==
    \/ /\ answer = "OK" /\ found
       /\ table \in [BookIds -> Book \cup {Absent}]
       /\ \A i \in BookIds \ {o.id} : table[i] = books[i]
       /\ table[o.id] # Absent
       /\ table[o.id].deleted = books[o.id].deleted
       /\ \A f \in Fields :
              table[o.id].text[f] =
                  IF o.patch[f] = UNSET THEN books[o.id].text[f] ELSE o.patch[f]
       /\ DistinctLiveKeys(table)
    \/ /\ answer = "NOT_FOUND" /\ ~found
       /\ ~Live(books, o.id)
       /\ table = books
    \/ /\ answer = "CONFLICT" /\ found
       /\ \E i \in BookIds \ {o.id} :
              /\ Live(books, i)
              /\ \A f \in Fields : o.patch[f] \in {UNSET, books[i].text[f]}
       /\ table = books

\* Deletions that overlap may each be answered 204.
Delete(o, found, answer, table) ==
    \/ /\ answer = "NO_CONTENT" /\ found
       /\ table[o.id] # Absent
       /\ table[o.id].deleted /\ table[o.id].text = books[o.id].text
       /\ table = [books EXCEPT ![o.id] = table[o.id]]
    \/ /\ answer = "NOT_FOUND" /\ ~found
       /\ ~Live(books, o.id)
       /\ table = books

\* A batch is saved in one piece, each key once and no key that is live.
Upload(o, answer, table) ==
    /\ answer = "ACK"
    /\ OnlyAdds(table)
    /\ DistinctLiveKeys(table)
    /\ \A i \in Added(table) : \E k \in DOMAIN o.batch : Stores(i, table, o.batch[k])

Does(o, found, answer, table) ==
    \/ o.kind = "create" /\ Create(o, answer, table)
    \/ o.kind = "update" /\ Update(o, found, answer, table)
    \/ o.kind = "delete" /\ Delete(o, found, answer, table)
    \/ o.kind = "upload" /\ Upload(o, answer, table)

\* A failure never leaves part of an effect behind: all of it or none.
Fails(o, found, answer, table) ==
    /\ answer = IF o.kind = "upload" THEN "REJECT" ELSE "INTERNAL_SERVER_ERROR"
    /\ \/ table = books
       \/ \E success \in {"CREATED", "OK", "NO_CONTENT", "ACK"} :
              Does(o, found, success, table)

Init ==
    /\ books \in Seeds
    /\ op = [r \in Requests |-> NoOp]
    /\ seen = {}
    /\ status = [r \in Requests |-> "none"]

Receive(r) ==
    /\ op[r] = NoOp
    /\ \E o \in Ops : op' = [op EXCEPT ![r] = o]
    /\ UNCHANGED <<books, seen, status>>

\* A PATCH that changes nothing is refused at once.
Refuse(r) ==
    /\ op[r] = NoOp
    /\ \E o \in Ops \cap UpdateOp :
           /\ o.patch = [f \in Fields |-> UNSET]
           /\ op' = [op EXCEPT ![r] = o]
    /\ status' = [status EXCEPT ![r] = "BAD_REQUEST"]
    /\ UNCHANGED <<books, seen>>

Find(r) ==
    /\ op[r] \in UpdateOp \cup DeleteOp /\ status[r] = "none"
    /\ Live(books, op[r].id)
    /\ seen' = seen \cup {r}
    /\ UNCHANGED <<books, op, status>>

Serve(r) ==
    /\ op[r] # NoOp /\ status[r] = "none"
    /\ \E answer \in Statuses :
           /\ \/ Does(op[r], r \in seen, answer, books')
              \/ Fails(op[r], r \in seen, answer, books')
           /\ status' = [status EXCEPT ![r] = answer]
    /\ seen' = seen \ {r}
    /\ UNCHANGED op

Next == \E r \in Requests : Receive(r) \/ Refuse(r) \/ Find(r) \/ Serve(r)

Spec == Init /\ [][Next]_vars
============================================================================
