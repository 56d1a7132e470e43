---------------------------- MODULE MCBookStore ----------------------------
(* Small instances of BookStore for TLC. *)
EXTENDS BookStore, TLC

CONSTANTS r1, r2, r3, b1, b2, b3, b4, b5, x, y, xLong

MCFields == {"title", "author"}
MCStored == {x, y}
MCTexts == {x, y, xLong}
MCCut == (x :> x) @@ (y :> y) @@ (xLong :> x)

Text(title, author) == [title |-> title, author |-> author]
LiveBook(title, author) == [text |-> Text(title, author), deleted |-> FALSE]

Posting(title, author) == [kind |-> "create", text |-> Text(title, author)]
Patching(i, title, author) == [kind |-> "update", id |-> i, patch |-> Text(title, author)]
Deleting(i) == [kind |-> "delete", id |-> i]
Uploading(batch) == [kind |-> "upload", batch |-> batch]

\* Two live books; one live and one deleted with the same key.
TwoLive == (b1 :> LiveBook(x, x)) @@ (b2 :> LiveBook(y, x))
OneDeleted == (b1 :> LiveBook(x, x)) @@ (b2 :> Deleted(LiveBook(y, x)))
Padded(table) == [i \in BookIds |-> IF i \in DOMAIN table THEN table[i] ELSE Absent]
MCSeeds == {Padded(TwoLive), Padded(OneDeleted)}

\* Every kind of operation, with the collisions that matter: the titles of
\* b1 and b2 are swapped, the posts and the uploads want both keys and one that
\* is free, in opposite orders.
AllOps ==
    { Posting(x, x), Posting(xLong, y), Patching(b1, y, UNSET), Patching(b2, x, UNSET),
      Patching(b1, UNSET, UNSET), Patching(b1, xLong, UNSET), Patching(b1, y, NULL),
      Deleting(b1), Deleting(b2), Uploading(<<>>), Uploading(<<Text(x, x), Text(y, x)>>),
      Uploading(<<Text(y, x), Text(x, x), Text(xLong, x)>>) }

Interchangeable == Permutations(Requests) \cup Permutations({b3, b4, b5})
============================================================================
