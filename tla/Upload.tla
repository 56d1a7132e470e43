------------------------------- MODULE Upload -------------------------------
(***************************************************************************)
(* UploadBooksCommand: an event lists search queries, the command collects *)
(* every page of each from Open Library, then saves all the books in one   *)
(* transaction, bucket by bucket.  BookStore has the transaction and the   *)
(* requests that compete with it; here are the pages and the buckets.      *)
(*                                                                         *)
(* Upstream, a query has a sequence of documents, with or without authors. *)
(* The client drops those without; Key[d] is the book a document becomes   *)
(* (title and joined authors, cut to 255), and several may become one.     *)
(***************************************************************************)
EXTENDS Pages

CONSTANTS
    Docs,
    Authored,     \* the documents that have authors
    Key,          \* the book each document becomes
    Queries,
    Upstreams,    \* what Open Library may hold: functions from Queries to Seq(Docs)
    Events,       \* the events that may arrive: sequences of queries
    BucketSize    \* BUCKET_SIZE: the length of a page and of a bucket

ASSUME BucketAssumption == BucketSize \in Nat \ {0}
ASSUME DocsAssumption == Authored \subseteq Docs /\ DOMAIN Key = Docs
ASSUME EventsAssumption ==
    Upstreams \subseteq [Queries -> Seq(Docs)] /\ Events \subseteq Seq(Queries)

VARIABLES
    upstream,     \* what Open Library holds
    event,        \* the queries of the event
    query,        \* the index of the query being searched
    offset,       \* of the next page
    books,        \* the documents collected so far, in order
    bucket,       \* the index of the bucket to be saved next
    inserted,     \* the books the transaction inserted
    table,        \* the books committed
    pc

vars == <<upstream, event, query, offset, books, bucket, inserted, table, pc>>

-----------------------------------------------------------------------------
\* What the client returns: the requested window without the authorless.
Page(docs, from, limit) ==
    LET window == Window(docs, from, limit)
        kept == InOrder({i \in DOMAIN window : window[i] \in Authored})
    IN  [n \in DOMAIN kept |-> window[kept[n]]]

\* if not result.books
BugLastPage(page) == page = <<>>

\* The page that ends the search.
LastPage(page) == Len(page) < BucketSize

\* range(0, len(books) - 1, BUCKET_SIZE)
BugBuckets(all) ==
    [b \in 1..((Len(all) - 1) \div BucketSize) |->
        Window(all, (b - 1) * BucketSize, BucketSize)]

\* books[i : i + BUCKET_SIZE] for i in range(0, len(books), BUCKET_SIZE)
Buckets(all) ==
    [b \in 1..((Len(all) + BucketSize - 1) \div BucketSize) |->
        Window(all, (b - 1) * BucketSize, BucketSize)]

Init ==
    /\ upstream \in Upstreams
    /\ event \in Events
    /\ query = 1
    /\ offset = 0
    /\ books = <<>>
    /\ bucket = 1
    /\ inserted = {}
    /\ table = {}
    /\ pc = "search"

Search ==
    /\ pc = "search" /\ query <= Len(event)
    /\ LET page == Page(upstream[event[query]], offset, BucketSize) IN
           /\ books' = books \o page
           /\ IF LastPage(page)
              THEN query' = query + 1 /\ offset' = 0
              ELSE offset' = offset + BucketSize /\ UNCHANGED query
    /\ UNCHANGED <<upstream, event, bucket, inserted, table, pc>>

\* The last query is done: the transaction begins.
Begin ==
    /\ pc = "search" /\ query > Len(event)
    /\ pc' = "save"
    /\ UNCHANGED <<upstream, event, query, offset, books, bucket, inserted, table>>

\* A search that fails ends the command before any transaction.
SearchFails ==
    /\ pc = "search" /\ query <= Len(event)
    /\ pc' = "REJECT"
    /\ UNCHANGED <<upstream, event, query, offset, books, bucket, inserted, table>>

\* INSERT ... ON CONFLICT DO NOTHING of one bucket.
SaveBucket ==
    /\ pc = "save" /\ bucket \in DOMAIN Buckets(books)
    /\ inserted' = inserted \cup {Key[d] : d \in ToSet(Buckets(books)[bucket])}
    /\ bucket' = bucket + 1
    /\ UNCHANGED <<upstream, event, query, offset, books, table, pc>>

Commit ==
    /\ pc = "save" /\ bucket \notin DOMAIN Buckets(books)
    /\ table' = table \cup inserted
    /\ inserted' = {}
    /\ pc' = "ACK"
    /\ UNCHANGED <<upstream, event, query, offset, books, bucket>>

\* A statement fails: all the buckets before it are rolled back.
SaveFails ==
    /\ pc = "save" /\ bucket \in DOMAIN Buckets(books)
    /\ inserted' = {}
    /\ pc' = "REJECT"
    /\ UNCHANGED <<upstream, event, query, offset, books, bucket, table>>

\* The connection fails during COMMIT, which may have been done.
CommitLost ==
    /\ pc = "save" /\ bucket \notin DOMAIN Buckets(books)
    /\ table' \in {table, table \cup inserted}
    /\ inserted' = {}
    /\ pc' = "REJECT"
    /\ UNCHANGED <<upstream, event, query, offset, books, bucket>>

Ended ==
    /\ pc \in {"ACK", "REJECT"}
    /\ UNCHANGED vars

Next ==
    \/ Search \/ Begin \/ SearchFails
    \/ SaveBucket \/ Commit \/ SaveFails \/ CommitLost
    \/ Ended

Spec == Init /\ [][Next]_vars

-----------------------------------------------------------------------------
(* Properties. *)

Searched == ToSet(event)

\* The documents of a query that stand on a page after pages with an author
\* on every document, and have authors themselves.
BeforeAnyGap(docs) ==
    {docs[i] : i \in {j \in DOMAIN docs :
        /\ docs[j] \in Authored
        /\ \A k \in 1..(((j - 1) \div BucketSize) * BucketSize) : docs[k] \in Authored}}

Expected == {Key[d] : d \in UNION {BeforeAnyGap(upstream[q]) : q \in Searched}}

\* An acknowledged event saved, for every query, exactly the books up to the
\* first page with an authorless document, that page included; a rejected one
\* saved all of them or none.
SavesThroughFirstGap ==
    /\ pc = "ACK" => table = Expected
    /\ pc = "REJECT" => table \in {{}, Expected}

\* No search is sent for a window that begins past the documents, so a query
\* costs at most one request more than it has full pages.
NeverSearchesPastTheEnd ==
    pc = "search" /\ query <= Len(event) => offset <= Len(upstream[event[query]])

\* _get_all_books_by_query gets all the books of the query.
GetsAllBooksByQuery ==
    pc = "ACK" =>
        \A q \in Searched : {Key[d] : d \in ToSet(upstream[q]) \cap Authored} \subseteq table
=============================================================================
