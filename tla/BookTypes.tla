----------------------------- MODULE BookTypes -----------------------------
(***************************************************************************)
(* The data of the book catalogue: what is stored, what a request may ask. *)
(*                                                                         *)
(* A book is its text, one value per column of the unique index (title,    *)
(* author; the year behaves as one more such column), and whether its      *)
(* deleted_at is set.  Stored is what fits a VARCHAR(255) column; Texts is *)
(* what a client may send and Cut[x] is x[:255].                           *)
(***************************************************************************)
EXTENDS Naturals, Sequences, FiniteSets

CONSTANTS
    BookIds,    \* the uuids that rows may get
    Requests,   \* the HTTP requests and stream messages served, one each
    Fields,     \* the indexed columns
    Texts,      \* the values a client may send for a field
    Stored,     \* the values a column can hold
    Cut,        \* the first 255 characters
    UNSET,      \* a field absent from a PATCH body (entities.UNSET)
    NULL,       \* a field sent as null
    Absent,     \* no row
    NoOp,       \* the operation of a request not received yet
    Ops,        \* the operations to be served
    Seeds       \* the tables the service may start from

Keys == [Fields -> Stored]

Book == [text : Keys, deleted : BOOLEAN]

CreateOp == [kind : {"create"}, text : [Fields -> Texts]]
UpdateOp == [kind : {"update"}, id : BookIds,
             patch : [Fields -> Texts \cup {UNSET, NULL}]]
DeleteOp == [kind : {"delete"}, id : BookIds]
UploadOp == [kind : {"upload"}, batch : Seq([Fields -> Texts])]

Operation == CreateOp \cup UpdateOp \cup DeleteOp \cup UploadOp

\* The HTTP answers, and the two ways a stream message is settled.
Statuses == {"none", "CREATED", "OK", "NO_CONTENT", "BAD_REQUEST", "NOT_FOUND",
             "CONFLICT", "INTERNAL_SERVER_ERROR", "ACK", "REJECT"}

Live(table, i) == table[i] # Absent /\ ~table[i].deleted

\* The partial unique index: no two live books with the same key.
DistinctLiveKeys(table) ==
    \A i, j \in BookIds :
        Live(table, i) /\ Live(table, j) /\ table[i].text = table[j].text => i = j

ASSUME CutAssumption ==
    /\ Stored \subseteq Texts
    /\ Cut \in [Texts -> Stored]
    /\ \A x \in Stored : Cut[x] = x

ASSUME MarkerAssumption ==
    /\ {UNSET, NULL} \cap Texts = {}
    /\ UNSET # NULL
    /\ Absent \notin Book
    /\ NoOp \notin Operation

ASSUME OpsAssumption == Ops \subseteq Operation

ASSUME SeedsAssumption ==
    \A seed \in Seeds : /\ seed \in [BookIds -> Book \cup {Absent}]
                        /\ DistinctLiveKeys(seed)
============================================================================
