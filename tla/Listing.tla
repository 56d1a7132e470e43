------------------------------ MODULE Listing ------------------------------
(***************************************************************************)
(* GET /books and GET /users, page after page, while the table changes.    *)
(* Every page is a transaction of its own at READ COMMITTED and runs two   *)
(* statements, the count and the SELECT with LIMIT and OFFSET, each with   *)
(* its own snapshot.  Books are listed in the order of their random ids;   *)
(* users have no ORDER BY and come in the order of the heap, where a new   *)
(* version of a row is put wherever there is room.                         *)
(***************************************************************************)
EXTENDS Pages

CONSTANTS
    Ids,          \* of the rows, ordered as the uuids are
    Initial,      \* the rows there are when the walk begins
    OrderedById,  \* TRUE for books, FALSE for users
    Limit,
    MaxChanges    \* creations, deletions and updates during the walk, at most

ASSUME IdsAssumption ==
    Initial \subseteq Ids /\ Ids \subseteq Nat /\ IsFiniteSet(Initial)
ASSUME OrderAssumption == OrderedById \in BOOLEAN
ASSUME LimitAssumption == Limit \in Nat \ {0} /\ MaxChanges \in Nat

VARIABLES
    heap,        \* the ids of the live rows, in heap order
    retired,     \* the ids of deleted rows
    changes,
    step,        \* of the walk: to count, to list, or done
    total,       \* what the count of the current page returned
    skip,        \* the OFFSET of the current page
    listed,      \* the ids the walk has listed, in order
    added,       \* rows created since the walk began
    removed      \* rows deleted since then

walkVars == <<heap, retired, changes, step, total, skip, listed, added, removed>>

\* Slip: books are listed as users are, without ORDER BY.
BugRows == heap

\* The order of the SELECT.
Rows == IF OrderedById THEN InOrder(ToSet(heap)) ELSE heap

BugSlice == Window(heap, skip, Limit)

\* LIMIT and OFFSET
Slice == Window(Rows, skip, Limit)

\* The client asks for the next page after a full one.
More(page) == Len(page) = Limit

WalkInit ==
    /\ heap \in SetToSeqs(Initial)
    /\ retired = {}
    /\ changes = 0
    /\ step = "count"
    /\ total = 0
    /\ skip = 0
    /\ listed = <<>>
    /\ added = 0
    /\ removed = 0

Count ==
    /\ step = "count"
    /\ total' = Len(heap)
    /\ step' = "list"
    /\ UNCHANGED <<heap, retired, changes, skip, listed, added, removed>>

List ==
    /\ step = "list"
    /\ listed' = listed \o Slice
    /\ IF More(Slice)
       THEN skip' = skip + Limit /\ step' = "count"
       ELSE step' = "done" /\ UNCHANGED skip
    /\ UNCHANGED <<heap, retired, changes, total, added, removed>>

MayChange == step # "done" /\ changes < MaxChanges /\ changes' = changes + 1

Create(i) ==
    /\ MayChange
    /\ i \notin ToSet(heap) \cup retired
    /\ \E at \in 1..(Len(heap) + 1) : heap' = InsertAt(heap, at, i)
    /\ added' = added + 1
    /\ UNCHANGED <<retired, step, total, skip, listed, removed>>

Delete(i) ==
    /\ MayChange
    /\ \E at \in 1..Len(heap) : heap[at] = i /\ heap' = RemoveAt(heap, at)
    /\ retired' = retired \cup {i}
    /\ removed' = removed + 1
    /\ UNCHANGED <<step, total, skip, listed, added>>

\* The new version of the row replaces the old one somewhere in the heap.
Update(i) ==
    /\ MayChange
    /\ \E from, to \in 1..Len(heap) :
        heap[from] = i /\ heap' = InsertAt(RemoveAt(heap, from), to, i)
    /\ UNCHANGED <<retired, step, total, skip, listed, added, removed>>

Walked ==
    /\ step = "done"
    /\ UNCHANGED walkVars

WalkNext ==
    \/ Count \/ List
    \/ \E i \in Ids : Create(i) \/ Delete(i) \/ Update(i)
    \/ Walked

WalkSpec == WalkInit /\ [][WalkNext]_walkVars
-----------------------------------------------------------------------------
(* Properties. *)

Missed == {i \in Initial \ retired : i \notin ToSet(listed)}

Times(i) == Cardinality({n \in DOMAIN listed : listed[n] = i})

\* A walk through the books misses no more of those that were there all
\* along than were deleted meanwhile, whatever was created or patched.
MissesOnlyForDeletions == step = "done" => Cardinality(Missed) <= removed

\* It lists no book more often than once and once more per book created.
RepeatsOnlyForCreations == \A i \in Ids : Times(i) <= 1 + added

\* When no row was created or deleted since the walk began, the pages at
\* offset 0, Limit, 2 * Limit... hold every row once.
PagesPartition ==
    step = "done" /\ added = 0 /\ removed = 0 =>
        ToSet(listed) = Initial /\ Len(listed) = Cardinality(Initial)
=============================================================================
