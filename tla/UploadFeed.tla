----------------------------- MODULE UploadFeed -----------------------------
(***************************************************************************)
(* What the stream consumer promises about upload messages.  A message is  *)
(* on offer from its publication until it is given up, for good; as long   *)
(* as it is on offer it may be applied, any number of times, each time     *)
(* with all the books of one answer of Open Library or not at all.  It is  *)
(* only confirmed once it has been applied.  Requests delete books at any  *)
(* time, and an application brings back what it finds deleted.             *)
(***************************************************************************)
CONSTANTS
    Messages,
    Books,
    Results    \* of a message, the sets of books Open Library may answer

VARIABLES
    fate,      \* of a message: "new", "offered" or "gone"
    applied,
    confirmed,
    table      \* the live books

vars == <<fate, applied, confirmed, table>>

Init ==
    /\ fate = [m \in Messages |-> "new"]
    /\ applied = {}
    /\ confirmed = {}
    /\ table = {}

Offer(m) ==
    /\ fate[m] = "new"
    /\ fate' = [fate EXCEPT ![m] = "offered"]
    /\ UNCHANGED <<applied, confirmed, table>>

\* A message leaves every queue at once when the last process that has it
\* goes, so several may be given up in one step.
GiveUp(given) ==
    /\ \A m \in given : fate[m] = "offered"
    /\ fate' = [m \in Messages |-> IF m \in given THEN "gone" ELSE fate[m]]
    /\ UNCHANGED <<applied, confirmed, table>>

\* The transaction of a message, and what becomes of the message with it.
Apply(m, found) ==
    /\ fate[m] = "offered"
    /\ table' = table \cup found
    /\ applied' = applied \cup {m}
    /\ UNCHANGED <<fate, confirmed>>

Confirm(m) ==
    /\ m \in applied
    /\ confirmed' = confirmed \cup {m}
    /\ fate' \in {fate, [fate EXCEPT ![m] = "gone"]}
    /\ UNCHANGED <<applied, table>>

Delete(b) ==
    /\ table' = table \ {b}
    /\ UNCHANGED <<fate, applied, confirmed>>

Next ==
    \/ \E m \in Messages : Offer(m) \/ Confirm(m)
    \/ \E m \in Messages : \E found \in Results[m] : Apply(m, found)
    \/ \E given \in SUBSET Messages : GiveUp(given)
    \/ \E b \in Books : Delete(b)

Spec == Init /\ [][Next]_vars
=============================================================================
