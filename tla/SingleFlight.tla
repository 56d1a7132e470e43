---------------------------- MODULE SingleFlight ----------------------------
(***************************************************************************)
(* What reduced() promises its callers: calls with one identity that       *)
(* overlap share one run of the function.  Everybody who was waiting when  *)
(* the run ended gets its outcome, a value or an exception; a call made    *)
(* later starts another run; and a caller that gives up costs the others   *)
(* nothing.                                                                *)
(***************************************************************************)
CONSTANTS Calls, Idents, IdentOf, Outcomes, Cancelled, None

VARIABLES
    airborne,   \* the identities with a run under way
    group,      \* the callers each run will answer
    promise,    \* the outcome a caller is about to get, or None
    got         \* the outcome a caller got, Cancelled, or None

vars == <<airborne, group, promise, got>>

New(c) == got[c] = None /\ promise[c] = None /\ c \notin group[IdentOf[c]]

Init ==
    /\ airborne = {}
    /\ group = [k \in Idents |-> {}]
    /\ promise = [c \in Calls |-> None]
    /\ got = [c \in Calls |-> None]

\* The first caller of an identity starts the run, the others join it.
Join(c) ==
    /\ New(c)
    /\ airborne' = airborne \cup {IdentOf[c]}
    /\ group' = [group EXCEPT ![IdentOf[c]] = @ \cup {c}]
    /\ UNCHANGED <<promise, got>>

\* The run ends: one outcome for the whole group.
Land(k) ==
    /\ k \in airborne
    /\ airborne' = airborne \ {k}
    /\ \E o \in Outcomes :
           promise' = [c \in Calls |-> IF c \in group[k] THEN o ELSE promise[c]]
    /\ group' = [group EXCEPT ![k] = {}]
    /\ UNCHANGED got

Return(c) ==
    /\ promise[c] # None
    /\ got' = [got EXCEPT ![c] = promise[c]]
    /\ promise' = [promise EXCEPT ![c] = None]
    /\ UNCHANGED <<airborne, group>>

GiveUp(c) ==
    /\ promise[c] # None \/ c \in group[IdentOf[c]]
    /\ got' = [got EXCEPT ![c] = Cancelled]
    /\ promise' = [promise EXCEPT ![c] = None]
    /\ group' = [group EXCEPT ![IdentOf[c]] = @ \ {c}]
    /\ UNCHANGED airborne

Next ==
    \/ \E c \in Calls : Join(c) \/ Return(c) \/ GiveUp(c)
    \/ \E k \in Idents : Land(k)

Spec == Init /\ [][Next]_vars
=============================================================================
