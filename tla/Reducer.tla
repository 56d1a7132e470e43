------------------------------ MODULE Reducer ------------------------------
(***************************************************************************)
(* AsyncReducer of library/application/reduced.py on one event loop.       *)
(*                                                                         *)
(* A run is named by the call that created it: its future is future[c],    *)
(* its _runner task is task[c].  What happens without an await in between  *)
(* is one step: the lookup in _running with the creation of the task and   *)
(* the registration of the waiter, and the resolution of the future with   *)
(* the removal from _running.  The callbacks of a future run later, one by *)
(* one, and a caller may be cancelled whenever it waits.                   *)
(***************************************************************************)
CONSTANTS
    Calls,      \* the calls of the wrapped function, one each
    Idents,     \* their keys
    IdentOf,    \* the key of each call
    Outcomes,   \* what a run may end with: values and exceptions
    Cancelled,  \* what a cancelled call ends with
    None

ASSUME IdentAssumption == IdentOf \in [Calls -> Idents]
ASSUME OutcomesAssumption == None \notin Outcomes /\ Cancelled \notin Outcomes
ASSUME NoneAssumption == None \notin Calls /\ None # Cancelled

VARIABLES
    running,    \* _running: the run of each key, or None
    future,     \* what each run ended with, or None
    task,       \* where the _runner task of each run is
    joined,     \* the run whose future a call has a callback on, or None
    got         \* what each call returned or raised, Cancelled, or None

vars == <<running, future, task, joined, got>>

Init ==
    /\ running = [k \in Idents |-> None]
    /\ future = [c \in Calls |-> None]
    /\ task = [c \in Calls |-> "none"]
    /\ joined = [c \in Calls |-> None]
    /\ got = [c \in Calls |-> None]

Waiting(c) == joined[c] # None /\ got[c] = None

\* A lookup that creates a future whether or not there is one.
BugRunOf(c) == c

\* _get_or_create_future
RunOf(c) == IF running[IdentOf[c]] # None THEN running[IdentOf[c]] ELSE c

\* reducer(coro, ident=key), up to the first suspension in _waiter.
Call(c) ==
    /\ joined[c] = None /\ got[c] = None
    /\ joined' = [joined EXCEPT ![c] = RunOf(c)]
    /\ running' = [running EXCEPT ![IdentOf[c]] = RunOf(c)]
    /\ task' = IF RunOf(c) = c THEN [task EXCEPT ![c] = "created"] ELSE task
    /\ UNCHANGED <<future, got>>

\* The task gets its first turn and awaits the function.
Start(c) ==
    /\ task[c] = "created"
    /\ task' = [task EXCEPT ![c] = "awaiting"]
    /\ UNCHANGED <<running, future, joined, got>>

\* Without the finally clause, once the function raised nothing or something.
BugFinish(c) ==
    /\ task[c] = "awaiting"
    /\ \E o \in Outcomes : future' = [future EXCEPT ![c] = o]
    /\ task' = [task EXCEPT ![c] = "done"]
    /\ UNCHANGED <<running, joined, got>>

\* The function returned or raised: resolve the future, forget the run.
Finish(c) ==
    /\ task[c] = "awaiting"
    /\ \E o \in Outcomes : future' = [future EXCEPT ![c] = o]
    /\ running' = [running EXCEPT ![IdentOf[c]] = None]
    /\ task' = [task EXCEPT ![c] = "done"]
    /\ UNCHANGED <<joined, got>>

\* The callback copies the outcome to the waiter's own future; it returns.
Deliver(c) ==
    /\ Waiting(c)
    /\ future[joined[c]] # None
    /\ got' = [got EXCEPT ![c] = future[joined[c]]]
    /\ UNCHANGED <<running, future, task, joined>>

\* Awaiting the shared future itself: cancelling a caller cancels it for all.
BugCancelShared(c) ==
    /\ Waiting(c)
    /\ got' = [got EXCEPT ![c] = Cancelled]
    /\ future' = [future EXCEPT ![joined[c]] = Cancelled]
    /\ UNCHANGED <<running, task, joined>>

\* Awaiting the task: cancelling a caller cancels the run.
BugCancel(c) ==
    /\ Waiting(c)
    /\ got' = [got EXCEPT ![c] = Cancelled]
    /\ task' = [task EXCEPT ![joined[c]] = "done"]
    /\ UNCHANGED <<running, future, joined>>

\* The caller's task is cancelled: only its own future is.
Cancel(c) ==
    /\ Waiting(c)
    /\ got' = [got EXCEPT ![c] = Cancelled]
    /\ UNCHANGED <<running, future, task, joined>>

Runs(c) == Start(c) \/ Finish(c) \/ Deliver(c)

Terminated ==
    /\ \A c \in Calls : got[c] # None /\ task[c] \in {"none", "done"}
    /\ UNCHANGED vars

Next ==
    \/ \E c \in Calls : Call(c) \/ Runs(c) \/ Cancel(c)
    \/ Terminated

Spec == Init /\ [][Next]_vars

\* The loop gives every ready task its turn, and the function ends: the HTTP
\* client below it has a timeout.
FairSpec == Spec /\ \A c \in Calls : WF_vars(Runs(c))

-----------------------------------------------------------------------------
TypeOK ==
    /\ running \in [Idents -> Calls \cup {None}]
    /\ future \in [Calls -> Outcomes \cup {None}]
    /\ task \in [Calls -> {"none", "created", "awaiting", "done"}]
    /\ joined \in [Calls -> Calls \cup {None}]
    /\ got \in [Calls -> Outcomes \cup {None, Cancelled}]

\* Two runs with one key are never under way at the same time, so the
\* upstream sees one request however many callers ask.
OneRunPerKey ==
    \A c, d \in Calls :
        /\ task[c] \in {"created", "awaiting"} /\ task[d] \in {"created", "awaiting"}
        /\ IdentOf[c] = IdentOf[d]
        => c = d

\* _running names exactly the runs that have not ended: nobody can join a
\* run that will never answer, and none is started beside a living one.
RunningIsExact ==
    \A k \in Idents :
        {c \in Calls : IdentOf[c] = k /\ task[c] \in {"created", "awaiting"}} =
        {running[k]} \ {None}

\* The keys with a run, the callers that wait for it, and the outcomes that
\* are on their way to callers.
Airborne == {k \in Idents : running[k] # None}
Groups == [k \in Idents |-> {c \in Calls : Waiting(c) /\ joined[c] = running[k]}]
Promises == [c \in Calls |-> IF Waiting(c) THEN future[joined[c]] ELSE None]

Promised == INSTANCE SingleFlight
            WITH airborne <- Airborne, group <- Groups, promise <- Promises

\* The callers that overlap share an outcome and the others do not see it.
SharesOutcomes == Promised!Spec

\* A caller that is not cancelled gets an answer, also when the one whose
\* call started the run was cancelled.
EveryCallerAnswered == \A c \in Calls : joined[c] # None ~> got[c] # None
============================================================================
