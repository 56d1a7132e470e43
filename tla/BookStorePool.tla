--------------------------- MODULE BookStorePool ---------------------------
(***************************************************************************)
(* BookStore on the connection pool of the process.  A session takes a     *)
(* connection at its first statement, keeps it through every lock wait,    *)
(* and gives it back when its transaction ends; a request that finds all   *)
(* of them taken waits for pool_timeout seconds and then fails.            *)
(*                                                                         *)
(* A COMMIT that raises skips close_transaction(): the connection stays    *)
(* with the session, and nothing says when that is garbage collected.      *)
(***************************************************************************)
EXTENDS BookStore, FiniteSets

CONSTANT PoolSize    \* pool_size + max_overflow

ASSUME PoolAssumption == PoolSize \in Nat \ {0}

VARIABLES
    connected,   \* the requests whose session holds a connection
    abandoned    \* those of them whose session nobody will close

poolVars == <<vars, connected, abandoned>>

PoolInit == Init /\ connected = {} /\ abandoned = {}

HasRoom == Cardinality(connected) < PoolSize

\* The requests that have run no statement yet, or sent the last.
AtFirstStatement(r) == pc[r] \in {"exists", "insert"} /\ r \notin connected

\* Only an upload without books ends its transaction without a statement.
NeedsNone(r) == pc[r] = "commit" /\ r \notin connected

Connect(r) ==
    /\ AtFirstStatement(r)
    /\ HasRoom
    /\ connected' = connected \cup {r}
    /\ UNCHANGED <<vars, abandoned>>

\* Slip: pool_timeout is None.
BugPoolTimeout(r) == FALSE

\* sqlalchemy.exc.TimeoutError leaves the unit of work like any exception.
PoolTimeout(r) ==
    /\ AtFirstStatement(r)
    /\ ~HasRoom
    /\ Abort(r, Failure(op[r]))
    /\ UNCHANGED <<connected, abandoned>>

\* Slip: only the branch of __aexit__ that commits closes the session.
BugGiveBack(r) ==
    /\ connected' = IF pc'[r] = "done" /\ status'[r] = Success(op[r])
                    THEN connected \ {r} ELSE connected
    /\ UNCHANGED abandoned

\* The session is closed when its transaction has ended, and not before.
GiveBack(r) ==
    /\ connected' = IF pc'[r] = "done" THEN connected \ {r} ELSE connected
    /\ UNCHANGED abandoned

Serve(r) ==
    /\ r \in connected \/ NeedsNone(r)
    /\ Works(r)
    /\ GiveBack(r)

Take(r) ==
    /\ Receive(r) \/ RefuseEmpty(r)
    /\ UNCHANGED <<connected, abandoned>>

\* A statement that fails is rolled back, and the session closed.
LoseStatement(r) ==
    /\ r \in connected
    /\ StatementLost(r)
    /\ GiveBack(r)

LoseCommit(r) ==
    /\ r \in connected
    /\ CommitLost(r)
    /\ abandoned' = abandoned \cup {r}
    /\ UNCHANGED connected

\* The session of a request that is over may be collected.
Collect(r) ==
    /\ r \in abandoned
    /\ connected' = connected \ {r}
    /\ abandoned' = abandoned \ {r}
    /\ UNCHANGED vars

PoolTerminated ==
    /\ \A r \in Requests : pc[r] = "done" /\ r \notin connected
    /\ UNCHANGED poolVars

PoolNext ==
    \/ \E r \in Requests :
           \/ Take(r) \/ Connect(r) \/ PoolTimeout(r) \/ Serve(r)
           \/ LoseStatement(r) \/ LoseCommit(r) \/ Collect(r)
    \/ PoolTerminated

PoolSpec == PoolInit /\ [][PoolNext]_poolVars

\* The timer of the pool runs out unless a connection comes first.  Nothing
\* makes the garbage collector look for a session.
PoolFairSpec ==
    PoolSpec /\ \A r \in Requests : WF_poolVars(Connect(r) \/ PoolTimeout(r) \/ Serve(r))
-----------------------------------------------------------------------------
(* Properties. *)

\* Whatever a request ends in, its connection comes back to the pool, unless
\* its COMMIT raised.  The requests that wait for a connection and those that
\* wait for a lock are in each other's way meanwhile.
ConnectionsComeBack ==
    \A r \in Requests : r \in connected ~> r \notin connected \/ r \in abandoned
============================================================================
