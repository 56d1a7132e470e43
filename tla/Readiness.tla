----------------------------- MODULE Readiness -----------------------------
(***************************************************************************)
(* GET /health/ready: ReadinessRunner runs the checks concurrently, each   *)
(* under its own timeout and with its own except clause, and the           *)
(* controller answers 200 when all are healthy and 503 otherwise.          *)
(*                                                                         *)
(* A dependency is up (it answers before the clock moves), down (the call  *)
(* raises) or hung (the call does not return: a dead network, or a pool    *)
(* with no connection left).  It changes at any time.  The check of NATS   *)
(* asks the client object, not the server: it never waits, and takes a     *)
(* connection that hangs for a good one until the client has noticed.      *)
(***************************************************************************)
EXTENDS Naturals

CONSTANTS
    Checks,
    Local,         \* the checks that ask an object of the process: nats
    Timeout,       \* timeout_seconds of the runner
    Unwinding,     \* the time a cancelled check may need to give back what it holds
    MaxChanges,    \* how often the dependencies change, at most
    Unknown

ASSUME ChecksAssumption == Local \subseteq Checks
ASSUME TimesAssumption == {Timeout, Unwinding, MaxChanges} \subseteq Nat /\ Timeout > 0

VARIABLES
    state,      \* of each dependency
    changes,
    pc,         \* where each check is
    since,      \* when each check was started
    healthy,    \* the result of each check, or Unknown
    response,   \* the status of the response, or "none"
    elapsed,    \* since the probe was received
    wasUp,      \* the dependencies that were up at some time since then
    wasBad      \* those that were down or hung at some time since then

vars == <<state, changes, pc, since, healthy, response, elapsed, wasUp, wasBad>>

Init ==
    /\ state \in [Checks -> {"up", "down", "hung"}]
    /\ changes = 0
    /\ pc = [k \in Checks |-> "idle"]
    /\ since = [k \in Checks |-> 0]
    /\ healthy = [k \in Checks |-> Unknown]
    /\ response = "none"
    /\ elapsed = 0
    /\ wasUp = {k \in Checks : state[k] = "up"}
    /\ wasBad = {k \in Checks : state[k] # "up"}

Result(k, value) ==
    /\ healthy' = [healthy EXCEPT ![k] = value]
    /\ pc' = [pc EXCEPT ![k] = "done"]

\* [await self._safe_check(c) for c in self._checks]
BugMayStart(k) == \A other \in Checks \ {k} : pc[other] \in {"idle", "done"}

\* gather(): all the checks at once.
MayStart(k) == TRUE

Start(k) ==
    /\ pc[k] = "idle" /\ MayStart(k)
    /\ pc' = [pc EXCEPT ![k] = "running"]
    /\ since' = [since EXCEPT ![k] = elapsed]
    /\ UNCHANGED <<state, changes, healthy, response, elapsed, wasUp, wasBad>>

Answers(k) == state[k] = "up" \/ (k \in Local /\ state[k] = "hung")

Pass(k) ==
    /\ pc[k] = "running" /\ Answers(k)
    /\ Result(k, TRUE)
    /\ UNCHANGED <<state, changes, since, response, elapsed, wasUp, wasBad>>

\* Without the except clause the first exception is gather's.
BugRaise(k) ==
    /\ pc[k] = "running" /\ state[k] = "down"
    /\ response' = "INTERNAL_SERVER_ERROR"
    /\ UNCHANGED <<state, changes, pc, since, healthy, elapsed, wasUp, wasBad>>

\* The check raises and _safe_check reports it.
Raise(k) ==
    /\ pc[k] = "running" /\ state[k] = "down"
    /\ Result(k, FALSE)
    /\ UNCHANGED <<state, changes, since, response, elapsed, wasUp, wasBad>>

\* asyncio.timeout cancels the check.
TimeOut(k) ==
    /\ pc[k] = "running"
    /\ elapsed = since[k] + Timeout
    /\ pc' = [pc EXCEPT ![k] = "unwinding"]
    /\ UNCHANGED <<state, changes, since, healthy, response, elapsed, wasUp, wasBad>>

\* The timeout suppressed instead of reported.
BugUnwound(k) ==
    /\ pc[k] = "unwinding"
    /\ Result(k, TRUE)
    /\ UNCHANGED <<state, changes, since, response, elapsed, wasUp, wasBad>>

Unwound(k) ==
    /\ pc[k] = "unwinding"
    /\ Result(k, FALSE)
    /\ UNCHANGED <<state, changes, since, response, elapsed, wasUp, wasBad>>

Respond ==
    /\ response = "none" /\ \A k \in Checks : pc[k] = "done"
    /\ response' = IF \A k \in Checks : healthy[k] THEN "OK" ELSE "SERVICE_UNAVAILABLE"
    /\ UNCHANGED <<state, changes, pc, since, healthy, elapsed, wasUp, wasBad>>

Change(k) ==
    /\ response = "none" /\ changes < MaxChanges
    /\ \E s \in {"up", "down", "hung"} \ {state[k]} :
           /\ state' = [state EXCEPT ![k] = s]
           /\ wasUp' = IF s = "up" THEN wasUp \cup {k} ELSE wasUp
           /\ wasBad' = IF s = "up" THEN wasBad ELSE wasBad \cup {k}
    /\ changes' = changes + 1
    /\ UNCHANGED <<pc, since, healthy, response, elapsed>>

\* What can be done at once is done before time passes.
Idle(k) ==
    \/ pc[k] = "idle" /\ ~MayStart(k)
    \/ /\ pc[k] = "running" /\ state[k] = "hung" /\ ~Answers(k)
       /\ elapsed < since[k] + Timeout
    \/ pc[k] = "unwinding" /\ elapsed < since[k] + Timeout + Unwinding
    \/ pc[k] = "done"

Tick ==
    /\ response = "none" /\ \E k \in Checks : pc[k] # "done"
    /\ \A k \in Checks : Idle(k)
    /\ elapsed' = elapsed + 1
    /\ UNCHANGED <<state, changes, pc, since, healthy, response, wasUp, wasBad>>

Answered ==
    /\ response # "none"
    /\ UNCHANGED vars

Next ==
    \/ \E k \in Checks :
           Start(k) \/ Pass(k) \/ Raise(k) \/ TimeOut(k) \/ Unwound(k) \/ Change(k)
    \/ Respond
    \/ Tick
    \/ Answered

Spec == Init /\ [][Next]_vars
-----------------------------------------------------------------------------
(* Properties. *)

\* The probe is answered within the timeout of one check, however many of
\* them hang: the orchestrator's own timeout need not know their number.
AnsweredInTime == elapsed <= Timeout + Unwinding

\* 200 means that every dependency that is asked over the network answered
\* while the probe was open.
ReadyMeansUp == response = "OK" => Checks \ Local \subseteq wasUp

\* Every response reports on every check, and calls unhealthy only what was
\* down or hung while the probe was open: no check fails for another.
ReportsEveryCheck ==
    response # "none" =>
        \A k \in Checks : healthy[k] \in BOOLEAN /\ (healthy[k] = FALSE => k \in wasBad)
=============================================================================
