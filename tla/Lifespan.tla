------------------------------ MODULE Lifespan ------------------------------
(***************************************************************************)
(* The life of a service process (python -m library): what uvicorn, the    *)
(* lifespan of Litestar, FastStream and the two dishka containers do from  *)
(* start to exit.  A container opens a resource of scope APP when a call   *)
(* first needs it and closes all it opened when it is closed.  There is    *)
(* one container for REST and one for the stream; the second is closed by  *)
(* faststream_app.stop(), after the broker, and the first after that.      *)
(***************************************************************************)
CONSTANTS
    Processes,
    RestCalls     \* the kinds of REST call that are made

\* What the storages, the Open Library client and the readiness probe are
\* made of.
StorageNeeds == {"engine"}
ClientNeeds == {"http", "redis"}
ProbeNeeds == {"engine", "redis"}

\* What a call of each kind resolves: a books or users endpoint, GET
\* /open_library, GET /health/ready, and an upload message.
CallNeeds == [rows |-> StorageNeeds, search |-> ClientNeeds,
              ready |-> ProbeNeeds, upload |-> StorageNeeds \cup ClientNeeds]

Containers == {"rest", "stream"}
Resources == {"engine", "redis", "http"}

ASSUME CallsAssumption == RestCalls \subseteq DOMAIN CallNeeds \ {"upload"}

\* "stopping" is on line 76 of service.py with the broker connected,
\* "disconnected" on it with the broker stopped, "closing" on line 77.
Phases == {"down", "serving", "stopping", "disconnected", "closing"}

VARIABLES
    phase,
    opened,   \* of each container, the resources it holds open
    calls,    \* the kinds of REST call under way
    exit      \* how the process last ended

lifespanVars == <<phase, opened, calls, exit>>

LifespanTypeOK ==
    /\ phase \in [Processes -> Phases]
    /\ opened \in [Processes -> [Containers -> SUBSET Resources]]
    /\ calls \in [Processes -> SUBSET RestCalls]
    /\ exit \in [Processes -> {"none", "clean", "raised", "killed"}]

Closed == [c \in Containers |-> {}]

LifespanInit ==
    /\ phase = [p \in Processes |-> "down"]
    /\ opened = [p \in Processes |-> Closed]
    /\ calls = [p \in Processes |-> {}]
    /\ exit = [p \in Processes |-> "none"]

Consuming(p) == phase[p] \in {"serving", "stopping"}

\* The containers are made and the broker connects and subscribes; then
\* uvicorn listens.
Start(p) ==
    /\ phase[p] = "down"
    /\ phase' = [phase EXCEPT ![p] = "serving"]
    /\ opened' = [opened EXCEPT ![p] = Closed]
    /\ exit' = [exit EXCEPT ![p] = "none"]
    /\ UNCHANGED calls

\* A container resolves what a call needs.
Open(p, container, kind) ==
    opened' = [opened EXCEPT ![p][container] = @ \cup CallNeeds[kind]]

OpenCall(p, kind) ==
    /\ phase[p] = "serving"
    /\ calls' = [calls EXCEPT ![p] = @ \cup {kind}]
    /\ Open(p, "rest", kind)
    /\ UNCHANGED <<phase, exit>>

EndCall(p, kind) ==
    /\ kind \in calls[p]
    /\ calls' = [calls EXCEPT ![p] = @ \ {kind}]
    /\ UNCHANGED <<phase, opened, exit>>

\* uvicorn lets the open calls end before it runs the rest of the lifespan.
BeginStop(p) ==
    /\ phase[p] = "serving"
    /\ calls[p] = {}
    /\ phase' = [phase EXCEPT ![p] = "stopping"]
    /\ UNCHANGED <<opened, calls, exit>>

BrokerStopped(p) ==
    /\ phase[p] = "stopping"
    /\ phase' = [phase EXCEPT ![p] = "disconnected"]
    /\ UNCHANGED <<opened, calls, exit>>

\* dishka runs the exits of all that a container opened, also when one of
\* them raises.
Close(p, container) == opened' = [opened EXCEPT ![p][container] = {}]

CloseStream(p) ==
    /\ phase[p] = "disconnected"
    /\ Close(p, "stream")
    /\ phase' = [phase EXCEPT ![p] = "closing"]
    /\ UNCHANGED <<calls, exit>>

Exit(p, how) ==
    /\ phase' = [phase EXCEPT ![p] = "down"]
    /\ exit' = [exit EXCEPT ![p] = how]
    /\ UNCHANGED calls

\* The broker cannot be stopped, or the stream's container raises once it
\* has run its exits: line 77 is not reached, since nothing is in a finally.
StopRaises(p) ==
    /\ \/ phase[p] = "stopping" /\ UNCHANGED opened
       \/ phase[p] = "disconnected" /\ Close(p, "stream")
    /\ Exit(p, "raised")

\* Slip: the lifespan ends after line 76.
BugCloseRest(p) ==
    /\ phase[p] = "closing"
    /\ Exit(p, "clean")
    /\ UNCHANGED opened

CloseRest(p) ==
    /\ phase[p] = "closing"
    /\ Close(p, "rest")
    /\ \E how \in {"clean", "raised"} : Exit(p, how)

\* The process is killed, or dies, anywhere.
Crash(p) ==
    /\ phase[p] # "down"
    /\ phase' = [phase EXCEPT ![p] = "down"]
    /\ exit' = [exit EXCEPT ![p] = "killed"]
    /\ opened' = [opened EXCEPT ![p] = Closed]
    /\ calls' = [calls EXCEPT ![p] = {}]

\* A process that stops without an error has closed everything both
\* containers ever opened, and while it stops nothing is opened again by a
\* call or by a late message (service.py:72-77).
StopsClean ==
    \A p \in Processes :
        /\ phase[p] = "down" /\ exit[p] = "clean" => opened[p] = Closed
        /\ phase[p] = "closing" => opened[p]["stream"] = {}
=============================================================================
