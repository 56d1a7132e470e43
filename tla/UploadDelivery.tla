--------------------------- MODULE UploadDelivery ---------------------------
(***************************************************************************)
(* Upload messages from the stream to the table, in processes that start,  *)
(* stop and crash.  The subscriber names a stream but no durable consumer  *)
(* and no queue: every start makes a consumer of its own, at the oldest    *)
(* message the stream has kept, and every process is sent every message.   *)
(* The server sends a message again while it is not settled, also when it  *)
(* is still being handled.  Time is not measured: a message may expire     *)
(* (MAX_AGE_SECONDS), or be sent again, at any moment.                     *)
(*                                                                         *)
(* The connection to the server may break.  The client then tries to       *)
(* reconnect max_reconnect_attempts times; the server drops the consumer   *)
(* of a client that is away too long, and nothing makes another.  The      *)
(* process goes on serving REST whatever becomes of its connection.        *)
(***************************************************************************)
EXTENDS Lifespan, Naturals, SequencesExt

CONSTANTS
    Messages,
    Books,
    Results,       \* of a message, the sets of books Open Library may answer
    NoMessage,
    MaxCopies,     \* of a message in one process, at most
    MaxBreaks      \* the connections break, at most

ASSUME MessagesAssumption == NoMessage \notin Messages
ASSUME ResultsAssumption == Results \in [Messages -> SUBSET SUBSET Books]
ASSUME BoundsAssumption == MaxCopies \in Nat \ {0} /\ MaxBreaks \in Nat

VARIABLES
    readable,   \* the messages that are an UploadBooksEvent
    stream,     \* the messages published, in order
    horizon,    \* how many of them have expired
    position,   \* of a process's consumer: how many it has been sent
    unsettled,  \* sent to a process and not settled, as the server knows it
    queue,      \* received by a process and not yet taken up
    hand,       \* the message a process is handling
    step,       \* and how far it is
    found,      \* the books it collected for it
    table,      \* the live books
    saved,      \* messages whose transaction has been committed, ever
    acked,      \* messages acknowledged, ever
    link,       \* a process's connection to the server, see LinkStates
    breaks      \* how often a connection broke

streamVars == <<readable, stream, horizon>>
consumerVars == <<position, unsettled, queue>>
handlerVars == <<hand, step, found>>
tableVars == <<table, saved>>
linkVars == <<link, breaks>>
vars == <<lifespanVars, streamVars, consumerVars, handlerVars, tableVars,
          acked, linkVars>>

\* None; up, with a consumer; down, and the client tries to reconnect; or
\* nothing comes any more: there is no consumer, or the client has given up.
LinkStates == {"none", "up", "down", "gone"}

TypeOK ==
    /\ LifespanTypeOK
    /\ readable \in SUBSET Messages
    /\ stream \in Seq(Messages) /\ horizon \in 0 .. Len(stream)
    /\ position \in [Processes -> 0 .. Len(stream)]
    /\ unsettled \in [Processes -> SUBSET Messages]
    /\ queue \in [Processes -> Seq(Messages)]
    /\ hand \in [Processes -> Messages \cup {NoMessage}]
    /\ step \in [Processes -> {"idle", "search", "save", "saved", "failed"}]
    /\ found \in [Processes -> SUBSET Books]
    /\ \A p \in Processes :
        /\ hand[p] = NoMessage <=> step[p] = "idle"
        /\ step[p] \in {"search", "save", "saved"} => hand[p] \in readable
    /\ table \in SUBSET Books
    /\ saved \in SUBSET Messages /\ acked \in SUBSET Messages
    /\ link \in [Processes -> LinkStates] /\ breaks \in 0 .. MaxBreaks
    /\ \A p \in Processes : Consuming(p) <=> link[p] # "none"

Init ==
    /\ LifespanInit
    /\ readable \in SUBSET Messages
    /\ stream = <<>> /\ horizon = 0
    /\ position = [p \in Processes |-> 0]
    /\ unsettled = [p \in Processes |-> {}]
    /\ queue = [p \in Processes |-> <<>>]
    /\ hand = [p \in Processes |-> NoMessage]
    /\ step = [p \in Processes |-> "idle"]
    /\ found = [p \in Processes |-> {}]
    /\ table = {}
    /\ saved = {} /\ acked = {}
    /\ link = [p \in Processes |-> "none"] /\ breaks = 0

\* What the stream still keeps.
Retained == ToSet(SubSeq(stream, horizon + 1, Len(stream)))

-----------------------------------------------------------------------------
(* The stream and its consumers *)

Publish(m) ==
    /\ m \notin ToSet(stream)
    /\ stream' = Append(stream, m)
    /\ UNCHANGED <<lifespanVars, readable, horizon, consumerVars, handlerVars,
                   tableVars, acked, linkVars>>

Expire ==
    /\ horizon < Len(stream)
    /\ horizon' = horizon + 1
    /\ UNCHANGED <<lifespanVars, readable, stream, consumerVars, handlerVars,
                   tableVars, acked, linkVars>>

Due(p) == IF position[p] < horizon THEN horizon + 1 ELSE position[p] + 1

Send(p) ==
    /\ Due(p) <= Len(stream)
    /\ position' = [position EXCEPT ![p] = Due(p)]
    /\ unsettled' = [unsettled EXCEPT ![p] = @ \cup {stream[Due(p)]}]
    /\ UNCHANGED <<lifespanVars, streamVars, handlerVars, tableVars,
                   acked, linkVars>>

Deliver(p) ==
    /\ link[p] = "up"
    /\ Send(p)
    /\ queue' = [queue EXCEPT ![p] = Append(@, stream[Due(p)])]

\* The server has not noticed that the connection is broken.
DeliverLost(p) ==
    /\ link[p] = "down"
    /\ Send(p)
    /\ UNCHANGED queue

CopiesOf(p, m) ==
    Cardinality({i \in DOMAIN queue[p] : queue[p][i] = m})
        + (IF hand[p] = m THEN 1 ELSE 0)

\* ack_wait has passed since m was last sent.
Redeliver(p, m) ==
    /\ link[p] = "up"
    /\ m \in unsettled[p] \cap Retained
    /\ CopiesOf(p, m) < MaxCopies
    /\ queue' = [queue EXCEPT ![p] = Append(@, m)]
    /\ UNCHANGED <<lifespanVars, streamVars, position, unsettled, handlerVars,
                   tableVars, acked, linkVars>>

-----------------------------------------------------------------------------
(* The handler.  A process handles the messages of its queue one by one.   *)

\* Slip: the event is not parsed.
BugTake(p) ==
    /\ Consuming(p) /\ hand[p] = NoMessage /\ queue[p] # <<>>
    /\ hand' = [hand EXCEPT ![p] = Head(queue[p])]
    /\ step' = [step EXCEPT ![p] = "search"]
    /\ Open(p, "stream", "upload")
    /\ queue' = [queue EXCEPT ![p] = Tail(@)]
    /\ UNCHANGED <<phase, calls, exit, streamVars, position, unsettled, found,
                   tableVars, acked, linkVars>>

\* The event is parsed and the command resolved from the stream's container.
Take(p) ==
    /\ Consuming(p) /\ hand[p] = NoMessage /\ queue[p] # <<>>
    /\ LET m == Head(queue[p])
       IN  /\ hand' = [hand EXCEPT ![p] = m]
           /\ \/ /\ m \in readable
                 /\ step' = [step EXCEPT ![p] = "search"]
                 /\ Open(p, "stream", "upload")
              \/ /\ m \notin readable
                 /\ step' = [step EXCEPT ![p] = "failed"]
                 /\ UNCHANGED opened
    /\ queue' = [queue EXCEPT ![p] = Tail(@)]
    /\ UNCHANGED <<phase, calls, exit, streamVars, position, unsettled, found,
                   tableVars, acked, linkVars>>

Handled == <<lifespanVars, streamVars, consumerVars, acked, linkVars>>

\* Every page of every query: Upload says which books these are.
Collect(p) ==
    /\ step[p] = "search"
    /\ \E books \in Results[hand[p]] : found' = [found EXCEPT ![p] = books]
    /\ step' = [step EXCEPT ![p] = "save"]
    /\ UNCHANGED <<Handled, hand, tableVars>>

\* Slip: a transaction for each bucket instead of one around them all.
BugFail(p) ==
    /\ step[p] \in {"search", "save"}
    /\ step' = [step EXCEPT ![p] = "failed"]
    /\ found' = [found EXCEPT ![p] = {}]
    /\ \E part \in SUBSET found[p] : table' = table \cup part
    /\ UNCHANGED <<Handled, hand, saved>>

\* A search fails, or a statement does and the transaction is rolled back.
Fail(p) ==
    /\ step[p] \in {"search", "save"}
    /\ step' = [step EXCEPT ![p] = "failed"]
    /\ found' = [found EXCEPT ![p] = {}]
    /\ UNCHANGED <<Handled, hand, tableVars>>

\* All buckets and the COMMIT; a book that is there is left as it is
\* (BookStore's upload).  If the answer to the COMMIT is lost it has failed,
\* as far as the process knows.
Save(p) ==
    /\ step[p] = "save"
    /\ table' = table \cup found[p]
    /\ saved' = saved \cup {hand[p]}
    /\ \E known \in {"saved", "failed"} : step' = [step EXCEPT ![p] = known]
    /\ found' = [found EXCEPT ![p] = {}]
    /\ UNCHANGED <<Handled, hand>>

Drop(p) ==
    /\ hand' = [hand EXCEPT ![p] = NoMessage]
    /\ step' = [step EXCEPT ![p] = "idle"]

\* The client keeps what it is to send until it is connected again.
Settle(p) ==
    /\ link[p] \in {"up", "down"}
    /\ unsettled' = [unsettled EXCEPT ![p] = @ \ {hand[p]}]

\* The handler has returned.
Ack(p) ==
    /\ step[p] = "saved"
    /\ acked' = acked \cup {hand[p]}
    /\ Settle(p)
    /\ Drop(p)
    /\ UNCHANGED <<lifespanVars, streamVars, position, queue, found,
                   tableVars, linkVars>>

\* Slip: the middleware logs the exception and returns.
BugReject(p) ==
    /\ step[p] = "failed"
    /\ acked' = acked \cup {hand[p]}
    /\ Settle(p)
    /\ Drop(p)
    /\ UNCHANGED <<lifespanVars, streamVars, position, queue, found,
                   tableVars, linkVars>>

\* Slip: a message that failed is left to be sent again, for ever.
BugNack(p) ==
    /\ step[p] = "failed"
    /\ Drop(p)
    /\ UNCHANGED <<lifespanVars, streamVars, consumerVars, found, tableVars,
                   acked, linkVars>>

\* The log middleware raises what the handler raised, so that the message is
\* rejected (terminated): this consumer is not sent it again.
Reject(p) ==
    /\ step[p] = "failed"
    /\ Settle(p)
    /\ Drop(p)
    /\ UNCHANGED <<lifespanVars, streamVars, position, queue, found,
                   tableVars, acked, linkVars>>

\* The acknowledgement, or the rejection, does not reach the server, or not
\* a consumer.
SettleLost(p) ==
    /\ step[p] \in {"saved", "failed"}
    /\ link[p] \in {"down", "gone"}
    /\ Drop(p)
    /\ UNCHANGED <<lifespanVars, streamVars, consumerVars, found, tableVars,
                   acked, linkVars>>

Handle(p) ==
    \/ Take(p) \/ Collect(p) \/ Fail(p) \/ Save(p)
    \/ Ack(p) \/ Reject(p) \/ SettleLost(p)

-----------------------------------------------------------------------------
(* The process *)

Rest == <<streamVars, consumerVars, handlerVars, tableVars, acked, linkVars>>

Linked(p, state) ==
    /\ link' = [link EXCEPT ![p] = state]
    /\ UNCHANGED breaks

\* An endpoint deletes b, or gives it other texts, in a call under way.
Delete(p, b) ==
    /\ "rows" \in calls[p]
    /\ b \in table
    /\ table' = table \ {b}
    /\ UNCHANGED <<lifespanVars, streamVars, consumerVars, handlerVars, saved,
                   acked, linkVars>>

\* What dies with the consumer, the queue and the task of the handler.
Forget(p) ==
    /\ position' = [position EXCEPT ![p] = 0]
    /\ unsettled' = [unsettled EXCEPT ![p] = {}]
    /\ queue' = [queue EXCEPT ![p] = <<>>]
    /\ Drop(p)
    /\ found' = [found EXCEPT ![p] = {}]
    /\ UNCHANGED <<streamVars, tableVars, acked>>

\* broker.stop() lets the handler end, or cancels it: then its transaction
\* is rolled back, unless its COMMIT was on the way already (Save), and its
\* message is rejected or not settled at all; either way the consumer goes.
StopBroker(p) == BrokerStopped(p) /\ Forget(p) /\ Linked(p, "none")

Begin(p) ==
    /\ Start(p)
    /\ Linked(p, "up")
    /\ UNCHANGED <<streamVars, consumerVars, handlerVars, tableVars, acked>>

Live(p) ==
    \/ \E kind \in RestCalls : (OpenCall(p, kind) \/ EndCall(p, kind)) /\ UNCHANGED Rest
    \/ BeginStop(p) /\ UNCHANGED Rest
    \/ StopBroker(p)
    \/ StopRaises(p) /\ Forget(p) /\ Linked(p, "none")
    \/ (CloseStream(p) \/ CloseRest(p)) /\ UNCHANGED Rest

-----------------------------------------------------------------------------
(* The connection *)

Disconnect(p) ==
    /\ link[p] = "up"
    /\ breaks < MaxBreaks
    /\ breaks' = breaks + 1
    /\ link' = [link EXCEPT ![p] = "down"]
    /\ UNCHANGED <<lifespanVars, streamVars, consumerVars, handlerVars,
                   tableVars, acked>>

\* The client subscribes again, and the consumer is still there.
Reconnect(p) ==
    /\ link[p] = "down"
    /\ Linked(p, "up")
    /\ UNCHANGED <<lifespanVars, streamVars, consumerVars, handlerVars,
                   tableVars, acked>>

\* The server has dropped the consumer meanwhile.  What the process received
\* before, it still handles.
LoseConsumer(p) ==
    /\ link[p] = "down"
    /\ Linked(p, "gone")
    /\ position' = [position EXCEPT ![p] = 0]
    /\ unsettled' = [unsettled EXCEPT ![p] = {}]
    /\ UNCHANGED <<lifespanVars, streamVars, queue, handlerVars, tableVars, acked>>

\* The last attempt has failed: the client closes its subscription, and with
\* it the task that reads the queue and runs the handler.
GiveUpReconnecting(p) ==
    /\ link[p] = "down"
    /\ Linked(p, "gone")
    /\ Forget(p)
    /\ UNCHANGED lifespanVars

Mends(p) == Reconnect(p) \/ LoseConsumer(p) \/ GiveUpReconnecting(p)

Next ==
    \/ \E m \in Messages : Publish(m)
    \/ Expire
    \/ \E p \in Processes :
        \/ Begin(p)
        \/ Live(p)
        \/ Crash(p) /\ Forget(p) /\ Linked(p, "none")
        \/ Deliver(p) \/ DeliverLost(p) \/ \E m \in Messages : Redeliver(p, m)
        \/ Handle(p)
        \/ Disconnect(p) \/ Mends(p)
        \/ \E b \in Books : Delete(p, b)

Spec == Init /\ [][Next]_vars

Searched(p) == step[p] = "search" /\ (Collect(p) \/ Fail(p))

SettledOrLost(p) == Ack(p) \/ Reject(p) \/ SettleLost(p)

\* The server sends what is due over a connection that is up; the client
\* tries a limited number of times to reconnect; aiohttp and aiocache limit a
\* search in time.  Nothing limits a statement, so nothing makes a handler
\* save or fail; nothing starts a process again, or makes anybody publish,
\* call or stop.
Fairness ==
    \A p \in Processes :
        /\ WF_vars(Deliver(p))
        /\ \A m \in Messages : WF_vars(Redeliver(p, m))
        /\ WF_vars(Mends(p))
        /\ WF_vars(Take(p)) /\ WF_vars(Searched(p)) /\ WF_vars(SettledOrLost(p))

FairSpec == Spec /\ Fairness

-----------------------------------------------------------------------------

\* A message is acknowledged only when its books have been committed, by
\* this or an earlier delivery (handlers/books.py, middlewares/log.py).
AckedAreSaved == acked \subseteq saved

\* A restart, a second process or a lost acknowledgement applies a message
\* again, but nothing applies it once it has expired and left every queue,
\* and nothing ever applies a part of it: deletions are final from then on.
HeldBy(p) == ToSet(queue[p]) \cup ({hand[p]} \ {NoMessage})

Offered == Retained \cup UNION {HeldBy(p) : p \in Processes}

Fate(m) == CASE m \in Offered -> "offered"
             [] m \in ToSet(stream) \ Offered -> "gone"
             [] OTHER -> "new"

Feed == INSTANCE UploadFeed WITH
            fate <- [m \in Messages |-> Fate(m)],
            applied <- saved,
            confirmed <- acked

ImplementsFeed == Feed!Spec

Settled(p, m) ==
    /\ m \in ToSet(SubSeq(stream, 1, position[p]))
    /\ m \notin unsettled[p] \cup HeldBy(p)

Listening(p) == phase[p] = "serving" /\ link[p] # "gone"

\* A process that goes on serving and has not lost its consumer comes to
\* settle every message the stream keeps, though searches and transactions
\* fail, copies of a message arrive while it is handled and connections break:
\* unless one of its transactions hangs for ever.
EveryMessageSettled ==
    \A p \in Processes, m \in Messages :
        []<>(step[p] # "save") =>
            (m \in Retained /\ Listening(p)
                ~> Settled(p, m) \/ m \notin Retained \/ ~Listening(p))
=============================================================================
