------------------------ MODULE UploadDeliveryProofs ------------------------
(***************************************************************************)
(* Any number of processes, messages, copies and broken connections.  A    *)
(* message is acknowledged after its COMMIT because the step of a handler  *)
(* says what has been committed; and the consumer keeps the contract of    *)
(* UploadFeed because a step that neither publishes, saves, acknowledges   *)
(* nor deletes can only take messages off offer.                           *)
(***************************************************************************)
EXTENDS UploadDelivery, SequenceTheorems, TLAPS

\* A handler has committed what it is about to acknowledge.
SavedBeforeAck == \A p \in Processes : step[p] = "saved" => hand[p] \in saved

\* What it is about to save is an answer of Open Library.
FoundIsResult == \A p \in Processes : step[p] = "save" => found[p] \in Results[hand[p]]

\* Nothing is held that was not published.
HeldWasPublished == \A p \in Processes : HeldBy(p) \subseteq ToSet(stream)

IndInv ==
    /\ TypeOK
    /\ SavedBeforeAck
    /\ FoundIsResult
    /\ HeldWasPublished
    /\ AckedAreSaved
    /\ StopsClean

-----------------------------------------------------------------------------
(* Sequences of messages as the sets of their elements. *)

LEMMA NothingInEmpty == ToSet(<<>>) = {}
BY DEF ToSet

LEMMA AppendAdds ==
  ASSUME NEW S, NEW s \in Seq(S), NEW e \in S
  PROVE  ToSet(Append(s, e)) = ToSet(s) \cup {e}
<1>1. /\ DOMAIN Append(s, e) = 1 .. Len(s) + 1
      /\ DOMAIN s = 1 .. Len(s)
      /\ \A i \in 1 .. Len(s) : Append(s, e)[i] = s[i]
      /\ Append(s, e)[Len(s) + 1] = e
      /\ Len(s) \in Nat
  BY LenProperties
<1>2. \A x : x \in ToSet(Append(s, e)) => x \in ToSet(s) \cup {e}
  BY <1>1 DEF ToSet
<1>3. \A x : x \in ToSet(s) \cup {e} => x \in ToSet(Append(s, e))
  BY <1>1 DEF ToSet
<1> QED BY <1>2, <1>3

LEMMA HeadAndTail ==
  ASSUME NEW S, NEW s \in Seq(S), s # <<>>
  PROVE  ToSet(s) = {Head(s)} \cup ToSet(Tail(s))
<1>1. /\ Tail(s) \in Seq(S)
      /\ Len(Tail(s)) = Len(s) - 1
      /\ \A i \in 1 .. Len(Tail(s)) : Tail(s)[i] = s[i + 1]
  BY HeadTailProperties
<1>2. /\ DOMAIN s = 1 .. Len(s) /\ Len(s) \in Nat \ {0}
      /\ DOMAIN Tail(s) = 1 .. Len(Tail(s))
      /\ Head(s) = s[1]
  BY <1>1, LenProperties, EmptySeq
<1>3. \A x : x \in ToSet(s) => x \in {Head(s)} \cup ToSet(Tail(s))
  <2> SUFFICES ASSUME NEW i \in 1 .. Len(s)
               PROVE  s[i] \in {Head(s)} \cup ToSet(Tail(s))
    BY <1>2 DEF ToSet
  <2>1. CASE i = 1
    BY <2>1, <1>2
  <2>2. CASE i # 1
    <3>1. i - 1 \in DOMAIN Tail(s) /\ Tail(s)[i - 1] = s[i]
      BY <2>2, <1>1, <1>2
    <3> QED BY <3>1 DEF ToSet
  <2> QED BY <2>1, <2>2
<1>4. \A x : x \in {Head(s)} \cup ToSet(Tail(s)) => x \in ToSet(s)
  <2>1. Head(s) \in ToSet(s)
    BY <1>2 DEF ToSet
  <2>2. ASSUME NEW i \in DOMAIN Tail(s) PROVE Tail(s)[i] \in ToSet(s)
    <3>1. i + 1 \in DOMAIN s /\ Tail(s)[i] = s[i + 1]
      BY <1>1, <1>2
    <3> QED BY <3>1 DEF ToSet
  <2> QED BY <2>1, <2>2 DEF ToSet
<1> QED BY <1>3, <1>4

LEMMA ElementsAreMessages ==
  ASSUME NEW S, NEW s \in Seq(S)
  PROVE  ToSet(s) \subseteq S
BY LenProperties, ElementOfSeq DEF ToSet

LEMMA PartOfStream ==
  ASSUME NEW S, NEW s \in Seq(S), NEW from \in 0 .. Len(s), NEW to \in 0 .. Len(s)
  PROVE  ToSet(SubSeq(s, from + 1, to)) = {s[i] : i \in from + 1 .. to}
<1> DEFINE t == SubSeq(s, from + 1, to)
<1>1. Len(s) \in Nat /\ from \in Nat /\ to \in Nat
  BY LenProperties
<1>2. \A i \in from + 1 .. to : s[i] \in S
  BY <1>1, ElementOfSeq
<1>3. /\ t \in Seq(S)
      /\ Len(t) = IF from + 1 <= to THEN to - (from + 1) + 1 ELSE 0
      /\ \A i \in 1 .. to - (from + 1) + 1 : t[i] = s[from + 1 + i - 1]
  <2>1. from + 1 \in Int /\ to \in Int
    BY <1>1
  <2> HIDE DEF t
  <2> QED BY <2>1, <1>2, SubSeqProperties DEF t
<1> HIDE DEF t
<1>4. DOMAIN t = 1 .. Len(t)
  BY <1>3, LenProperties
<1>5. \A x : x \in ToSet(t) => x \in {s[i] : i \in from + 1 .. to}
  <2> SUFFICES ASSUME NEW j \in DOMAIN t PROVE \E i \in from + 1 .. to : t[j] = s[i]
    BY DEF ToSet
  <2>1. from + j \in from + 1 .. to /\ t[j] = s[from + j]
    BY <1>1, <1>3, <1>4
  <2> QED BY <2>1
<1>6. ASSUME NEW i \in from + 1 .. to PROVE s[i] \in ToSet(t)
  <2>1. i - from \in DOMAIN t /\ t[i - from] = s[i]
    BY <1>1, <1>3, <1>4
  <2> QED BY <2>1 DEF ToSet
<1> QED BY <1>5, <1>6 DEF t

-----------------------------------------------------------------------------

LEMMA NeedsAreResources ==
  ASSUME NEW kind \in RestCalls \cup {"upload"}
  PROVE  CallNeeds[kind] \subseteq Resources
BY CallsAssumption DEF CallNeeds, StorageNeeds, ClientNeeds, ProbeNeeds, Resources

LEMMA InitInv == Init => IndInv
<1> SUFFICES ASSUME Init PROVE IndInv
  OBVIOUS
<1> USE DEF Init, LifespanInit
<1>1. TypeOK
  BY EmptySeq, BoundsAssumption
     DEF TypeOK, LifespanTypeOK, Phases, Closed, Containers, Resources, LinkStates, Consuming
<1>2. SavedBeforeAck /\ FoundIsResult /\ AckedAreSaved
  BY DEF SavedBeforeAck, FoundIsResult, AckedAreSaved
<1>3. HeldWasPublished
  BY NothingInEmpty DEF HeldWasPublished, HeldBy
<1>4. StopsClean
  BY DEF StopsClean
<1> QED BY <1>1, <1>2, <1>3, <1>4 DEF IndInv

-----------------------------------------------------------------------------
(* What the parts of a step keep of the types. *)

StreamTyped ==
    /\ readable \in SUBSET Messages
    /\ stream \in Seq(Messages) /\ horizon \in 0 .. Len(stream)

ConsumerTyped ==
    /\ position \in [Processes -> 0 .. Len(stream)]
    /\ unsettled \in [Processes -> SUBSET Messages]
    /\ queue \in [Processes -> Seq(Messages)]

HandlerTyped ==
    /\ hand \in [Processes -> Messages \cup {NoMessage}]
    /\ step \in [Processes -> {"idle", "search", "save", "saved", "failed"}]
    /\ found \in [Processes -> SUBSET Books]
    /\ \A p \in Processes :
        /\ hand[p] = NoMessage <=> step[p] = "idle"
        /\ step[p] \in {"search", "save", "saved"} => hand[p] \in readable

TableTyped ==
    /\ table \in SUBSET Books
    /\ saved \in SUBSET Messages /\ acked \in SUBSET Messages

LinkTyped ==
    /\ link \in [Processes -> LinkStates] /\ breaks \in 0 .. MaxBreaks
    /\ \A p \in Processes : Consuming(p) <=> link[p] # "none"

\* A step of the life of a process.
LifespanStep(p) ==
    \/ Start(p) \/ BeginStop(p) \/ BrokerStopped(p) \/ CloseStream(p)
    \/ StopRaises(p) \/ CloseRest(p) \/ Crash(p)
    \/ \E kind \in RestCalls : OpenCall(p, kind) \/ EndCall(p, kind)

LEMMA OpenKeepsTypes ==
  ASSUME LifespanTypeOK, NEW p \in Processes, NEW c \in Containers,
         NEW kind \in RestCalls \cup {"upload"}, Open(p, c, kind)
  PROVE  opened' \in [Processes -> [Containers -> SUBSET Resources]]
<1>1. CallNeeds[kind] \subseteq Resources
  BY NeedsAreResources
<1>2. opened[p][c] \cup CallNeeds[kind] \in SUBSET Resources
  BY <1>1 DEF LifespanTypeOK
<1> QED BY <1>2 DEF Open, LifespanTypeOK

LEMMA LifespanKeepsTypes ==
  ASSUME LifespanTypeOK, StopsClean, NEW p \in Processes, LifespanStep(p)
  PROVE  LifespanTypeOK' /\ StopsClean'
<1>1. CASE Start(p)
  BY <1>1 DEF Start, LifespanTypeOK, Phases, Closed, StopsClean
<1>2. CASE BeginStop(p)
  BY <1>2 DEF BeginStop, LifespanTypeOK, Phases, StopsClean
<1>3. CASE BrokerStopped(p)
  BY <1>3 DEF BrokerStopped, LifespanTypeOK, Phases, StopsClean
<1>4. CASE CloseStream(p)
  BY <1>4 DEF CloseStream, Close, LifespanTypeOK, Phases, StopsClean, Containers
<1>5. CASE StopRaises(p)
  <2>1. /\ phase' = [phase EXCEPT ![p] = "down"]
        /\ exit' = [exit EXCEPT ![p] = "raised"]
        /\ UNCHANGED calls
    BY <1>5 DEF StopRaises, Exit
  <2>2. opened' \in {opened, [opened EXCEPT ![p]["stream"] = {}]}
    BY <1>5 DEF StopRaises, Close
  <2>3. LifespanTypeOK'
    BY <2>1, <2>2 DEF LifespanTypeOK, Phases, Containers
  <2>4. \A q \in Processes : q # p =>
            phase'[q] = phase[q] /\ exit'[q] = exit[q] /\ opened'[q] = opened[q]
    BY <2>1, <2>2 DEF LifespanTypeOK
  <2>5. phase'[p] = "down" /\ exit'[p] = "raised"
    BY <2>1 DEF LifespanTypeOK
  <2> QED BY <2>3, <2>4, <2>5 DEF StopsClean
<1>6. CASE CloseRest(p)
  <2>1. LifespanTypeOK'
    BY <1>6 DEF CloseRest, Exit, Close, LifespanTypeOK, Phases, Containers
  <2>2. opened'[p] = Closed
    <3>1. /\ opened[p] \in [Containers -> SUBSET Resources]
          /\ opened'[p] = [opened[p] EXCEPT !["rest"] = {}]
          /\ opened[p]["stream"] = {}
      BY <1>6 DEF CloseRest, Close, LifespanTypeOK, StopsClean
    <3>2. opened'[p] = [c \in Containers |-> {}]
      BY <3>1 DEF Containers
    <3> QED BY <3>2 DEF Closed
  <2>3. \A q \in Processes : q # p =>
            phase'[q] = phase[q] /\ exit'[q] = exit[q] /\ opened'[q] = opened[q]
    BY <1>6 DEF CloseRest, Exit, Close, LifespanTypeOK
  <2>4. phase'[p] = "down"
    BY <1>6 DEF CloseRest, Exit, LifespanTypeOK
  <2>5. Closed' = Closed
    BY DEF Closed
  <2> QED BY <2>1, <2>2, <2>3, <2>4, <2>5 DEF StopsClean
<1>7. CASE Crash(p)
  BY <1>7 DEF Crash, Closed, LifespanTypeOK, Phases, StopsClean
<1>8. ASSUME NEW kind \in RestCalls, OpenCall(p, kind) PROVE LifespanTypeOK' /\ StopsClean'
  <2>1. opened' \in [Processes -> [Containers -> SUBSET Resources]]
    BY <1>8, OpenKeepsTypes DEF OpenCall, Containers
  <2> QED BY <2>1, <1>8 DEF OpenCall, Open, LifespanTypeOK, StopsClean
<1>9. ASSUME NEW kind \in RestCalls, EndCall(p, kind) PROVE LifespanTypeOK' /\ StopsClean'
  BY <1>9 DEF EndCall, LifespanTypeOK, StopsClean
<1> QED BY <1>1, <1>2, <1>3, <1>4, <1>5, <1>6, <1>7, <1>8, <1>9 DEF LifespanStep

-----------------------------------------------------------------------------
(* Every step keeps the types. *)

LEMMA PublishKeepsTypes ==
  ASSUME TypeOK, NEW m \in Messages, Publish(m)
  PROVE  TypeOK'
<1> USE DEF Publish, lifespanVars, consumerVars, handlerVars, tableVars, linkVars
<1>1. /\ stream' \in Seq(Messages) /\ Len(stream') = Len(stream) + 1
      /\ Len(stream) \in Nat
  BY LenProperties DEF TypeOK
<1>2. horizon' \in 0 .. Len(stream') /\ position' \in [Processes -> 0 .. Len(stream')]
  <2>1. 0 .. Len(stream) \subseteq 0 .. Len(stream')
    BY <1>1
  <2> QED BY <2>1 DEF TypeOK
<1>3. UNCHANGED <<lifespanVars, readable, unsettled, queue, handlerVars, tableVars,
                  acked, linkVars>>
  OBVIOUS
<1> QED BY <1>1, <1>2, <1>3 DEF TypeOK, LifespanTypeOK, Consuming

LEMMA SendKeepsTypes ==
  ASSUME TypeOK, NEW p \in Processes, Send(p),
         queue' \in {queue, [queue EXCEPT ![p] = Append(@, stream[Due(p)])]}
  PROVE  TypeOK' /\ stream[Due(p)] \in Retained
<1>1. /\ position[p] \in 0 .. Len(stream) /\ horizon \in 0 .. Len(stream)
      /\ Len(stream) \in Nat
      /\ Due(p) <= Len(stream)
  BY LenProperties DEF TypeOK, Send
<1>2. Due(p) \in horizon + 1 .. Len(stream) /\ Due(p) \in 0 .. Len(stream)
  BY <1>1 DEF Due
<1>3. stream[Due(p)] \in Messages
  BY <1>1, <1>2, ElementOfSeq DEF TypeOK
<1>4. stream[Due(p)] \in Retained
  <2>1. Retained = {stream[i] : i \in horizon + 1 .. Len(stream)}
    <3>1. stream \in Seq(Messages) /\ Len(stream) \in 0 .. Len(stream)
      BY <1>1 DEF TypeOK
    <3> QED BY <3>1, <1>1, PartOfStream DEF Retained
  <2> QED BY <2>1, <1>2
<1>5. Append(queue[p], stream[Due(p)]) \in Seq(Messages)
  BY <1>3 DEF TypeOK
<1>6. ConsumerTyped'
  BY <1>2, <1>3, <1>5 DEF Send, streamVars, ConsumerTyped, TypeOK
<1>7. TypeOK'
  BY <1>6 DEF Send, TypeOK, LifespanTypeOK, ConsumerTyped, Consuming,
              lifespanVars, streamVars, handlerVars, tableVars, linkVars
<1> QED BY <1>4, <1>7

LEMMA DeliverKeepsTypes ==
  ASSUME TypeOK, NEW p \in Processes, Deliver(p) \/ DeliverLost(p)
  PROVE  TypeOK' /\ stream[Due(p)] \in Retained
BY SendKeepsTypes DEF Deliver, DeliverLost

LEMMA RedeliverKeepsTypes ==
  ASSUME TypeOK, NEW p \in Processes, NEW m \in Messages, Redeliver(p, m)
  PROVE  TypeOK'
<1>1. Append(queue[p], m) \in Seq(Messages)
  BY DEF TypeOK
<1> QED BY <1>1
        DEF Redeliver, TypeOK, LifespanTypeOK, Consuming,
            lifespanVars, streamVars, handlerVars, tableVars, linkVars

LEMMA TakeKeepsTypes ==
  ASSUME TypeOK, StopsClean, NEW p \in Processes, Take(p)
  PROVE  TypeOK' /\ StopsClean'
<1>1. queue[p] \in Seq(Messages) /\ queue[p] # <<>>
  BY DEF Take, TypeOK
<1>2. Head(queue[p]) \in Messages /\ Tail(queue[p]) \in Seq(Messages)
  BY <1>1, HeadTailProperties
<1>3. opened' \in [Processes -> [Containers -> SUBSET Resources]]
  <2>1. CASE Open(p, "stream", "upload")
    BY <2>1, OpenKeepsTypes DEF Containers, TypeOK
  <2>2. CASE UNCHANGED opened
    BY <2>2 DEF TypeOK, LifespanTypeOK
  <2> QED BY <2>1, <2>2 DEF Take
<1>4. /\ UNCHANGED <<phase, calls, exit>>
      /\ phase[p] \in {"serving", "stopping"}
      /\ \A q \in Processes : q # p => opened'[q] = opened[q]
  BY DEF Take, Consuming, Open, TypeOK, LifespanTypeOK
<1>5. LifespanTypeOK' /\ StopsClean'
  BY <1>3, <1>4 DEF TypeOK, LifespanTypeOK, StopsClean
<1>6. ConsumerTyped'
  BY <1>2 DEF Take, ConsumerTyped, TypeOK, streamVars
<1>7. HandlerTyped'
  <2>1. /\ hand' = [hand EXCEPT ![p] = Head(queue[p])]
        /\ \/ step' = [step EXCEPT ![p] = "search"] /\ Head(queue[p]) \in readable
           \/ step' = [step EXCEPT ![p] = "failed"]
        /\ UNCHANGED <<found, readable>>
    BY DEF Take, streamVars
  <2> QED BY <2>1, <1>2, MessagesAssumption DEF HandlerTyped, TypeOK
<1>8. StreamTyped' /\ TableTyped' /\ LinkTyped'
  BY <1>4 DEF Take, streamVars, tableVars, linkVars, StreamTyped, TableTyped, LinkTyped,
              Consuming, TypeOK
<1> QED BY <1>5, <1>6, <1>7, <1>8
        DEF TypeOK, StreamTyped, ConsumerTyped, HandlerTyped, TableTyped, LinkTyped

LEMMA CollectKeepsTypes ==
  ASSUME TypeOK, NEW p \in Processes, Collect(p)
  PROVE  TypeOK' /\ found'[p] \in Results[hand[p]]
<1>1. step[p] = "search" /\ hand[p] \in Messages
  BY MessagesAssumption DEF Collect, TypeOK
<1>2. PICK books \in Results[hand[p]] : found' = [found EXCEPT ![p] = books]
  BY DEF Collect
<1>3. books \in SUBSET Books
  BY <1>1, <1>2, ResultsAssumption
<1>4. HandlerTyped'
  BY <1>1, <1>2, <1>3 DEF Collect, Handled, streamVars, HandlerTyped, TypeOK
<1> QED BY <1>2, <1>4
        DEF Collect, Handled, lifespanVars, streamVars, consumerVars, tableVars, linkVars,
            TypeOK, LifespanTypeOK, HandlerTyped, Consuming

LEMMA FailKeepsTypes ==
  ASSUME TypeOK, NEW p \in Processes, Fail(p)
  PROVE  TypeOK'
BY DEF Fail, Handled, lifespanVars, streamVars, consumerVars, tableVars, linkVars,
       TypeOK, LifespanTypeOK, Consuming

LEMMA SaveKeepsTypes ==
  ASSUME TypeOK, NEW p \in Processes, Save(p)
  PROVE  TypeOK'
<1>1. step[p] = "save" /\ hand[p] \in Messages /\ found[p] \in SUBSET Books
  BY MessagesAssumption DEF Save, TypeOK
<1>2. table' \in SUBSET Books /\ saved' \in SUBSET Messages
  BY <1>1 DEF Save, TypeOK
<1>3. HandlerTyped'
  BY <1>1 DEF Save, Handled, streamVars, HandlerTyped, TypeOK
<1> QED BY <1>2, <1>3
        DEF Save, Handled, lifespanVars, streamVars, consumerVars, linkVars,
            TypeOK, LifespanTypeOK, HandlerTyped, Consuming

LEMMA SettlingKeepsTypes ==
  ASSUME TypeOK, NEW p \in Processes, Ack(p) \/ Reject(p) \/ SettleLost(p)
  PROVE  TypeOK'
<1>1. HandlerTyped'
  BY DEF Ack, Reject, SettleLost, Drop, streamVars, HandlerTyped, TypeOK
<1>2. ConsumerTyped'
  BY DEF Ack, Reject, SettleLost, Settle, streamVars, consumerVars, ConsumerTyped, TypeOK
<1>3. acked' \in SUBSET Messages
  BY MessagesAssumption DEF Ack, Reject, SettleLost, TypeOK
<1>4. UNCHANGED <<lifespanVars, streamVars, tableVars, linkVars>>
  BY DEF Ack, Reject, SettleLost
<1> QED BY <1>1, <1>2, <1>3, <1>4
        DEF HandlerTyped, ConsumerTyped, lifespanVars, streamVars, tableVars, linkVars,
            TypeOK, LifespanTypeOK, Consuming

LEMMA ForgetKeepsTypes ==
  ASSUME TypeOK, LifespanTypeOK', LinkTyped', NEW p \in Processes, Forget(p)
  PROVE  TypeOK'
<1>1. Len(stream) \in Nat /\ <<>> \in Seq(Messages)
  BY LenProperties, EmptySeq DEF TypeOK
<1>2. ConsumerTyped'
  BY <1>1 DEF Forget, streamVars, ConsumerTyped, TypeOK
<1>3. HandlerTyped'
  BY DEF Forget, Drop, streamVars, HandlerTyped, TypeOK
<1> QED BY <1>2, <1>3
        DEF Forget, streamVars, tableVars, ConsumerTyped, HandlerTyped, LinkTyped, TypeOK

-----------------------------------------------------------------------------
(* A process and its connection. *)

\* A step of a process that has a consumer before and after it, or never.
Within(p) ==
    /\ \/ \E kind \in RestCalls : OpenCall(p, kind) \/ EndCall(p, kind)
       \/ BeginStop(p) \/ CloseStream(p) \/ CloseRest(p)
    /\ UNCHANGED Rest

\* A step after which it has none.
Leaves(p) ==
    /\ BrokerStopped(p) \/ StopRaises(p) \/ Crash(p)
    /\ Forget(p) /\ Linked(p, "none")

LEMMA LifespanKeepsLinks ==
  ASSUME TypeOK, LifespanTypeOK', NEW p \in Processes, Begin(p) \/ Within(p) \/ Leaves(p)
  PROVE  LinkTyped'
<1>1. \A q \in Processes : q # p => (Consuming(q)' <=> Consuming(q))
  BY DEF Begin, Within, Leaves, Start, OpenCall, EndCall, BeginStop, CloseStream, CloseRest,
         BrokerStopped, StopRaises, Crash, Exit, Consuming, TypeOK, LifespanTypeOK
<1>2. ASSUME Begin(p) PROVE LinkTyped'
  <2>1. phase'[p] = "serving"
    BY <1>2 DEF Begin, Start, TypeOK, LifespanTypeOK
  <2> QED BY <1>1, <1>2, <2>1 DEF Begin, Linked, LinkTyped, LinkStates, Consuming, TypeOK
<1>3. ASSUME Within(p) PROVE LinkTyped'
  <2>1. Consuming(p)' <=> Consuming(p)
    BY <1>3 DEF Within, OpenCall, EndCall, BeginStop, CloseStream, CloseRest, Exit, Consuming,
                TypeOK, LifespanTypeOK
  <2> QED BY <1>1, <1>3, <2>1 DEF Within, Rest, linkVars, LinkTyped, TypeOK
<1>4. ASSUME Leaves(p) PROVE LinkTyped'
  <2>1. phase'[p] \in {"disconnected", "down"}
    BY <1>4 DEF Leaves, BrokerStopped, StopRaises, Crash, Exit, TypeOK, LifespanTypeOK
  <2> QED BY <1>1, <1>4, <2>1 DEF Leaves, Linked, LinkTyped, LinkStates, Consuming, TypeOK
<1> QED BY <1>2, <1>3, <1>4

LEMMA LifespanKeepsAll ==
  ASSUME TypeOK, StopsClean, NEW p \in Processes, Begin(p) \/ Within(p) \/ Leaves(p)
  PROVE  TypeOK' /\ StopsClean'
<1>1. LifespanTypeOK' /\ StopsClean'
  <2>1. LifespanStep(p)
    BY DEF Begin, Within, Leaves, LifespanStep
  <2> QED BY <2>1, LifespanKeepsTypes DEF TypeOK
<1>2. LinkTyped'
  BY <1>1, LifespanKeepsLinks
<1>3. CASE Begin(p) \/ Within(p)
  BY <1>1, <1>2, <1>3
     DEF Begin, Within, Rest, streamVars, consumerVars, handlerVars, tableVars, LinkTyped, TypeOK
<1>4. CASE Leaves(p)
  BY <1>1, <1>2, <1>4, ForgetKeepsTypes DEF Leaves
<1> QED BY <1>3, <1>4

LEMMA ConnectionKeepsTypes ==
  ASSUME TypeOK, StopsClean, NEW p \in Processes, Disconnect(p) \/ Mends(p)
  PROVE  TypeOK' /\ StopsClean'
<1>1. /\ UNCHANGED lifespanVars
      /\ link[p] # "none"
      /\ \E state \in LinkStates \ {"none"} : link' = [link EXCEPT ![p] = state]
      /\ breaks' \in 0 .. MaxBreaks
  BY BoundsAssumption
     DEF Disconnect, Mends, Reconnect, LoseConsumer, GiveUpReconnecting, Linked, LinkStates, TypeOK
<1>2. LinkTyped'
  BY <1>1 DEF LinkTyped, Consuming, lifespanVars, TypeOK
<1>3. LifespanTypeOK' /\ StopsClean'
  BY <1>1 DEF lifespanVars, LifespanTypeOK, StopsClean, TypeOK
<1>4. CASE GiveUpReconnecting(p)
  BY <1>2, <1>3, <1>4, ForgetKeepsTypes DEF GiveUpReconnecting
<1>5. CASE Disconnect(p) \/ Reconnect(p) \/ LoseConsumer(p)
  <2>1. UNCHANGED <<streamVars, queue, handlerVars, tableVars, acked>>
    BY <1>5 DEF Disconnect, Reconnect, LoseConsumer, consumerVars
  <2>2. ConsumerTyped'
    <3>1. 0 \in 0 .. Len(stream) /\ stream' = stream
      BY <2>1, LenProperties DEF streamVars, TypeOK
    <3> QED BY <2>1, <3>1, <1>5
            DEF Disconnect, Reconnect, LoseConsumer, consumerVars, ConsumerTyped, TypeOK
  <2> QED BY <1>2, <1>3, <2>1, <2>2
          DEF streamVars, handlerVars, tableVars, ConsumerTyped, LinkTyped, TypeOK
<1> QED BY <1>4, <1>5 DEF Mends

-----------------------------------------------------------------------------
(* What a step adds to what is held and on offer. *)

\* The steps that are neither a publication, nor a transaction or the
\* confirmation of one, nor the deletion of a book.
QuietStep(p) ==
    \/ Deliver(p) \/ DeliverLost(p) \/ \E m \in Messages : Redeliver(p, m)
    \/ Take(p) \/ Collect(p) \/ Fail(p) \/ Reject(p) \/ SettleLost(p)
    \/ Begin(p) \/ Within(p) \/ Leaves(p)
    \/ Disconnect(p) \/ Mends(p)

\* Those of them that take up, send and receive nothing.
Unheard(p) ==
    \/ Collect(p) \/ Fail(p) \/ Reject(p) \/ SettleLost(p) \/ DeliverLost(p)
    \/ Begin(p) \/ Within(p) \/ Leaves(p) \/ Disconnect(p) \/ Mends(p)

LEMMA RetainedOfStream ==
  ASSUME TypeOK
  PROVE  /\ Retained = {stream[i] : i \in horizon + 1 .. Len(stream)}
         /\ ToSet(stream) = {stream[i] : i \in 1 .. Len(stream)}
         /\ Retained \subseteq ToSet(stream)
         /\ ToSet(stream) \subseteq Messages
<1>1. stream \in Seq(Messages) /\ Len(stream) \in 0 .. Len(stream) /\ horizon \in 0 .. Len(stream)
  BY LenProperties DEF TypeOK
<1>2. Retained = {stream[i] : i \in horizon + 1 .. Len(stream)}
  BY <1>1, PartOfStream DEF Retained
<1>3. ToSet(stream) = {stream[i] : i \in 1 .. Len(stream)}
  BY <1>1, LenProperties DEF ToSet
<1>4. horizon + 1 .. Len(stream) \subseteq 1 .. Len(stream)
  BY <1>1
<1> QED BY <1>1, <1>2, <1>3, <1>4, ElementsAreMessages

LEMMA PublishOffers ==
  ASSUME TypeOK, TypeOK', NEW m \in Messages, Publish(m)
  PROVE  /\ ToSet(stream)' = ToSet(stream) \cup {m}
         /\ Retained' = Retained \cup {m}
         /\ \A q \in Processes : HeldBy(q)' = HeldBy(q)
<1>1. /\ Len(stream) \in Nat /\ stream' = Append(stream, m)
      /\ Len(stream') = Len(stream) + 1
      /\ stream'[Len(stream) + 1] = m
      /\ \A i \in 1 .. Len(stream) : stream'[i] = stream[i]
      /\ horizon' = horizon /\ horizon \in 0 .. Len(stream)
  BY LenProperties DEF Publish, TypeOK
<1>2. ToSet(stream)' = ToSet(stream) \cup {m}
  BY <1>1, AppendAdds DEF TypeOK
<1>3. Retained' = {stream'[i] : i \in horizon + 1 .. Len(stream) + 1}
  <2>1. Retained' = {stream'[i] : i \in horizon' + 1 .. Len(stream')}
    <3>1. stream' \in Seq(Messages) /\ Len(stream') \in 0 .. Len(stream') /\ horizon' \in 0 .. Len(stream')
      BY LenProperties DEF TypeOK
    <3> QED BY <3>1, PartOfStream DEF Retained
  <2> QED BY <2>1, <1>1
<1>4. Retained = {stream[i] : i \in horizon + 1 .. Len(stream)}
  BY RetainedOfStream
<1>5. \A x : x \in Retained' => x \in Retained \cup {m}
  BY <1>1, <1>3, <1>4
<1>6. \A x : x \in Retained \cup {m} => x \in Retained'
  BY <1>1, <1>3, <1>4
<1>7. \A q \in Processes : HeldBy(q)' = HeldBy(q)
  BY DEF Publish, HeldBy, consumerVars, handlerVars
<1> QED BY <1>2, <1>5, <1>6, <1>7

LEMMA ExpireOffersLess ==
  ASSUME TypeOK, TypeOK', Expire
  PROVE  Retained' \subseteq Retained
<1>1. /\ stream' = stream /\ horizon' = horizon + 1
      /\ horizon \in Int /\ Len(stream) \in Nat
  BY LenProperties DEF Expire, TypeOK
<1>2. Retained' = {stream'[i] : i \in horizon' + 1 .. Len(stream')}
  <2>1. stream' \in Seq(Messages) /\ Len(stream') \in 0 .. Len(stream') /\ horizon' \in 0 .. Len(stream')
    BY LenProperties DEF TypeOK
  <2> QED BY <2>1, PartOfStream DEF Retained
<1> QED BY <1>1, <1>2, RetainedOfStream

LEMMA QuietStepHolds ==
  ASSUME TypeOK, NEW p \in Processes, QuietStep(p) \/ Ack(p) \/ Save(p)
  PROVE  \A q \in Processes : HeldBy(q)' \subseteq HeldBy(q) \cup Retained
<1> DEFINE Goal == \A q \in Processes : HeldBy(q)' \subseteq HeldBy(q) \cup Retained
<1>1. ASSUME NEW m \in Retained, queue' = [queue EXCEPT ![p] = Append(@, m)],
             hand' = hand
      PROVE  Goal
  <2>1. m \in Messages
    BY RetainedOfStream
  <2>2. ToSet(Append(queue[p], m)) = ToSet(queue[p]) \cup {m}
    BY <2>1, AppendAdds DEF TypeOK
  <2>3. queue'[p] = Append(queue[p], m) /\ \A q \in Processes : q # p => queue'[q] = queue[q]
    BY <1>1 DEF TypeOK
  <2> QED BY <1>1, <2>2, <2>3 DEF HeldBy
<1>2. ASSUME Take(p) PROVE Goal
  <2>1. queue[p] \in Seq(Messages) /\ queue[p] # <<>> /\ hand[p] = NoMessage
    BY <1>2 DEF Take, TypeOK
  <2>2. ToSet(queue[p]) = {Head(queue[p])} \cup ToSet(Tail(queue[p]))
    BY <2>1, HeadAndTail
  <2>3. /\ queue'[p] = Tail(queue[p]) /\ hand'[p] = Head(queue[p])
        /\ \A q \in Processes : q # p => queue'[q] = queue[q] /\ hand'[q] = hand[q]
    BY <1>2 DEF Take, TypeOK
  <2> QED BY <2>2, <2>3 DEF HeldBy
<1>3. ASSUME hand' \in {hand, [hand EXCEPT ![p] = NoMessage]},
             queue' \in {queue, [queue EXCEPT ![p] = <<>>]}
      PROVE  Goal
  <2>1. \A q \in Processes : hand'[q] \in {hand[q], NoMessage} /\ queue'[q] \in {queue[q], <<>>}
    BY <1>3 DEF TypeOK
  <2>2. \A q \in Processes : ToSet(queue'[q]) \subseteq ToSet(queue[q])
    BY <2>1, NothingInEmpty
  <2> QED BY <2>1, <2>2 DEF HeldBy
<1>4. ASSUME Deliver(p) PROVE Goal
  <2>1. hand' = hand /\ queue' = [queue EXCEPT ![p] = Append(@, stream[Due(p)])]
    BY <1>4 DEF Deliver, Send, handlerVars
  <2> HIDE DEF Goal
  <2> QED BY <1>4, <1>1, <2>1, DeliverKeepsTypes
<1>5. ASSUME NEW m \in Messages, Redeliver(p, m) PROVE Goal
  <2>1. m \in Retained /\ queue' = [queue EXCEPT ![p] = Append(@, m)] /\ hand' = hand
    BY <1>5 DEF Redeliver, handlerVars
  <2> HIDE DEF Goal
  <2> QED BY <1>1, <2>1
<1>6. ASSUME Unheard(p) \/ Save(p) \/ Ack(p) PROVE Goal
  <2>1. /\ hand' \in {hand, [hand EXCEPT ![p] = NoMessage]}
        /\ queue' \in {queue, [queue EXCEPT ![p] = <<>>]}
    BY <1>6 DEF Unheard, Collect, Fail, Reject, SettleLost, DeliverLost, Send, Save, Ack, Drop,
                Begin, Within, Leaves, Disconnect, Mends, Reconnect, LoseConsumer,
                GiveUpReconnecting, Forget, Handled, Rest, consumerVars, handlerVars
  <2> HIDE DEF Goal
  <2> QED BY <1>3, <2>1
<1> QED BY <1>2, <1>4, <1>5, <1>6 DEF QuietStep, Unheard

-----------------------------------------------------------------------------
(* The invariant. *)

LEMMA NextCases ==
  ASSUME Next
  PROVE  \/ \E m \in Messages : Publish(m)
         \/ Expire
         \/ \E p \in Processes :
             QuietStep(p) \/ Ack(p) \/ Save(p) \/ \E b \in Books : Delete(p, b)
BY DEF Next, Live, StopBroker, Handle, QuietStep, Within, Leaves

LEMMA TypeStep ==
  ASSUME TypeOK, StopsClean, [Next]_vars
  PROVE  TypeOK' /\ StopsClean'
<1>1. ASSUME NEW m \in Messages, Publish(m) PROVE TypeOK' /\ StopsClean'
  BY <1>1, PublishKeepsTypes DEF Publish, lifespanVars, StopsClean
<1>2. CASE Expire
  <2>1. horizon' \in 0 .. Len(stream)
    BY <1>2, LenProperties DEF Expire, TypeOK
  <2> QED BY <1>2, <2>1
          DEF Expire, lifespanVars, consumerVars, handlerVars, tableVars, linkVars,
              StopsClean, TypeOK, LifespanTypeOK, Consuming
<1>3. ASSUME NEW p \in Processes, NEW b \in Books, Delete(p, b) PROVE TypeOK' /\ StopsClean'
  BY <1>3 DEF Delete, lifespanVars, streamVars, consumerVars, handlerVars, linkVars,
              StopsClean, TypeOK, LifespanTypeOK, Consuming
<1>4. ASSUME NEW p \in Processes, QuietStep(p) \/ Ack(p) \/ Save(p)
      PROVE  TypeOK' /\ StopsClean'
  <2>1. CASE Take(p)
    BY <2>1, TakeKeepsTypes
  <2>2. CASE Begin(p) \/ Within(p) \/ Leaves(p)
    BY <2>2, LifespanKeepsAll
  <2>3. CASE Disconnect(p) \/ Mends(p)
    BY <2>3, ConnectionKeepsTypes
  <2>4. CASE \/ Deliver(p) \/ DeliverLost(p) \/ \E m \in Messages : Redeliver(p, m)
             \/ Collect(p) \/ Fail(p) \/ Save(p) \/ Ack(p) \/ Reject(p) \/ SettleLost(p)
    <3>1. UNCHANGED <<phase, opened, exit>>
      BY <2>4 DEF Deliver, DeliverLost, Send, Redeliver, Collect, Fail, Save, Ack, Reject,
                  SettleLost, Handled, lifespanVars
    <3>2. StopsClean'
      BY <3>1 DEF StopsClean
    <3> QED BY <2>4, <3>2, DeliverKeepsTypes, RedeliverKeepsTypes, CollectKeepsTypes,
               FailKeepsTypes, SaveKeepsTypes, SettlingKeepsTypes
  <2> QED BY <1>4, <2>1, <2>2, <2>3, <2>4 DEF QuietStep
<1>5. CASE UNCHANGED vars
  BY <1>5 DEF vars, lifespanVars, streamVars, consumerVars, handlerVars, tableVars, linkVars,
              TypeOK, LifespanTypeOK, Consuming, StopsClean
<1> QED BY <1>1, <1>2, <1>3, <1>4, <1>5, NextCases

\* Nobody unsaves a message; a handler that is to save or to acknowledge was
\* there before, or has just found or saved its books.
LEMMA SavedStep ==
  ASSUME IndInv, [Next]_vars
  PROVE  SavedBeforeAck' /\ FoundIsResult' /\ AckedAreSaved'
<1> DEFINE Goal == SavedBeforeAck' /\ FoundIsResult' /\ AckedAreSaved'
<1>1. ASSUME UNCHANGED <<hand, step, found, saved, acked>> PROVE Goal
  BY <1>1 DEF IndInv, SavedBeforeAck, FoundIsResult, AckedAreSaved
<1>2. ASSUME NEW p \in Processes, saved \subseteq saved',
             acked' \in {acked, acked \cup {hand[p]}},
             acked' = acked \/ hand[p] \in saved,
             \A q \in Processes \ {p} :
                 step'[q] = step[q] /\ hand'[q] = hand[q] /\ found'[q] = found[q],
             step'[p] = "saved" => hand'[p] \in saved',
             step'[p] = "save" => found'[p] \in Results[hand'[p]]
      PROVE  Goal
  BY <1>2 DEF IndInv, SavedBeforeAck, FoundIsResult, AckedAreSaved
<1> HIDE DEF Goal
<1>3. ASSUME NEW m \in Messages, Publish(m) PROVE Goal
  BY <1>1, <1>3 DEF Publish, handlerVars, tableVars
<1>4. ASSUME Expire PROVE Goal
  BY <1>1, <1>4 DEF Expire, handlerVars, tableVars
<1>5. ASSUME NEW p \in Processes, NEW b \in Books, Delete(p, b) PROVE Goal
  BY <1>1, <1>5 DEF Delete, handlerVars
<1>6. ASSUME NEW p \in Processes, QuietStep(p) \/ Ack(p) \/ Save(p) PROVE Goal
  <2>1. CASE \/ Deliver(p) \/ DeliverLost(p) \/ \E m \in Messages : Redeliver(p, m)
             \/ Begin(p) \/ Within(p) \/ Disconnect(p) \/ Reconnect(p) \/ LoseConsumer(p)
    BY <2>1, <1>1 DEF Deliver, DeliverLost, Send, Redeliver, Begin, Within, Disconnect,
                      Reconnect, LoseConsumer, Rest, handlerVars, tableVars
  <2>2. CASE Take(p)
    <3>1. /\ UNCHANGED <<found, saved, acked>>
          /\ step'[p] \in {"search", "failed"}
          /\ \A q \in Processes \ {p} : step'[q] = step[q] /\ hand'[q] = hand[q]
      BY <2>2 DEF Take, tableVars, IndInv, TypeOK
    <3> QED BY <3>1, <1>2
  <2>3. CASE Collect(p)
    <3>1. found'[p] \in Results[hand[p]]
      BY <2>3, CollectKeepsTypes DEF IndInv
    <3>2. /\ UNCHANGED <<hand, saved, acked>> /\ step'[p] = "save"
          /\ \A q \in Processes \ {p} : step'[q] = step[q] /\ found'[q] = found[q]
      BY <2>3 DEF Collect, Handled, tableVars, IndInv, TypeOK
    <3> QED BY <3>1, <3>2, <1>2
  <2>4. CASE Fail(p)
    <3>1. /\ UNCHANGED <<hand, saved, acked>> /\ step'[p] = "failed"
          /\ \A q \in Processes \ {p} : step'[q] = step[q] /\ found'[q] = found[q]
      BY <2>4 DEF Fail, Handled, tableVars, IndInv, TypeOK
    <3> QED BY <3>1, <1>2
  <2>5. CASE Save(p)
    <3>1. /\ UNCHANGED <<hand, acked>> /\ step'[p] \in {"saved", "failed"}
          /\ saved' = saved \cup {hand[p]}
          /\ \A q \in Processes \ {p} : step'[q] = step[q] /\ found'[q] = found[q]
      BY <2>5 DEF Save, Handled, IndInv, TypeOK
    <3> QED BY <3>1, <1>2
  <2>6. CASE Ack(p) \/ Reject(p) \/ SettleLost(p) \/ Forget(p)
    <3>1. /\ saved' = saved /\ step'[p] = "idle"
          /\ \A q \in Processes \ {p} :
                step'[q] = step[q] /\ hand'[q] = hand[q] /\ found'[q] = found[q]
      BY <2>6 DEF Ack, Reject, SettleLost, Forget, Drop, tableVars, IndInv, TypeOK
    <3>2. \/ acked' = acked
          \/ acked' = acked \cup {hand[p]} /\ hand[p] \in saved
      BY <2>6 DEF Ack, Reject, SettleLost, Forget, IndInv, SavedBeforeAck
    <3> QED BY <3>1, <3>2, <1>2
  <2> QED BY <1>6, <2>1, <2>2, <2>3, <2>4, <2>5, <2>6
          DEF QuietStep, Leaves, Mends, GiveUpReconnecting
<1>7. ASSUME UNCHANGED vars PROVE Goal
  BY <1>1, <1>7 DEF vars, handlerVars, tableVars
<1> QED BY <1>3, <1>4, <1>5, <1>6, <1>7, NextCases DEF Goal

LEMMA HeldStep ==
  ASSUME IndInv, TypeOK', [Next]_vars
  PROVE  HeldWasPublished'
<1>1. Retained \subseteq ToSet(stream) /\ HeldWasPublished
  BY RetainedOfStream DEF IndInv
<1>2. ASSUME NEW m \in Messages, Publish(m) PROVE HeldWasPublished'
  <2>1. /\ ToSet(stream)' = ToSet(stream) \cup {m}
        /\ \A q \in Processes : HeldBy(q)' = HeldBy(q)
    BY <1>2, PublishOffers DEF IndInv
  <2>2. HeldWasPublished' <=> \A q \in Processes : HeldBy(q)' \subseteq ToSet(stream)'
    BY DEF HeldWasPublished
  <2> QED BY <1>1, <2>1, <2>2 DEF HeldWasPublished
<1>3. ASSUME stream' = stream, queue' = queue, hand' = hand PROVE HeldWasPublished'
  BY <1>1, <1>3 DEF HeldWasPublished, HeldBy
<1>4. CASE Expire
  BY <1>3, <1>4 DEF Expire, consumerVars, handlerVars
<1>5. ASSUME NEW p \in Processes, NEW b \in Books, Delete(p, b) PROVE HeldWasPublished'
  BY <1>3, <1>5 DEF Delete, consumerVars, streamVars, handlerVars
<1>6. ASSUME NEW p \in Processes, QuietStep(p) \/ Ack(p) \/ Save(p) PROVE HeldWasPublished'
  <2>1. \A q \in Processes : HeldBy(q)' \subseteq HeldBy(q) \cup Retained
    BY <1>6, QuietStepHolds DEF IndInv
  <2>2. stream' = stream
    BY <1>6 DEF QuietStep, Deliver, DeliverLost, Send, Redeliver, Take, Collect, Fail, Reject,
                SettleLost, Ack, Save, Begin, Within, Leaves, Disconnect, Mends, Reconnect,
                LoseConsumer, GiveUpReconnecting, Rest, Forget, Handled, streamVars
  <2>3. HeldWasPublished' <=> \A q \in Processes : HeldBy(q)' \subseteq ToSet(stream')
    BY DEF HeldWasPublished
  <2> QED BY <1>1, <2>1, <2>2, <2>3 DEF HeldWasPublished
<1>7. CASE UNCHANGED vars
  BY <1>3, <1>7 DEF vars, streamVars, consumerVars, handlerVars
<1> QED BY <1>2, <1>4, <1>5, <1>6, <1>7, NextCases

LEMMA Invariance == Spec => []IndInv
<1>1. IndInv /\ [Next]_vars => IndInv'
  BY TypeStep, SavedStep, HeldStep DEF IndInv
<1> QED BY InitInv, <1>1, PTL DEF Spec

-----------------------------------------------------------------------------

\* Every reachable state is well typed, for any number of processes,
\* messages and copies.
THEOREM TypeCorrect == Spec => []TypeOK
<1>1. IndInv => TypeOK
  BY DEF IndInv
<1> QED BY <1>1, Invariance, PTL

\* No process, however many there are and whenever they crash, acknowledges a
\* message whose books have not been committed.
THEOREM AcknowledgesSaved == Spec => []AckedAreSaved
<1>1. IndInv => AckedAreSaved
  BY DEF IndInv
<1> QED BY <1>1, Invariance, PTL

\* A clean exit has closed all that calls and messages ever opened.
THEOREM CleanExitCloses == Spec => []StopsClean
<1>1. IndInv => StopsClean
  BY DEF IndInv
<1> QED BY <1>1, Invariance, PTL

-----------------------------------------------------------------------------
(* The feed. *)

Fates == [m \in Messages |-> Fate(m)]

LEMMA OfferedWasPublished ==
  ASSUME IndInv
  PROVE  Offered \subseteq ToSet(stream)
BY RetainedOfStream DEF IndInv, HeldWasPublished, Offered

LEMMA InitRefines == Init => Feed!Init
<1> SUFFICES ASSUME Init PROVE Feed!Init
  OBVIOUS
<1>1. stream = <<>> /\ Len(stream) = 0 /\ horizon = 0
  BY EmptySeq DEF Init
<1>2. Retained = {} /\ ToSet(stream) = {}
  <2>1. SubSeq(stream, horizon + 1, Len(stream)) = <<>>
    BY <1>1, SubSeqEmpty
  <2> QED BY <1>1, <2>1, NothingInEmpty DEF Retained
<1>3. \A p \in Processes : HeldBy(p) = {}
  BY NothingInEmpty DEF HeldBy, Init
<1>4. Offered = {}
  BY <1>2, <1>3 DEF Offered
<1>5. \A m \in Messages : Fate(m) = "new"
  BY <1>2, <1>4 DEF Fate
<1> QED BY <1>5 DEF Init, Feed!Init

\* A step that only takes messages off offer gives them up.
LEMMA QuietRefines ==
  ASSUME IndInv, Offered' \subseteq Offered, stream' = stream,
         UNCHANGED <<table, saved, acked>>
  PROVE  Feed!Next
<1> DEFINE given == Offered \ Offered'
<1>1. given \in SUBSET Messages /\ Offered \subseteq ToSet(stream)
  BY OfferedWasPublished, RetainedOfStream DEF IndInv
<1>2. \A m \in Messages : Fate(m)' = IF m \in given THEN "gone" ELSE Fate(m)
  <2>1. \A m \in Messages :
            Fate(m)' = CASE m \in Offered' -> "offered"
                         [] m \in ToSet(stream') \ Offered' -> "gone"
                         [] OTHER -> "new"
    BY DEF Fate
  <2> QED BY <1>1, <2>1 DEF Fate
<1>3. Fates' = [m \in Messages |-> IF m \in given THEN "gone" ELSE Fates[m]]
  BY <1>2 DEF Fates
<1>4. \A m \in given : Fates[m] = "offered"
  BY <1>1 DEF Fates, Fate
<1>5. Feed!GiveUp(given)
  BY <1>3, <1>4 DEF Feed!GiveUp, Fates
<1> QED BY <1>1, <1>5 DEF Feed!Next

LEMMA PublishRefines ==
  ASSUME IndInv, TypeOK', NEW m \in Messages, Publish(m)
  PROVE  Feed!Next
<1>1. /\ ToSet(stream)' = ToSet(stream) \cup {m}
      /\ Retained' = Retained \cup {m}
      /\ \A q \in Processes : HeldBy(q)' = HeldBy(q)
  BY PublishOffers DEF IndInv
<1>2. m \notin ToSet(stream) /\ UNCHANGED <<table, saved, acked>>
  BY DEF Publish, tableVars
<1>3. Offered \subseteq ToSet(stream)
  BY OfferedWasPublished
<1>4. Offered' = Offered \cup {m}
  BY <1>1 DEF Offered
<1>5. Fate(m) = "new"
  BY <1>2, <1>3 DEF Fate
<1>6. \A n \in Messages : Fate(n)' = IF n = m THEN "offered" ELSE Fate(n)
  <2>1. \A n \in Messages :
            Fate(n)' = CASE n \in Offered' -> "offered"
                         [] n \in ToSet(stream)' \ Offered' -> "gone"
                         [] OTHER -> "new"
    BY DEF Fate
  <2> QED BY <1>1, <1>4, <2>1 DEF Fate
<1>7. Feed!Offer(m)
  BY <1>2, <1>5, <1>6 DEF Feed!Offer
<1> QED BY <1>7 DEF Feed!Next

LEMMA SameFates ==
  ASSUME UNCHANGED <<streamVars, hand, queue>>
  PROVE  Fates' = Fates
<1>1. Retained' = Retained /\ ToSet(stream)' = ToSet(stream)
  BY DEF Retained, streamVars
<1>2. \A q \in Processes : HeldBy(q)' = HeldBy(q)
  BY DEF HeldBy
<1>3. Offered' = Offered
  BY <1>1, <1>2 DEF Offered
<1> QED BY <1>1, <1>3 DEF Fates, Fate

LEMMA SaveRefines ==
  ASSUME IndInv, NEW p \in Processes, Save(p)
  PROVE  Feed!Next
<1>1. /\ step[p] = "save" /\ hand[p] \in Messages
      /\ table' = table \cup found[p] /\ saved' = saved \cup {hand[p]}
      /\ UNCHANGED <<streamVars, hand, queue, acked>>
  BY MessagesAssumption DEF Save, Handled, consumerVars, IndInv, TypeOK
<1>2. hand[p] \in Offered
  BY <1>1, MessagesAssumption DEF HeldBy, Offered
<1>3. Fates[hand[p]] = "offered" /\ Fates' = Fates
  BY <1>1, <1>2, SameFates DEF Fates, Fate
<1>4. found[p] \in Results[hand[p]]
  BY <1>1 DEF IndInv, FoundIsResult
<1>5. Feed!Apply(hand[p], found[p])
  BY <1>1, <1>3 DEF Feed!Apply, Fates
<1> QED BY <1>1, <1>4, <1>5 DEF Feed!Next

LEMMA AckRefines ==
  ASSUME IndInv, NEW p \in Processes, Ack(p)
  PROVE  Feed!Next
<1> DEFINE m == hand[p]
<1>1. /\ step[p] = "saved" /\ m \in Messages
      /\ acked' = acked \cup {m}
      /\ hand' = [hand EXCEPT ![p] = NoMessage]
      /\ UNCHANGED <<streamVars, queue, table, saved>>
  BY MessagesAssumption DEF Ack, Drop, tableVars, IndInv, TypeOK
<1>2. m \in saved
  BY <1>1 DEF IndInv, SavedBeforeAck
<1>3. m \in Offered
  BY <1>1, MessagesAssumption DEF HeldBy, Offered
<1>4. /\ Retained' = Retained /\ ToSet(stream)' = ToSet(stream)
      /\ \A q \in Processes : HeldBy(q)' \subseteq HeldBy(q)
      /\ \A q \in Processes : HeldBy(q) \ {m} \subseteq HeldBy(q)'
  BY <1>1 DEF Retained, streamVars, HeldBy, IndInv, TypeOK
<1>5. Offered' \subseteq Offered /\ Offered \ {m} \subseteq Offered'
  BY <1>4 DEF Offered
<1>6. m \in ToSet(stream)
  BY <1>3, OfferedWasPublished
<1>7. \A n \in Messages :
          Fate(n)' = IF n = m THEN IF m \in Offered' THEN "offered" ELSE "gone" ELSE Fate(n)
  <2>1. \A n \in Messages :
            Fate(n)' = CASE n \in Offered' -> "offered"
                         [] n \in ToSet(stream)' \ Offered' -> "gone"
                         [] OTHER -> "new"
    BY DEF Fate
  <2> QED BY <1>4, <1>5, <1>6, <2>1 DEF Fate
<1>8. Fate(m) = "offered"
  BY <1>3 DEF Fate
<1>9. Fates' \in {Fates, [Fates EXCEPT ![m] = "gone"]}
  BY <1>7, <1>8 DEF Fates
<1>10. Feed!Confirm(m)
  BY <1>1, <1>2, <1>9 DEF Feed!Confirm, Fates
<1> QED BY <1>1, <1>10 DEF Feed!Next

LEMMA DeleteRefines ==
  ASSUME NEW p \in Processes, NEW b \in Books, Delete(p, b)
  PROVE  Feed!Next
<1>1. table' = table \ {b} /\ UNCHANGED <<streamVars, hand, queue, saved, acked>>
  BY DEF Delete, consumerVars, handlerVars
<1>2. Feed!Delete(b)
  BY <1>1, SameFates DEF Feed!Delete, Fates
<1> QED BY <1>2 DEF Feed!Next

LEMMA StepRefines ==
  ASSUME IndInv, IndInv', [Next]_vars
  PROVE  [Feed!Next]_(Feed!vars)
<1>1. ASSUME NEW m \in Messages, Publish(m) PROVE Feed!Next
  BY <1>1, PublishRefines DEF IndInv
<1>2. ASSUME Expire PROVE Feed!Next
  <2>1. /\ Retained' \subseteq Retained
        /\ UNCHANGED <<stream, hand, queue, table, saved, acked>>
    BY <1>2, ExpireOffersLess DEF Expire, consumerVars, handlerVars, tableVars, IndInv
  <2>2. Offered' \subseteq Offered
    BY <2>1 DEF Offered, HeldBy
  <2> QED BY <2>1, <2>2, QuietRefines
<1>3. ASSUME NEW p \in Processes, QuietStep(p) PROVE Feed!Next
  <2>1. UNCHANGED <<streamVars, table, saved, acked>>
    BY <1>3 DEF QuietStep, Deliver, DeliverLost, Send, Redeliver, Take, Collect, Fail, Reject,
                SettleLost, Begin, Within, Leaves, Disconnect, Mends, Reconnect, LoseConsumer,
                GiveUpReconnecting, Rest, Forget, Handled, tableVars
  <2>2. \A q \in Processes : HeldBy(q)' \subseteq HeldBy(q) \cup Retained
    BY <1>3, QuietStepHolds DEF IndInv
  <2>3. Retained' = Retained /\ stream' = stream
    BY <2>1 DEF Retained, streamVars
  <2>4. Offered' \subseteq Offered
    BY <2>2, <2>3 DEF Offered
  <2> QED BY <2>1, <2>3, <2>4, QuietRefines
<1>4. ASSUME UNCHANGED vars PROVE UNCHANGED Feed!vars
  <2>1. Fates' = Fates /\ UNCHANGED <<table, saved, acked>>
    BY <1>4, SameFates DEF vars, streamVars, consumerVars, handlerVars, tableVars
  <2> QED BY <2>1 DEF Feed!vars, Fates
<1> QED BY <1>1, <1>2, <1>3, <1>4, SaveRefines, AckRefines, DeleteRefines, NextCases

\* The consumer keeps the contract of the feed, with any number of processes
\* that start, stop and crash: a message is applied whole, only while it is on
\* offer, and confirmed only once it was applied.
THEOREM DeliveryImplementsFeed == Spec => ImplementsFeed
<1>1. IndInv /\ IndInv' /\ [Next]_vars => [Feed!Next]_(Feed!vars)
  BY StepRefines
<1> QED BY <1>1, InitRefines, Invariance, PTL DEF Spec, ImplementsFeed, Feed!Spec
=============================================================================
