--------------------------- MODULE ReducerProofs ---------------------------
(***************************************************************************)
(* For any number of callers and keys: a key never has two runs, and the   *)
(* reducer implements SingleFlight.  The invariant that carries both says  *)
(* that _running holds exactly the runs that have not ended, and that a    *)
(* caller waits on a run of its own key.                                   *)
(***************************************************************************)
EXTENDS Reducer, TLAPS

Living(c) == task[c] \in {"created", "awaiting"}

RunningLives ==
    /\ \A k \in Idents : running[k] # None => /\ Living(running[k])
                                              /\ IdentOf[running[k]] = k
    /\ \A c \in Calls : Living(c) => running[IdentOf[c]] = c

FutureOfTask == \A c \in Calls : future[c] # None <=> task[c] = "done"

JoinedOwnKey ==
    \A c \in Calls : joined[c] # None => /\ IdentOf[joined[c]] = IdentOf[c]
                                         /\ task[joined[c]] # "none"

\* A call that has not come has neither a run nor an answer.
NotCome == \A c \in Calls : joined[c] = None => task[c] = "none" /\ got[c] = None

IndInv == TypeOK /\ RunningLives /\ FutureOfTask /\ JoinedOwnKey /\ NotCome

LEMMA InitInv == ASSUME Init PROVE IndInv
BY IdentAssumption
   DEF Init, IndInv, TypeOK, RunningLives, Living, FutureOfTask, JoinedOwnKey, NotCome

LEMMA StepInv == ASSUME IndInv, [Next]_vars PROVE IndInv'
<1> USE IdentAssumption, OutcomesAssumption, NoneAssumption
        DEF IndInv, TypeOK, RunningLives, Living, FutureOfTask, JoinedOwnKey, NotCome
<1>1. ASSUME NEW c \in Calls, Call(c) PROVE IndInv'
  <2>1. RunOf(c) \in Calls /\ IdentOf[RunOf(c)] = IdentOf[c] /\ joined[c] = None
    BY <1>1 DEF Call, RunOf
  <2>2. CASE RunOf(c) = c
    <3>1. running[IdentOf[c]] = None
      BY <2>1, <2>2 DEF RunOf
    <3>2. TypeOK' /\ FutureOfTask' /\ NotCome'
      BY <1>1, <2>1, <2>2 DEF Call
    <3>3. RunningLives'
      BY <1>1, <2>1, <2>2, <3>1 DEF Call
    <3>4. JoinedOwnKey'
      BY <1>1, <2>1, <2>2 DEF Call
    <3> QED BY <3>2, <3>3, <3>4
  <2>3. CASE RunOf(c) # c
    <3>1. RunOf(c) = running[IdentOf[c]] /\ Living(RunOf(c))
      BY <2>1, <2>3 DEF RunOf
    <3>2. UNCHANGED <<running, future, task, got>>
      BY <1>1, <2>3, <3>1 DEF Call
    <3> QED BY <1>1, <2>1, <3>1, <3>2 DEF Call
  <2> QED BY <2>2, <2>3
<1>2. ASSUME NEW c \in Calls, Start(c) PROVE IndInv'
  BY <1>2 DEF Start
<1>3. ASSUME NEW c \in Calls, Finish(c) PROVE IndInv'
  <2>1. running[IdentOf[c]] = c
    BY <1>3 DEF Finish
  <2> QED BY <1>3, <2>1 DEF Finish
<1>4. ASSUME NEW c \in Calls, Deliver(c) \/ Cancel(c) PROVE IndInv'
  BY <1>4 DEF Deliver, Cancel, Waiting
<1>5. ASSUME UNCHANGED vars PROVE IndInv'
  BY <1>5 DEF vars
<1> QED BY <1>1, <1>2, <1>3, <1>4, <1>5 DEF Next, Runs, Terminated

LEMMA Invariance == Spec => []IndInv
BY InitInv, StepInv, PTL DEF Spec

\* However many callers ask at once, one key has at most one run under way.
THEOREM NeverTwoRuns == Spec => []OneRunPerKey
<1>1. IndInv => OneRunPerKey
  BY DEF IndInv, RunningLives, Living, OneRunPerKey
<1> QED BY <1>1, Invariance, PTL

\* Every variable stays in its type: a run ends with an outcome of the function,
\* and only the caller that was cancelled gets the cancellation.
THEOREM TypeCorrect == Spec => []TypeOK
BY Invariance, PTL DEF IndInv

\* _running names exactly the runs that have not ended.
THEOREM RegistryIsExact == Spec => []RunningIsExact
<1>1. ASSUME IndInv PROVE RunningIsExact
  <2> SUFFICES ASSUME NEW k \in Idents
               PROVE  {c \in Calls : IdentOf[c] = k /\ Living(c)} = {running[k]} \ {None}
    BY DEF RunningIsExact, Living
  <2>1. running[k] \in Calls \cup {None}
    BY <1>1 DEF IndInv, TypeOK
  <2>2. \A c \in Calls : IdentOf[c] = k /\ Living(c) => c = running[k]
    BY <1>1 DEF IndInv, RunningLives
  <2>3. running[k] # None => IdentOf[running[k]] = k /\ Living(running[k])
    BY <1>1 DEF IndInv, RunningLives
  <2> QED BY <2>1, <2>2, <2>3, NoneAssumption
<1> QED BY <1>1, Invariance, PTL

-----------------------------------------------------------------------------
(* The refinement. *)

Group(k) == Groups[k]

Promise(c) == Promises[c]

\* What is in a group and in a promise, now and after a step.
LEMMA Mapped ==
    /\ \A k \in Idents : Group(k) = {c \in Calls : Waiting(c) /\ joined[c] = running[k]}
    /\ \A c \in Calls : Promise(c) = IF Waiting(c) THEN future[joined[c]] ELSE None
    /\ \A k \in Idents : Group(k)' = {c \in Calls : Waiting(c)' /\ joined'[c] = running'[k]}
    /\ \A c \in Calls : Promise(c)' = IF Waiting(c)' THEN future'[joined'[c]] ELSE None
    /\ Groups = [k \in Idents |-> Group(k)] /\ Groups' = [k \in Idents |-> Group(k)']
    /\ Promises = [c \in Calls |-> Promise(c)] /\ Promises' = [c \in Calls |-> Promise(c)']
BY DEF Group, Promise, Groups, Promises

LEMMA InitRefines == ASSUME Init PROVE Promised!Init
BY DEF Init, Promised!Init, Waiting, Airborne, Groups, Promises

LEMMA StepRefines ==
    ASSUME IndInv, IndInv', [Next]_vars
    PROVE  [Promised!Next]_(Promised!vars)
<1> USE IdentAssumption, OutcomesAssumption, NoneAssumption, Mapped
<1>1. ASSUME NEW c \in Calls, Call(c) PROVE Promised!Join(c)
  <2>1. /\ joined[c] = None /\ got[c] = None /\ RunOf(c) \in Calls
        /\ running' = [running EXCEPT ![IdentOf[c]] = RunOf(c)]
        /\ joined' = [joined EXCEPT ![c] = RunOf(c)]
        /\ UNCHANGED <<future, got>>
    BY <1>1 DEF Call, RunOf, IndInv, TypeOK
  <2>2. \A d \in Calls \ {c} : Waiting(d)' = Waiting(d) /\ joined'[d] = joined[d]
    BY <2>1 DEF Waiting, IndInv, TypeOK
  <2>3. Waiting(c)' /\ joined'[c] = running'[IdentOf[c]] /\ ~Waiting(c)
    BY <2>1 DEF Waiting, IndInv, TypeOK
  <2>4. \A k \in Idents \ {IdentOf[c]} : Group(k)' = Group(k)
    <3> TAKE k \in Idents \ {IdentOf[c]}
    <3>1. running'[k] = running[k] /\ running[k] # RunOf(c)
      BY <2>1 DEF RunOf, IndInv, TypeOK, RunningLives
    <3>2. \A d \in Calls : Waiting(d)' /\ joined'[d] = running'[k]
                            <=> Waiting(d) /\ joined[d] = running[k]
      BY <2>1, <2>2, <2>3, <3>1 DEF IndInv, TypeOK
    <3>3. \A d : d \in Group(k)' <=> d \in Group(k)
      BY <3>2
    <3> QED BY <3>3
  <2>5. Group(IdentOf[c])' = Group(IdentOf[c]) \cup {c}
    <3>1. CASE running[IdentOf[c]] # None
      BY <2>1, <2>2, <2>3, <3>1 DEF RunOf, IndInv, TypeOK
    <3>2. CASE running[IdentOf[c]] = None
      <4>1. \A d \in Calls : joined[d] # c
        BY <2>1 DEF IndInv, JoinedOwnKey, NotCome
      <4> QED BY <2>1, <2>2, <2>3, <3>2, <4>1 DEF RunOf, Waiting, IndInv, TypeOK
    <3> QED BY <3>1, <3>2
  <2>6. future[RunOf(c)] = None
    <3>1. CASE running[IdentOf[c]] # None
      BY <3>1 DEF RunOf, IndInv, TypeOK, RunningLives, FutureOfTask, Living
    <3>2. CASE running[IdentOf[c]] = None
      BY <2>1, <3>2 DEF RunOf, IndInv, NotCome, FutureOfTask
    <3> QED BY <3>1, <3>2
  <2>7. \A d \in Calls : Promise(d)' = Promise(d)
    BY <2>1, <2>2, <2>3, <2>6 DEF IndInv, TypeOK
  <2>8. Promised!New(c)
    BY <2>1, <2>3 DEF Promised!New
  <2>9. Airborne' = Airborne \cup {IdentOf[c]}
    BY <2>1 DEF Airborne, IndInv, TypeOK
  <2> QED BY <2>1, <2>4, <2>5, <2>7, <2>8, <2>9 DEF Promised!Join
<1>2. ASSUME NEW c \in Calls, Start(c) PROVE UNCHANGED Promised!vars
  BY <1>2 DEF Start, Promised!vars, Waiting, Airborne, Groups, Promises
<1>3. ASSUME NEW c \in Calls, Finish(c) PROVE Promised!Land(IdentOf[c])
  <2>1. PICK o \in Outcomes : future' = [future EXCEPT ![c] = o]
    BY <1>3 DEF Finish
  <2>2. /\ running' = [running EXCEPT ![IdentOf[c]] = None] /\ UNCHANGED <<joined, got>>
        /\ running[IdentOf[c]] = c /\ future[c] = None
    BY <1>3 DEF Finish, IndInv, RunningLives, Living, FutureOfTask
  <2>3. \A d \in Calls : Waiting(d)' = Waiting(d)
    BY <2>2 DEF Waiting
  <2>4. Group(IdentOf[c])' = {}
    BY <2>2 DEF Waiting, IndInv, TypeOK
  <2>5. \A k \in Idents \ {IdentOf[c]} : Group(k)' = Group(k)
    <3> TAKE k \in Idents \ {IdentOf[c]}
    <3>1. running'[k] = running[k]
      BY <2>2 DEF IndInv, TypeOK
    <3>2. \A d \in Calls : Waiting(d)' /\ joined'[d] = running'[k]
                            <=> Waiting(d) /\ joined[d] = running[k]
      BY <2>2, <2>3, <3>1
    <3>3. \A d : d \in Group(k)' <=> d \in Group(k)
      BY <3>2
    <3> QED BY <3>3
  <2>6. \A d \in Calls : Promise(d)' = IF d \in Group(IdentOf[c]) THEN o ELSE Promise(d)
    BY <2>1, <2>2, <2>3 DEF Group, Waiting, IndInv, TypeOK
  <2>7. Airborne' = Airborne \ {IdentOf[c]}
    BY <2>2 DEF Airborne, IndInv, TypeOK
  <2>8. Groups' = [Groups EXCEPT ![IdentOf[c]] = {}]
    BY <2>4, <2>5
  <2>9. Promises' = [d \in Calls |-> IF d \in Groups[IdentOf[c]] THEN o ELSE Promises[d]]
    BY <2>6
  <2>10. IdentOf[c] \in Airborne
    BY <2>2 DEF Airborne
  <2> QED BY <2>2, <2>7, <2>8, <2>9, <2>10 DEF Promised!Land
<1>4. ASSUME NEW c \in Calls, Deliver(c) PROVE Promised!Return(c)
  <2>1. /\ Waiting(c) /\ got' = [got EXCEPT ![c] = future[joined[c]]] /\ future[joined[c]] # None
        /\ UNCHANGED <<running, future, joined>>
    BY <1>4 DEF Deliver
  <2>2. ~Waiting(c)' /\ \A d \in Calls \ {c} : Waiting(d)' = Waiting(d)
    BY <2>1 DEF Waiting, IndInv, TypeOK
  <2>3. \A d \in Calls : Promise(d)' = IF d = c THEN None ELSE Promise(d)
    BY <2>1, <2>2 
  <2>4. \A k \in Idents : Group(k)' = Group(k)
    <3> TAKE k \in Idents
    <3>1. joined[c] # running[k]
      BY <2>1 DEF Waiting, IndInv, TypeOK, RunningLives, Living, FutureOfTask
    <3>2. \A d \in Calls : Waiting(d)' /\ joined'[d] = running'[k]
                            <=> Waiting(d) /\ joined[d] = running[k]
      BY <2>1, <2>2, <3>1
    <3>3. \A d : d \in Group(k)' <=> d \in Group(k)
      BY <3>2
    <3> QED BY <3>3
  <2>5. UNCHANGED <<Groups, Airborne>>
    BY <2>1, <2>4 DEF Airborne
  <2> QED BY <2>1, <2>3, <2>5, <1>4 DEF Promised!Return
<1>5. ASSUME NEW c \in Calls, Cancel(c) PROVE Promised!GiveUp(c)
  <2>1. /\ Waiting(c) /\ got' = [got EXCEPT ![c] = Cancelled] /\ Cancelled # None
        /\ UNCHANGED <<running, future, joined>>
    BY <1>5 DEF Cancel
  <2>2. ~Waiting(c)' /\ \A d \in Calls \ {c} : Waiting(d)' = Waiting(d)
    BY <2>1 DEF Waiting, IndInv, TypeOK
  <2>3. \A d \in Calls : Promise(d)' = IF d = c THEN None ELSE Promise(d)
    BY <2>1, <2>2 
  <2>4. \A k \in Idents : Group(k)' = IF k = IdentOf[c] THEN Group(k) \ {c} ELSE Group(k)
    <3> TAKE k \in Idents
    <3>1. k = IdentOf[c] \/ joined[c] # running[k]
      BY <2>1 DEF Waiting, IndInv, TypeOK, RunningLives, JoinedOwnKey
    <3>2. \A d \in Calls : Waiting(d)' /\ joined'[d] = running'[k]
                            <=> Waiting(d) /\ joined[d] = running[k] /\ d # c
      BY <2>1, <2>2
    <3>3. \A d : d \in Group(k)' <=> d \in Group(k) /\ d # c
      BY <3>2
    <3> QED BY <3>1, <3>3
  <2>5. Promise(c) # None \/ c \in Group(IdentOf[c])
    <3>1. CASE Living(joined[c])
      BY <2>1, <3>1 DEF Waiting, IndInv, TypeOK, RunningLives, JoinedOwnKey
    <3>2. CASE ~Living(joined[c])
      BY <2>1, <3>2 DEF Waiting, Living, IndInv, TypeOK, JoinedOwnKey, FutureOfTask
    <3> QED BY <3>1, <3>2
  <2>6. Groups' = [Groups EXCEPT ![IdentOf[c]] = @ \ {c}]
    BY <2>4
  <2>7. Promises' = [Promises EXCEPT ![c] = None]
    BY <2>3
  <2>8. Airborne' = Airborne
    BY <2>1 DEF Airborne
  <2> QED BY <2>1, <2>5, <2>6, <2>7, <2>8 DEF Promised!GiveUp
<1>6. ASSUME UNCHANGED vars PROVE UNCHANGED Promised!vars
  BY <1>6 DEF vars, Promised!vars, Waiting, Airborne, Groups, Promises
<1> QED BY <1>1, <1>2, <1>3, <1>4, <1>5, <1>6, IdentAssumption
        DEF Next, Runs, Terminated, Promised!Next

\* A caller gets the outcome of the run it joined and of no other, everybody
\* in a group the same, and giving up is private.
THEOREM ImplementsSingleFlight == Spec => SharesOutcomes
<1>1. IndInv /\ IndInv' /\ [Next]_vars => [Promised!Next]_(Promised!vars)
  BY StepRefines
<1> QED BY <1>1, InitRefines, Invariance, PTL DEF Spec, SharesOutcomes, Promised!Spec
============================================================================
