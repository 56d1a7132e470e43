-------------------------- MODULE ReadinessProofs --------------------------
(***************************************************************************)
(* The probe with any number of checks and any timeouts.  All checks are   *)
(* started before time passes, so the clock of the probe is the clock of   *)
(* each check; and what a check has found out is true of its dependency at *)
(* some moment of the probe.                                               *)
(***************************************************************************)
EXTENDS Readiness, TLAPS

Typed ==
    /\ state \in [Checks -> {"up", "down", "hung"}]
    /\ pc \in [Checks -> {"idle", "running", "unwinding", "done"}]
    /\ since \in [Checks -> {0}]
    /\ healthy \in [Checks -> BOOLEAN \cup {Unknown}]
    /\ elapsed \in Nat

\* No check outlives its timeout, or the unwinding after it.
ChecksEnd ==
    /\ elapsed <= Timeout + Unwinding
    /\ \A k \in Checks :
        /\ pc[k] = "idle" => elapsed = 0
        /\ pc[k] = "running" => elapsed <= Timeout

\* Time only passes for a check whose dependency hangs.
Observed ==
    /\ \A k \in Checks : state[k] = "up" => k \in wasUp
    /\ \A k \in Checks : state[k] # "up" => k \in wasBad
    /\ \A k \in Checks :
        /\ pc[k] = "running" /\ elapsed > 0 => k \in wasBad
        /\ pc[k] = "unwinding" => k \in wasBad
        /\ pc[k] = "done" =>
            /\ healthy[k] \in BOOLEAN
            /\ healthy[k] = FALSE => k \in wasBad
            /\ healthy[k] = TRUE /\ k \notin Local => k \in wasUp

Responded ==
    /\ response # "none" => \A k \in Checks : pc[k] = "done"
    /\ response = "OK" => \A k \in Checks : healthy[k] = TRUE

IndInv == Typed /\ ChecksEnd /\ Observed /\ Responded

LEMMA InitInv == Init => IndInv
BY TimesAssumption DEF Init, IndInv, Typed, ChecksEnd, Observed, Responded

LEMMA StepInv == IndInv /\ [Next]_vars => IndInv'
<1> SUFFICES ASSUME IndInv, [Next]_vars PROVE IndInv'
  OBVIOUS
<1> USE TimesAssumption DEF IndInv, Typed, ChecksEnd, Observed, Responded
<1>1. ASSUME NEW k \in Checks, Start(k) PROVE IndInv'
  BY <1>1 DEF Start
<1>2. ASSUME NEW k \in Checks, Pass(k) PROVE IndInv'
  BY <1>2 DEF Pass, Result, Answers
<1>3. ASSUME NEW k \in Checks, Raise(k) PROVE IndInv'
  BY <1>3 DEF Raise, Result
<1>4. ASSUME NEW k \in Checks, TimeOut(k) PROVE IndInv'
  <2>1. elapsed > 0 /\ k \in wasBad
    BY <1>4 DEF TimeOut
  <2> QED BY <1>4, <2>1 DEF TimeOut
<1>5. ASSUME NEW k \in Checks, Unwound(k) PROVE IndInv'
  BY <1>5 DEF Unwound, Result
<1>6. ASSUME NEW k \in Checks, Change(k) PROVE IndInv'
  BY <1>6 DEF Change
<1>7. CASE Respond
  BY <1>7 DEF Respond
<1>8. CASE Tick
  <2>1. \A k \in Checks : pc[k] = "running" => state[k] = "hung" /\ elapsed < Timeout
    BY <1>8 DEF Tick, Idle, MayStart
  <2>2. \A k \in Checks : pc[k] # "idle"
    BY <1>8 DEF Tick, Idle, MayStart
  <2>3. elapsed' <= Timeout + Unwinding
    <3>1. PICK k \in Checks : pc[k] # "done"
      BY <1>8 DEF Tick
    <3>2. elapsed < Timeout + Unwinding
      BY <1>8, <2>1, <2>2, <3>1 DEF Tick, Idle
    <3> QED BY <1>8, <3>2 DEF Tick
  <2> QED BY <1>8, <2>1, <2>2, <2>3 DEF Tick
<1>9. CASE UNCHANGED vars
  BY <1>9 DEF vars
<1> QED BY <1>1, <1>2, <1>3, <1>4, <1>5, <1>6, <1>7, <1>8, <1>9 DEF Next, Answered

LEMMA Invariance == Spec => []IndInv
BY InitInv, StepInv, PTL DEF Spec

-----------------------------------------------------------------------------

\* The probe takes the time of one check, however many there are and hang.
THEOREM ProbeIsBounded == Spec => []AnsweredInTime
<1>1. IndInv => AnsweredInTime
  BY DEF IndInv, ChecksEnd, AnsweredInTime
<1> QED BY <1>1, Invariance, PTL

\* An answer of 200 had every remote dependency up during the probe.
THEOREM ReadyWasUp == Spec => []ReadyMeansUp
<1>1. IndInv => ReadyMeansUp
  BY DEF IndInv, Observed, Responded, ReadyMeansUp
<1> QED BY <1>1, Invariance, PTL

\* Every check is reported on, and none blamed for another.
THEOREM ReportsAreTrue == Spec => []ReportsEveryCheck
<1>1. IndInv => ReportsEveryCheck
  BY DEF IndInv, Observed, Responded, ReportsEveryCheck
<1> QED BY <1>1, Invariance, PTL
=============================================================================
