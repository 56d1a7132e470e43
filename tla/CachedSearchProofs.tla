------------------------- MODULE CachedSearchProofs -------------------------
(***************************************************************************)
(* The cached search with any number of calls, containers and searches and *)
(* any TTL.  What ReducerProofs shows of a reducer holds of the reducers   *)
(* here, since no step of a search changes them but by a step of theirs.   *)
(* To that the invariant adds where a call is, whose value it holds, and   *)
(* how old a value may be: it is delivered at the moment it was fetched,   *)
(* stored within Delay of that, kept for TTL from then and read within     *)
(* Delay more, unless a SET of it was given up.                            *)
(***************************************************************************)
EXTENDS CachedSearch, TLAPS

Reduced == INSTANCE ReducerProofs

\* Where a call of search is tells where its call of the reducer is.
Placed ==
    \A c \in Calls :
        /\ pc[c] \in {"get", "read"} => joined[c] = None
        /\ Shared!Waiting(c) => pc[c] = "waiting"
        /\ pc[c] \in {"set", "stored"} => got[c] \in Values
        /\ answer[c] # None => pc[c] = "done"
        /\ c \in late => got[c] \in Values /\ answer[c] = Failure

\* A value fetched for run c, answered to it, or held by it.
OwnValue(c, value) ==
    value \in Values => value.search = SearchOf[c] /\ value.at <= now

OwnValues ==
    \A c \in Calls :
        /\ OwnValue(c, future[c]) /\ OwnValue(c, got[c])
        /\ OwnValue(c, read[c]) /\ OwnValue(c, answer[c])

\* Time stands still while an outcome is on its way to a caller, and while a
\* command to Redis that has timed out is not given up.
Prompt ==
    \A c \in Calls :
        /\ Shared!Waiting(c) /\ future[joined[c]] \in Values => future[joined[c]].at = now
        /\ pc[c] \in {"set", "stored"} => now <= due[c] /\ due[c] <= got[c].at + Delay
        /\ pc[c] = "read" => now <= due[c]

\* What a GET brings was in the cache when it was sent.
ReadInTime ==
    \A c \in Calls :
        pc[c] = "read" /\ read[c] # None =>
            due[c] < read[c].at + TTL + 2 * Delay \/ GivenUp(read[c])

CacheIsTrue ==
    \A s \in Searches : cache[s] # None =>
        /\ cache[s].value.search = s
        /\ cache[s].value.at <= now
        /\ \/ cache[s].expires <= cache[s].value.at + TTL + Delay
           \/ GivenUp(cache[s].value)

\* What a caller holds or was answered from upstream has been stored since it
\* was fetched.
KeptForTTL ==
    \A c \in Calls :
        pc[c] = "stored" \/ (answer[c] \in Values /\ answer[c] = got[c]) =>
            /\ cache[SearchOf[c]] # None
            /\ got[c].at + TTL <= cache[SearchOf[c]].expires

IndInv ==
    /\ TypeOK
    /\ Reduced!IndInv
    /\ Placed
    /\ OwnValues
    /\ Prompt
    /\ ReadInTime
    /\ CacheIsTrue
    /\ KeptForTTL

-----------------------------------------------------------------------------
LEMMA Assumptions ==
    /\ IdentOf \in [Calls -> Idents]
    /\ None \notin Outcomes /\ Cancelled \notin Outcomes
    /\ None \notin Calls /\ None # Cancelled
BY CallsAssumption, MarkerAssumption DEF IdentOf, Idents

\* Times are numbers.
LEMMA Times ==
    /\ TTL \in Nat /\ TTL > 0 /\ Delay \in Nat /\ MaxTime \in Nat
    /\ \A value \in Values : value.at \in 0 .. MaxTime /\ value.search \in Searches
BY TimeAssumption DEF Values

LEMMA InitInv == ASSUME Init PROVE IndInv
<1>1. Reduced!IndInv
  <2>1. Reduced!Init
    BY DEF Init, Shared!Init, Reduced!Init
  <2> QED BY <2>1, Assumptions, Reduced!InitInv
<1>2. TypeOK
  BY <1>1, Times DEF Init, TypeOK, Shared!TypeOK, Reduced!IndInv, Reduced!TypeOK
<1>3. Placed /\ OwnValues /\ Prompt /\ ReadInTime /\ CacheIsTrue /\ KeptForTTL
  BY MarkerAssumption
     DEF Init, Shared!Init, Shared!Waiting, Outcomes,
         Placed, OwnValues, OwnValue, Prompt, ReadInTime, CacheIsTrue, KeptForTTL
<1> QED BY <1>1, <1>2, <1>3 DEF IndInv

\* Every step is a step of the reducers or leaves them alone.
LEMMA ReducerStep ==
  ASSUME Reduced!IndInv, [Next]_vars
  PROVE  Reduced!IndInv' /\ Shared!TypeOK'
<1>1. [Reduced!Next]_(Reduced!vars)
  <2>1. ASSUME NEW c \in Calls, Shared!Call(c) PROVE Reduced!Call(c)
    BY <2>1 DEF Shared!Call, Reduced!Call, Shared!RunOf, Reduced!RunOf
  <2>2. ASSUME NEW c \in Calls, Shared!Start(c) PROVE Reduced!Start(c)
    BY <2>2 DEF Shared!Start, Reduced!Start
  <2>3. ASSUME NEW c \in Calls, Shared!Finish(c) PROVE Reduced!Finish(c)
    BY <2>3 DEF Shared!Finish, Reduced!Finish
  <2>4. ASSUME NEW c \in Calls, Shared!Deliver(c) PROVE Reduced!Deliver(c)
    BY <2>4 DEF Shared!Deliver, Reduced!Deliver, Shared!Waiting, Reduced!Waiting
  <2>5. ASSUME NEW c \in Calls, Shared!Cancel(c) PROVE Reduced!Cancel(c)
    BY <2>5 DEF Shared!Cancel, Reduced!Cancel, Shared!Waiting, Reduced!Waiting
  <2>6. ASSUME UNCHANGED reducer PROVE UNCHANGED Reduced!vars
    BY <2>6 DEF reducer, Reduced!vars
  <2>7. ASSUME NEW c \in Calls,
               Miss(c) \/ Start(c) \/ Fetched(c) \/ Resume(c) \/ Cancel(c)
        PROVE  Reduced!Next
    BY <2>1, <2>2, <2>3, <2>4, <2>5, <2>7
       DEF Miss, Start, Fetched, Resume, Cancel, Reduced!Next, Reduced!Runs
  <2>8. ASSUME NEW c \in Calls,
               \/ Lookup(c) \/ Hit(c) \/ GetFails(c)
               \/ Set(c) \/ Stored(c) \/ SetFails(c) \/ SetLate(c)
        PROVE  UNCHANGED reducer
    BY <2>8 DEF Lookup, Hit, GetFails, Set, Stored, SetFails, SetLate
  <2>9. Tick \/ Terminated \/ UNCHANGED vars => UNCHANGED reducer
    BY DEF Tick, Terminated, vars
  <2> QED BY <2>6, <2>7, <2>8, <2>9 DEF Next
<1>2. Reduced!IndInv'
  BY <1>1, Assumptions, Reduced!StepInv
<1> QED BY <1>2 DEF Reduced!IndInv, Reduced!TypeOK, Shared!TypeOK

-----------------------------------------------------------------------------
\* What is left to show of a step once the reducers are done with.
Rest == TypeOK /\ Placed /\ OwnValues /\ Prompt /\ ReadInTime /\ CacheIsTrue /\ KeptForTTL

\* A call that failed is over: what it held has been given up for good.
LEMMA GivenUpStays ==
  ASSUME IndInv, NEW c \in Calls, pc[c] # "done",
         \A d \in Calls \ {c} : answer'[d] = answer[d] /\ got'[d] = got[d],
         NEW value, GivenUp(value)
  PROVE  GivenUp(value)'
<1>1. \A d \in Calls : answer[d] = Failure => d # c
  BY MarkerAssumption DEF IndInv, Placed, Outcomes
<1> QED BY <1>1 DEF GivenUp

LEMMA ReturnKeeps ==
  ASSUME IndInv, Shared!TypeOK', NEW c \in Calls, pc[c] \in {"read", "waiting", "set", "stored"},
         NEW outcome \in Outcomes, Return(c, outcome),
         UNCHANGED <<running, future, task, joined, cache, now>>,
         \/ UNCHANGED <<read, due>>
         \/ Over(c) /\ UNCHANGED read
         \/ Over(c) /\ Forget(c),
         \/ UNCHANGED late
         \/ late' = late \cup {c} /\ got'[c] \in Values /\ outcome = Failure,
         got'[c] # None \/ pc[c] = "read",
         \A d \in Calls \ {c} : got'[d] = got[d],
         c \in late => got'[c] = got[c],
         OwnValue(c, got'[c]), OwnValue(c, outcome),
         outcome \in Values /\ outcome = got'[c] =>
             /\ cache[SearchOf[c]] # None
             /\ outcome.at + TTL <= cache[SearchOf[c]].expires
  PROVE  Rest'
<1>1. /\ pc'[c] = "done" /\ answer'[c] = outcome
      /\ \A d \in Calls \ {c} : pc'[d] = pc[d] /\ answer'[d] = answer[d] /\ got'[d] = got[d]
  BY DEF Return, Goto, IndInv, TypeOK
<1>2. /\ read'[c] \in {read[c], None}
      /\ \A d \in Calls \ {c} : read'[d] = read[d] /\ due'[d] = due[d]
  BY DEF Over, Forget, IndInv, TypeOK
<1>3. TypeOK'
  <2>1. /\ pc' \in [Calls -> {"get", "read", "waiting", "set", "stored", "done"}]
        /\ answer' \in [Calls -> Outcomes \cup {None}]
    BY DEF Return, Goto, IndInv, TypeOK
  <2>2. read' \in [Calls -> Values \cup {None}] /\ due' \in [Calls -> 0..(MaxTime + Delay)]
    BY Times DEF Over, Forget, IndInv, TypeOK
  <2> QED BY <2>1, <2>2 DEF IndInv, TypeOK
<1>4. \A d \in Calls : Shared!Waiting(d)' => d # c /\ Shared!Waiting(d)
  BY <1>1 DEF Shared!Waiting, IndInv, Placed
<1>5. c \notin late
  BY MarkerAssumption DEF IndInv, Placed, Outcomes
<1>6. Placed'
  BY <1>1, <1>4, <1>5 DEF IndInv, Placed
<1>7. OwnValues'
  BY <1>1, <1>2, MarkerAssumption DEF IndInv, OwnValues, OwnValue, Outcomes
<1>8. Prompt'
  BY <1>1, <1>2, <1>4 DEF IndInv, Prompt
<1>9. \A value : GivenUp(value) => GivenUp(value)'
  BY <1>1, GivenUpStays
<1>10. ReadInTime'
  BY <1>1, <1>2, <1>9 DEF IndInv, ReadInTime
<1>11. CacheIsTrue'
  BY <1>9 DEF IndInv, CacheIsTrue
<1>12. KeptForTTL'
  BY <1>1 DEF IndInv, KeptForTTL
<1> QED BY <1>3, <1>6, <1>7, <1>8, <1>10, <1>11, <1>12 DEF Rest

\* Redis executes a SET, in time or after it was given up.
LEMMA StoreKeeps ==
  ASSUME IndInv, NEW c \in Calls, got[c] \in Values,
         Store(CacheKey(c), got[c]),
         \/ /\ pc[c] = "set" /\ Goto(c, "stored") /\ UNCHANGED late
         \/ /\ c \in late /\ late' = late \ {c} /\ UNCHANGED pc,
         UNCHANGED <<reducer, read, due, answer, now>>
  PROVE  Rest'
<1>1. /\ got[c].search = SearchOf[c] /\ got[c].at <= now
      /\ got[c].at \in 0 .. MaxTime /\ now \in 0 .. MaxTime
      /\ SearchOf[c] \in Searches
  BY CallsAssumption, Times DEF IndInv, OwnValues, OwnValue, TypeOK
<1>2. cache' = [cache EXCEPT ![SearchOf[c]] = [value |-> got[c], expires |-> now + TTL]]
  BY DEF Store, CacheKey, Entry
<1>3. /\ cache'[SearchOf[c]].value = got[c] /\ cache'[SearchOf[c]].expires = now + TTL
      /\ \A s \in Searches \ {SearchOf[c]} : cache'[s] = cache[s]
      /\ cache'[SearchOf[c]] \in CacheEntries
  BY <1>1, <1>2, Times DEF IndInv, TypeOK, CacheEntries
<1>4. /\ UNCHANGED <<running, future, task, joined, got, read, due, answer, now>>
      /\ late' \subseteq late
      /\ \A d \in Calls : pc'[d] # pc[d] => d = c /\ pc[c] = "set" /\ pc'[c] = "stored"
  BY DEF reducer, Goto, IndInv, TypeOK
<1>5. TypeOK'
  <2>1. cache' \in [Searches -> CacheEntries \cup {None}]
    BY <1>2, <1>3 DEF IndInv, TypeOK
  <2>2. pc' \in [Calls -> {"get", "read", "waiting", "set", "stored", "done"}]
    BY DEF Goto, IndInv, TypeOK
  <2> QED BY <1>4, <2>1, <2>2 DEF IndInv, TypeOK, Shared!TypeOK
<1>6. answer[c] # None => pc[c] = "done"
  BY DEF IndInv, Placed
<1>7. Placed'
  BY <1>4, <1>6 DEF IndInv, Placed, Shared!Waiting
<1>8. OwnValues'
  BY <1>4 DEF IndInv, OwnValues, OwnValue
<1>9. Prompt'
  BY <1>4 DEF IndInv, Prompt, Shared!Waiting
<1>10. \A value : GivenUp(value)' <=> GivenUp(value)
  BY <1>4 DEF GivenUp
<1>11. ReadInTime'
  BY <1>4, <1>10 DEF IndInv, ReadInTime
<1>12. CacheIsTrue'
  <2>1. now + TTL <= got[c].at + TTL + Delay \/ GivenUp(got[c])
    <3>1. CASE pc[c] = "set"
      <4>1. now <= due[c] /\ due[c] <= got[c].at + Delay /\ due[c] \in 0 .. (MaxTime + Delay)
        BY <3>1 DEF IndInv, Prompt, TypeOK
      <4> QED BY <1>1, <4>1, Times
    <3>2. CASE c \in late
      BY <3>2 DEF IndInv, Placed, GivenUp
    <3> QED BY <3>1, <3>2
  <2>2. ASSUME NEW s \in Searches, cache'[s] # None
        PROVE  /\ cache'[s].value.search = s
               /\ cache'[s].value.at <= now
               /\ \/ cache'[s].expires <= cache'[s].value.at + TTL + Delay
                  \/ GivenUp(cache'[s].value)
    <3>1. CASE s = SearchOf[c]
      BY <1>1, <1>3, <2>1, <3>1
    <3>2. CASE s # SearchOf[c]
      BY <1>3, <2>2, <3>2 DEF IndInv, CacheIsTrue
    <3> QED BY <3>1, <3>2
  <2> QED BY <1>4, <1>10, <2>2 DEF CacheIsTrue
<1>13. KeptForTTL'
  <2> SUFFICES ASSUME NEW d \in Calls,
                      pc'[d] = "stored" \/ (answer'[d] \in Values /\ answer'[d] = got'[d])
               PROVE  /\ cache'[SearchOf[d]] # None
                      /\ got'[d].at + TTL <= cache'[SearchOf[d]].expires
    BY DEF KeptForTTL
  <2>1. CASE SearchOf[d] = SearchOf[c]
    <3>1. got[d] \in Values
      BY <1>4, <1>7 DEF Placed
    <3>2. got[d].at <= now /\ got[d].at \in 0 .. MaxTime
      BY <3>1, Times DEF IndInv, OwnValues, OwnValue
    <3> QED BY <2>1, <3>2, <1>1, <1>3, <1>4, Times, MarkerAssumption
  <2>2. CASE SearchOf[d] # SearchOf[c]
    <3>1. d # c /\ pc'[d] = pc[d] /\ SearchOf[d] \in Searches
      BY <2>2, <1>4, CallsAssumption
    <3> QED BY <3>1, <2>2, <1>3, <1>4 DEF IndInv, KeptForTTL
  <2> QED BY <2>1, <2>2
<1> QED BY <1>5, <1>7, <1>8, <1>9, <1>11, <1>12, <1>13 DEF Rest

\* A GET finds what is in the cache now, and not yet expired.
LEMMA LookupKeeps ==
  ASSUME IndInv, Shared!TypeOK', NEW c \in Calls, Lookup(c)
  PROVE  Rest'
<1> DEFINE found == IF Cached(SearchOf[c]) THEN cache[SearchOf[c]].value ELSE None
<1>1. /\ pc[c] = "get" /\ pc' = [pc EXCEPT ![c] = "read"]
      /\ read' = [read EXCEPT ![c] = found]
      /\ due' = [due EXCEPT ![c] = now + Delay]
      /\ UNCHANGED <<running, future, task, joined, got, cache, late, answer, now>>
  BY DEF Lookup, Goto, Send, CacheKey, reducer
<1>2. /\ found \in Values \cup {None} /\ OwnValue(c, found)
      /\ found # None => now + Delay < found.at + TTL + 2 * Delay \/ GivenUp(found)
  <2>1. CASE Cached(SearchOf[c])
    <3>1. /\ cache[SearchOf[c]] \in CacheEntries /\ now < cache[SearchOf[c]].expires
          /\ SearchOf[c] \in Searches /\ found = cache[SearchOf[c]].value
      BY <2>1, CallsAssumption DEF Cached, IndInv, TypeOK
    <3>2. /\ found \in Values /\ found.at \in 0 .. MaxTime /\ now \in 0 .. MaxTime
          /\ cache[SearchOf[c]].expires \in 0 .. (MaxTime + TTL)
      BY <3>1, Times DEF CacheEntries, IndInv, TypeOK
    <3>3. /\ found.search = SearchOf[c] /\ found.at <= now
          /\ cache[SearchOf[c]].expires <= found.at + TTL + Delay \/ GivenUp(found)
      BY <2>1, <3>1 DEF Cached, IndInv, CacheIsTrue
    <3>4. now + Delay < found.at + TTL + 2 * Delay \/ GivenUp(found)
      BY <3>1, <3>2, <3>3, Times
    <3> QED BY <3>2, <3>3, <3>4 DEF OwnValue
  <2>2. CASE ~Cached(SearchOf[c])
    BY <2>2, MarkerAssumption DEF OwnValue, Outcomes
  <2> QED BY <2>1, <2>2
<1> HIDE DEF found
<1>3. /\ pc'[c] = "read" /\ read'[c] = found /\ due'[c] = now + Delay
      /\ \A d \in Calls \ {c} : pc'[d] = pc[d] /\ read'[d] = read[d] /\ due'[d] = due[d]
      /\ now \in 0 .. MaxTime
  BY <1>1 DEF IndInv, TypeOK
<1>4. TypeOK'
  <2>1. due' \in [Calls -> 0 .. (MaxTime + Delay)]
    BY <1>1, <1>3, Times DEF IndInv, TypeOK
  <2> QED BY <1>1, <1>2, <2>1 DEF IndInv, TypeOK
<1>5. Placed'
  BY <1>1, <1>3 DEF IndInv, Placed, Shared!Waiting
<1>6. OwnValues'
  BY <1>1, <1>2, <1>3 DEF IndInv, OwnValues, OwnValue
<1>7. Prompt'
  BY <1>1, <1>3, Times DEF IndInv, Prompt, Shared!Waiting
<1>8. \A value : GivenUp(value)' <=> GivenUp(value)
  BY <1>1 DEF GivenUp
<1>9. ReadInTime' /\ CacheIsTrue'
  BY <1>1, <1>2, <1>3, <1>8 DEF IndInv, ReadInTime, CacheIsTrue
<1>10. KeptForTTL'
  BY <1>1, <1>3 DEF IndInv, KeptForTTL
<1> QED BY <1>4, <1>5, <1>6, <1>7, <1>9, <1>10 DEF Rest

\* A run ends or begins: the calls, the cache and the clock do not move.
LEMMA RunsKeep ==
  ASSUME IndInv, Shared!TypeOK', NEW c \in Calls, Start(c) \/ Fetched(c)
  PROVE  Rest'
<1>1. UNCHANGED <<cache, pc, read, due, late, answer, now, joined, got>>
  BY DEF Start, Fetched, Shared!Start, Shared!Finish
<1>2. /\ \A d \in Calls \ {c} : future'[d] = future[d]
      /\ future'[c] = future[c] \/ future'[c] \in {[search |-> SearchOf[c], at |-> now], Failure}
  BY DEF Start, Fetched, Shared!Start, Shared!Finish, IndInv, TypeOK, Shared!TypeOK
<1>3. OwnValue(c, future'[c])
  BY <1>2, Times, MarkerAssumption DEF OwnValue, IndInv, OwnValues, TypeOK
<1>4. \A d \in Calls : future'[d] \in Values => future'[d] = future[d] \/ future'[d].at = now
  BY <1>2, MarkerAssumption
<1>5. TypeOK' /\ Placed'
  BY <1>1 DEF IndInv, TypeOK, Placed, Shared!Waiting
<1>6. OwnValues'
  BY <1>1, <1>2, <1>3 DEF IndInv, OwnValues, OwnValue
<1>7. Prompt'
  <2>1. \A d \in Calls : Shared!Waiting(d) => joined[d] \in Calls
    BY DEF Shared!Waiting, IndInv, TypeOK, Shared!TypeOK
  <2> QED BY <1>1, <1>4, <2>1 DEF IndInv, Prompt, Shared!Waiting
<1> QED BY <1>1, <1>5, <1>6, <1>7
        DEF Rest, IndInv, ReadInTime, CacheIsTrue, KeptForTTL, GivenUp

LEMMA MissKeeps ==
  ASSUME IndInv, Shared!TypeOK', NEW c \in Calls, Miss(c)
  PROVE  Rest'
<1>1. /\ UNCHANGED <<cache, read, late, answer, now, future, got>>
      /\ due' = [due EXCEPT ![c] = 0]
      /\ joined' = [joined EXCEPT ![c] = Shared!RunOf(c)]
      /\ pc' = [pc EXCEPT ![c] = "waiting"]
      /\ pc[c] = "read"
  BY DEF Miss, Goto, Over, Shared!Call
<1>2. Shared!RunOf(c) \in Calls /\ future[Shared!RunOf(c)] = None
  <2>1. /\ IdentOf[c] \in Idents
        /\ running[IdentOf[c]] # None => /\ running[IdentOf[c]] \in Calls
                                         /\ task[running[IdentOf[c]]] # "done"
    BY Assumptions DEF IndInv, Reduced!IndInv, Reduced!RunningLives, Reduced!Living,
                       TypeOK, Shared!TypeOK
  <2>2. joined[c] = None
    BY <1>1 DEF IndInv, Placed
  <2>3. task[c] = "none"
    BY <2>2 DEF IndInv, Reduced!IndInv, Reduced!NotCome
  <2> QED BY <2>1, <2>3 DEF Shared!RunOf, IndInv, Reduced!IndInv, Reduced!FutureOfTask
<1>3. /\ pc'[c] = "waiting" /\ joined'[c] = Shared!RunOf(c)
      /\ \A d \in Calls \ {c} : pc'[d] = pc[d] /\ joined'[d] = joined[d] /\ due'[d] = due[d]
  BY <1>1 DEF IndInv, TypeOK, Shared!TypeOK
<1>4. TypeOK' /\ Placed'
  <2>1. due' \in [Calls -> 0 .. (MaxTime + Delay)]
    BY <1>1, Times DEF IndInv, TypeOK
  <2> QED BY <1>1, <1>3, <2>1 DEF IndInv, TypeOK, Placed, Shared!Waiting
<1>5. Prompt'
  BY <1>1, <1>2, <1>3, MarkerAssumption DEF IndInv, Prompt, Shared!Waiting, Outcomes
<1>6. \A value : GivenUp(value)' <=> GivenUp(value)
  BY <1>1 DEF GivenUp
<1>7. ReadInTime' /\ KeptForTTL'
  BY <1>1, <1>3, <1>6 DEF IndInv, ReadInTime, KeptForTTL
<1> QED BY <1>1, <1>4, <1>5, <1>6, <1>7 DEF Rest, IndInv, OwnValues, OwnValue, CacheIsTrue

\* What a waiter is handed was fetched for it, and just now.
LEMMA Handed ==
  ASSUME IndInv, NEW c \in Calls, Shared!Deliver(c)
  PROVE  /\ got' = [got EXCEPT ![c] = future[joined[c]]]
         /\ future[joined[c]] \in Outcomes /\ pc[c] = "waiting"
         /\ OwnValue(c, future[joined[c]])
         /\ future[joined[c]] \in Values => future[joined[c]].at = now
         /\ UNCHANGED <<running, future, task, joined>>
<1>1. /\ Shared!Waiting(c) /\ future[joined[c]] # None
      /\ got' = [got EXCEPT ![c] = future[joined[c]]]
      /\ UNCHANGED <<running, future, task, joined>>
  BY DEF Shared!Deliver
<1>2. joined[c] \in Calls /\ future[joined[c]] \in Outcomes
  BY <1>1 DEF Shared!Waiting, IndInv, TypeOK, Shared!TypeOK
<1>3. SearchOf[joined[c]] = SearchOf[c]
  <2>1. IdentOf[joined[c]] = IdentOf[c]
    BY <1>1 DEF Shared!Waiting, IndInv, Reduced!IndInv, Reduced!JoinedOwnKey
  <2> QED BY <1>2, <2>1 DEF IdentOf
<1> QED BY <1>1, <1>2, <1>3 DEF IndInv, Placed, OwnValues, OwnValue, Prompt

LEMMA ResumeKeeps ==
  ASSUME IndInv, Shared!TypeOK', NEW c \in Calls, Resume(c)
  PROVE  Rest'
<1> DEFINE outcome == future[joined[c]]
<1>1. /\ Shared!Deliver(c) /\ UNCHANGED <<cache, read, late, now>>
  BY DEF Resume
<1>2. /\ got' = [got EXCEPT ![c] = outcome]
      /\ outcome \in Outcomes /\ pc[c] = "waiting"
      /\ OwnValue(c, outcome)
      /\ outcome \in Values => outcome.at = now
      /\ UNCHANGED <<running, future, task, joined>>
  BY <1>1, Handed
<1> HIDE DEF outcome
<1>3. /\ got'[c] = outcome
      /\ \A d \in Calls \ {c} : got'[d] = got[d]
  BY <1>2 DEF IndInv, TypeOK, Shared!TypeOK
<1>4. CASE outcome = Failure
  <2>1. Return(c, Failure) /\ UNCHANGED due
    BY <1>3, <1>4 DEF Resume
  <2>2. c \notin late
    BY <1>2, MarkerAssumption DEF IndInv, Placed, Outcomes
  <2>3. Failure \in Outcomes /\ Failure \notin Values /\ Failure # None
    BY MarkerAssumption DEF Outcomes
  <2> QED BY <1>1, <1>2, <1>3, <1>4, <2>1, <2>2, <2>3, ReturnKeeps
<1>5. CASE outcome # Failure
  <2>1. /\ due' = [due EXCEPT ![c] = now + Delay]
        /\ pc' = [pc EXCEPT ![c] = "set"] /\ UNCHANGED answer
        /\ outcome \in Values
    BY <1>2, <1>3, <1>5 DEF Resume, Send, Goto, Outcomes
  <2>2. /\ due'[c] = now + Delay /\ pc'[c] = "set"
        /\ \A d \in Calls \ {c} : due'[d] = due[d] /\ pc'[d] = pc[d]
        /\ now \in 0 .. MaxTime
    BY <2>1 DEF IndInv, TypeOK
  <2>3. TypeOK'
    BY <1>1, <2>1, <2>2, Times DEF IndInv, TypeOK
  <2>4. \A d \in Calls : Shared!Waiting(d)' => d # c /\ Shared!Waiting(d)
    BY <1>2, <1>3, <2>1, MarkerAssumption DEF Shared!Waiting, Outcomes
  <2>5. answer[c] = None /\ c \notin late
    BY <1>2, MarkerAssumption DEF IndInv, Placed, Outcomes
  <2>6. Placed'
    BY <1>1, <1>2, <1>3, <2>1, <2>2, <2>4, <2>5 DEF IndInv, Placed
  <2>7. OwnValues'
    BY <1>1, <1>2, <1>3, <2>1 DEF IndInv, OwnValues, OwnValue
  <2>8. Prompt'
    BY <1>1, <1>2, <1>3, <2>1, <2>2, <2>4, Times DEF IndInv, Prompt
  <2>9. \A value : GivenUp(value) => GivenUp(value)'
    BY <1>2, <1>3, <2>1, GivenUpStays
  <2>10. ReadInTime'
    BY <1>1, <2>1, <2>2, <2>9 DEF IndInv, ReadInTime
  <2>11. CacheIsTrue'
    BY <1>1, <2>9 DEF IndInv, CacheIsTrue
  <2>12. KeptForTTL'
    BY <1>1, <1>3, <2>1, <2>2, <2>5, MarkerAssumption DEF IndInv, KeptForTTL, Outcomes
  <2> QED BY <1>1, <2>3, <2>6, <2>7, <2>8, <2>10, <2>11, <2>12 DEF Rest
<1> QED BY <1>4, <1>5

LEMMA CancelKeeps ==
  ASSUME IndInv, Shared!TypeOK', NEW c \in Calls, Cancel(c)
  PROVE  Rest'
<1>1. /\ Shared!Waiting(c) /\ got' = [got EXCEPT ![c] = Cancelled]
      /\ UNCHANGED <<running, future, task, joined, cache, read, due, late, now>>
      /\ Return(c, Failure)
  BY DEF Cancel, Shared!Cancel
<1>2. /\ got'[c] = Cancelled
      /\ \A d \in Calls \ {c} : got'[d] = got[d]
  BY <1>1 DEF IndInv, TypeOK, Shared!TypeOK
<1>3. pc[c] = "waiting" /\ c \notin late
  BY <1>1, MarkerAssumption DEF IndInv, Placed, Outcomes
<1> QED BY <1>1, <1>2, <1>3, ReturnKeeps, MarkerAssumption DEF Outcomes, OwnValue

\* The answer of Redis arrives, or does not: the caller returns.
LEMMA AnswerKeeps ==
  ASSUME IndInv, Shared!TypeOK', NEW c \in Calls,
         Hit(c) \/ GetFails(c) \/ Stored(c) \/ SetFails(c)
  PROVE  Rest'
<1>1. /\ Over(c) /\ UNCHANGED <<running, future, task, joined, got, cache, now>>
      /\ Forget(c) \/ UNCHANGED read
  BY DEF Hit, GetFails, Stored, SetFails, reducer
<1>2. c \notin late \/ got'[c] = got[c]
  BY <1>1
<1>3. OwnValue(c, got[c]) /\ OwnValue(c, read[c]) /\ OwnValue(c, Failure)
  BY MarkerAssumption DEF IndInv, OwnValues, OwnValue, Outcomes
<1>4. CASE Hit(c)
  <2>1. pc[c] = "read" /\ read[c] \in Values /\ Return(c, read[c]) /\ UNCHANGED late
    BY <1>4 DEF Hit, IndInv, TypeOK
  <2>2. got[c] = None
    BY <2>1 DEF IndInv, Placed, Reduced!IndInv, Reduced!NotCome
  <2> QED BY <1>1, <1>2, <1>3, <2>1, <2>2, ReturnKeeps, MarkerAssumption DEF Outcomes
<1>5. CASE GetFails(c)
  <2>1. pc[c] = "read" /\ Return(c, Failure) /\ UNCHANGED late
    BY <1>5 DEF GetFails
  <2> QED BY <1>1, <1>2, <1>3, <2>1, ReturnKeeps, MarkerAssumption DEF Outcomes
<1>6. CASE Stored(c)
  <2>1. pc[c] = "stored" /\ got[c] \in Values /\ Return(c, got[c]) /\ UNCHANGED late
    BY <1>6 DEF Stored, IndInv, Placed
  <2>2. /\ cache[SearchOf[c]] # None
        /\ got[c].at + TTL <= cache[SearchOf[c]].expires
    BY <2>1 DEF IndInv, KeptForTTL
  <2> QED BY <1>1, <1>2, <1>3, <2>1, <2>2, ReturnKeeps, MarkerAssumption DEF Outcomes
<1>7. CASE SetFails(c)
  <2>1. /\ pc[c] \in {"set", "stored"} /\ got[c] \in Values /\ Return(c, Failure)
        /\ UNCHANGED late \/ late' = late \cup {c}
    BY <1>7 DEF SetFails, IndInv, Placed
  <2> QED BY <1>1, <1>2, <1>3, <2>1, ReturnKeeps, MarkerAssumption DEF Outcomes
<1> QED BY <1>4, <1>5, <1>6, <1>7

LEMMA TickKeeps ==
  ASSUME IndInv, Shared!TypeOK', Tick
  PROVE  Rest'
<1>1. /\ now < MaxTime /\ now' = now + 1 /\ now \in 0 .. MaxTime
      /\ UNCHANGED <<running, future, task, joined, got, cache, pc, read, due, late, answer>>
      /\ \A c \in Calls : ~(Shared!Waiting(c) /\ future[joined[c]] # None)
      /\ \A c \in Calls : pc[c] \in {"read", "set", "stored"} => now < due[c]
  BY DEF Tick, reducer, IndInv, TypeOK
<1>2. TypeOK'
  BY <1>1, Times DEF IndInv, TypeOK
<1>3. Placed' /\ ReadInTime' /\ KeptForTTL'
  BY <1>1 DEF IndInv, Placed, ReadInTime, KeptForTTL, Shared!Waiting, GivenUp
<1>4. OwnValues'
  BY <1>1, Times DEF IndInv, OwnValues, OwnValue
<1>5. Prompt'
  <2>1. \A c \in Calls : due[c] \in 0 .. (MaxTime + Delay)
    BY DEF IndInv, TypeOK
  <2> QED BY <1>1, <2>1, Times, MarkerAssumption DEF IndInv, Prompt, Shared!Waiting, Outcomes
<1>6. CacheIsTrue'
  <2>1. \A s \in Searches : cache[s] # None => cache[s].value.at \in 0 .. MaxTime
    BY Times DEF IndInv, TypeOK, CacheEntries
  <2> QED BY <1>1, <2>1 DEF IndInv, CacheIsTrue, GivenUp
<1> QED BY <1>2, <1>3, <1>4, <1>5, <1>6 DEF Rest

LEMMA StepInv == ASSUME IndInv, [Next]_vars PROVE IndInv'
<1>1. Reduced!IndInv' /\ Shared!TypeOK'
  BY ReducerStep DEF IndInv
<1>2. Rest'
  <2>1. ASSUME NEW c \in Calls, Lookup(c) PROVE Rest'
    BY <1>1, <2>1, LookupKeeps
  <2>2. ASSUME NEW c \in Calls, Miss(c) PROVE Rest'
    BY <1>1, <2>2, MissKeeps
  <2>3. ASSUME NEW c \in Calls, Start(c) \/ Fetched(c) PROVE Rest'
    BY <1>1, <2>3, RunsKeep
  <2>4. ASSUME NEW c \in Calls, Resume(c) PROVE Rest'
    BY <1>1, <2>4, ResumeKeeps
  <2>5. ASSUME NEW c \in Calls, Cancel(c) PROVE Rest'
    BY <1>1, <2>5, CancelKeeps
  <2>6. ASSUME NEW c \in Calls, Set(c) PROVE Rest'
    BY <2>6, StoreKeeps DEF Set, IndInv, Placed
  <2>7. ASSUME NEW c \in Calls, SetLate(c) PROVE Rest'
    BY <2>7, StoreKeeps DEF SetLate, IndInv, Placed
  <2>8. ASSUME NEW c \in Calls, Hit(c) \/ GetFails(c) \/ Stored(c) \/ SetFails(c)
        PROVE  Rest'
    BY <1>1, <2>8, AnswerKeeps
  <2>9. CASE Tick
    BY <1>1, <2>9, TickKeeps
  <2>10. CASE UNCHANGED vars
    BY <1>1, <2>10 DEF vars, reducer, Rest, IndInv, TypeOK, Placed, OwnValues, OwnValue, Prompt,
                       ReadInTime, CacheIsTrue, KeptForTTL, Shared!Waiting, GivenUp
  <2> QED BY <2>1, <2>2, <2>3, <2>4, <2>5, <2>6, <2>7, <2>8, <2>9, <2>10
          DEF Next, Terminated
<1> QED BY <1>1, <1>2 DEF IndInv, Rest

LEMMA Invariance == Spec => []IndInv
BY InitInv, StepInv, PTL DEF Spec

-----------------------------------------------------------------------------

\* The reducers keep their promise inside the search: one page is requested
\* from Open Library at most once at a time by each container.
THEOREM OneRequestPerPage == Spec => []Shared!OneRunPerKey
<1>1. IndInv => Shared!OneRunPerKey
  BY DEF IndInv, Reduced!IndInv, Reduced!RunningLives, Reduced!Living, Shared!OneRunPerKey
<1> QED BY <1>1, Invariance, PTL

\* Every reachable state is well typed: no exception is ever in the cache.
THEOREM TypeCorrect == Spec => []TypeOK
BY Invariance, PTL DEF IndInv

\* However many calls, containers and searches there are, nobody is answered
\* with the page of another search.
THEOREM AnsweredOwnPage == Spec => []AnswersOwnSearch
<1>1. IndInv => AnswersOwnSearch
  BY DEF IndInv, OwnValues, OwnValue, AnswersOwnSearch
<1> QED BY <1>1, Invariance, PTL

\* A search answered from upstream is cached, and stays so for the whole TTL
\* whoever stores what later.
THEOREM AnswersAreKept == Spec => []AnsweredIsCached
<1>1. ASSUME IndInv PROVE AnsweredIsCached
  <2> SUFFICES ASSUME NEW c \in Calls, answer[c] \in Values, answer[c] = got[c],
                      now < answer[c].at + TTL
               PROVE  Cached(SearchOf[c])
    BY DEF AnsweredIsCached
  <2>1. /\ cache[SearchOf[c]] # None
        /\ answer[c].at + TTL <= cache[SearchOf[c]].expires
        /\ now \in 0 .. MaxTime
    BY <1>1 DEF IndInv, KeptForTTL, TypeOK
  <2>2. cache[SearchOf[c]].expires \in 0 .. (MaxTime + TTL) /\ answer[c].at \in 0 .. MaxTime
    BY <1>1, <2>1, CallsAssumption, Times DEF IndInv, TypeOK, CacheEntries
  <2> QED BY <2>1, <2>2, Times DEF Cached
<1> QED BY <1>1, Invariance, PTL

\* No answer is as old as TTL and the time of two commands to Redis, unless
\* somebody's SET of that value was given up.
THEOREM AnswersAreFresh == Spec => AgeBounded
<1>1. ASSUME IndInv, [Next]_vars
      PROVE  [\A c \in Calls :
                  answer'[c] \in Values /\ answer[c] = None =>
                      \/ now < answer'[c].at + TTL + 2 * Delay
                      \/ GivenUp(answer'[c])]_vars
  <2> SUFFICES ASSUME Next, NEW c \in Calls, answer'[c] \in Values, answer[c] = None
               PROVE  \/ now < answer'[c].at + TTL + 2 * Delay
                      \/ GivenUp(answer'[c])
    BY <1>1
  <2>1. now \in 0 .. MaxTime /\ answer'[c].at \in 0 .. MaxTime
    BY <1>1, Times DEF IndInv, TypeOK
  <2>2. Hit(c) \/ Stored(c)
    <3>1. answer'[c] # answer[c] /\ answer'[c] # Failure
      BY MarkerAssumption DEF Outcomes
    <3>2. \A d \in Calls, outcome \in Outcomes :
              Return(d, outcome) => answer'[c] = IF c = d THEN outcome ELSE answer[c]
      BY <1>1 DEF Return, IndInv, TypeOK
    <3>3. ASSUME NEW d \in Calls,
                 Lookup(d) \/ Miss(d) \/ Start(d) \/ Fetched(d) \/ Set(d) \/ SetLate(d)
          PROVE  FALSE
      BY <3>1, <3>3 DEF Lookup, Miss, Start, Fetched, Set, SetLate
    <3>4. ASSUME NEW d \in Calls, GetFails(d) \/ Resume(d) \/ Cancel(d) \/ SetFails(d)
          PROVE  FALSE
      BY <3>1, <3>2, <3>4 DEF GetFails, Resume, Cancel, SetFails, Outcomes
    <3>5. ASSUME NEW d \in Calls, Hit(d) \/ Stored(d) PROVE d = c
      BY <1>1, <3>1, <3>5 DEF Hit, Stored, Return, IndInv, TypeOK
    <3>6. ~Tick /\ ~Terminated
      BY <3>1 DEF Tick, Terminated, vars
    <3> QED BY <3>3, <3>4, <3>5, <3>6 DEF Next
  <2>3. CASE Hit(c)
    <3>1. /\ pc[c] = "read" /\ read[c] # None /\ answer'[c] = read[c]
          /\ due[c] \in 0 .. (MaxTime + Delay)
      BY <1>1, <2>3 DEF Hit, Return, IndInv, TypeOK
    <3>2. /\ now <= due[c]
          /\ due[c] < read[c].at + TTL + 2 * Delay \/ GivenUp(read[c])
      BY <1>1, <3>1 DEF IndInv, Prompt, ReadInTime
    <3> QED BY <2>1, <3>1, <3>2, Times
  <2>4. CASE Stored(c)
    <3>1. /\ answer'[c] = got[c] /\ pc[c] = "stored"
          /\ due[c] \in 0 .. (MaxTime + Delay)
      BY <1>1, <2>4 DEF Stored, Return, IndInv, TypeOK
    <3>2. now <= due[c] /\ due[c] <= got[c].at + Delay
      BY <1>1, <3>1 DEF IndInv, Prompt
    <3> QED BY <2>1, <3>1, <3>2, Times
  <2> QED BY <2>2, <2>3, <2>4
<1> QED BY <1>1, Invariance, PTL DEF Spec, AgeBounded
=============================================================================
