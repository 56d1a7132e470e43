---------------------------- MODULE CachedSearch ----------------------------
(***************************************************************************)
(* A search of Open Library as both transports make it: the cache in Redis *)
(* first, then the reducer, then the HTTP client.  The process has two     *)
(* dishka containers, one for REST and one for the stream, so two reducers *)
(* over one Redis.  Reducer is used as it stands: a run of it belongs to a *)
(* container and a search.                                                 *)
(*                                                                         *)
(* A value is the search it answers and the time it was fetched.  A        *)
(* command to Redis takes two steps, Redis executes it and its answer      *)
(* arrives; aiocache gives it up after Delay, and Redis may then execute   *)
(* it all the same, at any later time.  Time passes in ticks, but not      *)
(* while a callback of the loop is due.                                    *)
(***************************************************************************)
EXTENDS Naturals

CONSTANTS
    Calls,         \* the calls of search, one each
    Containers,
    Searches,      \* query and offset of the searches (the limit is fixed)
    ContainerOf,   \* the container of each call
    SearchOf,      \* what each call searches
    TTL, Delay,
    MaxTime,       \* the time modelled
    Failure,       \* an exception
    Cancelled,     \* as in Reducer
    None

ASSUME TimeAssumption == {TTL, Delay, MaxTime} \subseteq Nat /\ TTL > 0

Idents == Containers \X Searches
IdentOf == [c \in Calls |-> <<ContainerOf[c], SearchOf[c]>>]
Values == [search : Searches, at : 0..MaxTime]
Outcomes == Values \cup {Failure}
CacheEntries == [value : Values, expires : 0..(MaxTime + TTL)]

ASSUME CallsAssumption ==
    ContainerOf \in [Calls -> Containers] /\ SearchOf \in [Calls -> Searches]
ASSUME MarkerAssumption ==
    /\ Failure \notin Values /\ Cancelled \notin Outcomes
    /\ None \notin Outcomes \cup Calls \cup CacheEntries \cup {Cancelled}

VARIABLES
    running, future, task, joined, got,   \* of Reducer
    cache,     \* the entry of each key and when it expires, or None
    pc,        \* where each call is
    read,      \* what Redis answered to the GET of each call, or None
    due,       \* when the command each call has sent to Redis times out
    late,      \* the calls that gave up a SET which is still on its way
    answer,    \* what each call returned, Failure if it raised, or None
    now

reducer == <<running, future, task, joined, got>>
vars == <<reducer, cache, pc, read, due, late, answer, now>>

Shared == INSTANCE Reducer

\* A key made of the query alone.
BugCacheKey(c) == [SearchOf[c] EXCEPT !.offset = 0]

\* All the arguments of the call.
CacheKey(c) == SearchOf[c]

Entry(value) == [value |-> value, expires |-> now + TTL]

Cached(key) == cache[key] # None /\ now < cache[key].expires

Goto(c, label) == pc' = [pc EXCEPT ![c] = label]

Return(c, outcome) ==
    /\ answer' = [answer EXCEPT ![c] = outcome]
    /\ Goto(c, "done")

Store(key, value) == cache' = [cache EXCEPT ![key] = Entry(value)]

Init ==
    /\ Shared!Init
    /\ cache = [s \in Searches |-> None]
    /\ pc = [c \in Calls |-> "get"]
    /\ read = [c \in Calls |-> None]
    /\ due = [c \in Calls |-> 0]
    /\ late = {}
    /\ answer = [c \in Calls |-> None]
    /\ now = 0

\* A command is sent, to time out Delay from now; it is over.
Send(c) == due' = [due EXCEPT ![c] = now + Delay]
Over(c) == due' = [due EXCEPT ![c] = 0]

\* Redis looks the key up; the answer is on its way back.
Lookup(c) ==
    /\ pc[c] = "get"
    /\ read' = [read EXCEPT ![c] = IF Cached(CacheKey(c)) THEN cache[CacheKey(c)].value
                                                         ELSE None]
    /\ Send(c)
    /\ Goto(c, "read")
    /\ UNCHANGED <<reducer, cache, late, answer, now>>

Forget(c) == read' = [read EXCEPT ![c] = None]

\* A hit that keeps the entry alive.
BugHit(c) ==
    /\ pc[c] = "read" /\ read[c] # None
    /\ Return(c, read[c])
    /\ Store(CacheKey(c), read[c])
    /\ Forget(c) /\ Over(c)
    /\ UNCHANGED <<reducer, late, now>>

Hit(c) ==
    /\ pc[c] = "read" /\ read[c] # None
    /\ Return(c, read[c])
    /\ Forget(c) /\ Over(c)
    /\ UNCHANGED <<reducer, cache, late, now>>

\* There is no await before the reducer has registered or joined the run.
Miss(c) ==
    /\ pc[c] = "read" /\ read[c] = None
    /\ Shared!Call(c)
    /\ Goto(c, "waiting")
    /\ Over(c)
    /\ UNCHANGED <<cache, read, late, answer, now>>

\* Redis is away, or too slow: the exception is the caller's.
GetFails(c) ==
    /\ pc[c] = "read"
    /\ Return(c, Failure)
    /\ Forget(c) /\ Over(c)
    /\ UNCHANGED <<reducer, cache, late, now>>

Start(c) ==
    /\ Shared!Start(c)
    /\ UNCHANGED <<cache, pc, read, due, late, answer, now>>

\* Open Library answers the request of run c, or the request fails.
Fetched(c) ==
    /\ Shared!Finish(c)
    /\ future'[c] \in {[search |-> SearchOf[c], at |-> now], Failure}
    /\ UNCHANGED <<cache, pc, read, due, late, answer, now>>

\* Exceptions cached like results.
BugResume(c) ==
    /\ Shared!Deliver(c)
    /\ Send(c) /\ Goto(c, "set")
    /\ UNCHANGED <<cache, read, late, answer, now>>

Resume(c) ==
    /\ Shared!Deliver(c)
    /\ IF got'[c] = Failure
       THEN Return(c, Failure) /\ UNCHANGED due
       ELSE Send(c) /\ Goto(c, "set") /\ UNCHANGED answer
    /\ UNCHANGED <<cache, read, late, now>>

\* The caller is cancelled while it waits.
Cancel(c) ==
    /\ Shared!Cancel(c)
    /\ Return(c, Failure)
    /\ UNCHANGED <<cache, read, due, late, now>>

\* Storing in a task nobody waits for.
BugSet(c) ==
    /\ pc[c] = "set"
    /\ late' = late \cup {c}
    /\ Return(c, got[c])
    /\ Over(c)
    /\ UNCHANGED <<reducer, cache, read, now>>

\* Every waiter stores the value, so a run may store it several times.  One
\* that waits for Redis stores what it has even over a newer value.
Set(c) ==
    /\ pc[c] = "set"
    /\ Store(CacheKey(c), got[c])
    /\ Goto(c, "stored")
    /\ UNCHANGED <<reducer, read, due, late, answer, now>>

Stored(c) ==
    /\ pc[c] = "stored"
    /\ Return(c, got[c])
    /\ Over(c)
    /\ UNCHANGED <<reducer, cache, read, late, now>>

\* A timeout or an error, with the value stored, on its way or lost (then it
\* stays on its way).
SetFails(c) ==
    /\ \/ pc[c] = "set" /\ late' = late \cup {c}
       \/ pc[c] = "stored" /\ UNCHANGED late
    /\ Return(c, Failure)
    /\ Over(c)
    /\ UNCHANGED <<reducer, cache, read, now>>

\* Redis executes a SET that was given up: the value is old, its TTL new.
SetLate(c) ==
    /\ c \in late
    /\ Store(CacheKey(c), got[c])
    /\ late' = late \ {c}
    /\ UNCHANGED <<reducer, pc, read, due, answer, now>>

Tick ==
    /\ now < MaxTime
    /\ \A c \in Calls : ~(Shared!Waiting(c) /\ future[joined[c]] # None)
    /\ \A c \in Calls : pc[c] \in {"read", "set", "stored"} => now < due[c]
    /\ now' = now + 1
    /\ UNCHANGED <<reducer, cache, pc, read, due, late, answer>>

Terminated ==
    /\ now = MaxTime /\ \A c \in Calls : pc[c] = "done" /\ task[c] \in {"none", "done"}
    /\ UNCHANGED vars

Next ==
    \/ \E c \in Calls :
           \/ Lookup(c) \/ Hit(c) \/ Miss(c) \/ GetFails(c)
           \/ Start(c) \/ Fetched(c) \/ Resume(c) \/ Cancel(c)
           \/ Set(c) \/ Stored(c) \/ SetFails(c) \/ SetLate(c)
    \/ Tick
    \/ Terminated

Spec == Init /\ [][Next]_vars

-----------------------------------------------------------------------------
(* Properties. *)

\* Every variable stays in its type: no exception is ever cached.
TypeOK ==
    /\ Shared!TypeOK
    /\ cache \in [Searches -> CacheEntries \cup {None}]
    /\ pc \in [Calls -> {"get", "read", "waiting", "set", "stored", "done"}]
    /\ read \in [Calls -> Values \cup {None}]
    /\ due \in [Calls -> 0..(MaxTime + Delay)]
    /\ late \subseteq Calls
    /\ answer \in [Calls -> Outcomes \cup {None}]
    /\ now \in 0..MaxTime

\* Nobody is answered with the page of another search, whatever cache and
\* reducer share: the upload walks its pages by offset.
AnswersOwnSearch ==
    \A c \in Calls : answer[c] \in Values => answer[c].search = SearchOf[c]

\* A search that was answered from upstream is cached when its caller has
\* the answer, and stays so for TTL after the fetch: a search that begins in
\* that time sends no request, in either container.
AnsweredIsCached ==
    \A c \in Calls :
        answer[c] \in Values /\ answer[c] = got[c] /\ now < answer[c].at + TTL
        => Cached(SearchOf[c])

\* A caller that was about to store this value got an exception instead.
GivenUp(value) == \E c \in Calls : got[c] = value /\ answer[c] = Failure

\* Every answer is younger than TTL and the time of two commands, that which
\* stored the value and that which read it, though a late waiter may store an
\* old value over a newer one.  An older answer has been seen to fail: a SET
\* of that same value was given up, which Redis may have executed afterwards.
AgeBounded ==
    [][\A c \in Calls :
           answer'[c] \in Values /\ answer[c] = None =>
               \/ now < answer'[c].at + TTL + 2 * Delay
               \/ GivenUp(answer'[c])]_vars
=============================================================================
