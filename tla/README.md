# A verification project for the library service

TLA+ models of the service in `src/library`: a REST API (Litestar) and a stream
consumer (FastStream on NATS) over one PostgreSQL database, one Redis cache and
the HTTP API of Open Library. TLC checks the models on small instances; TLAPS
proves every safety property they check, the refinements included, for every
value of the constants. `PROJECT.json`
lists the components, the runs, the code each definition stands for, the
hazards, the findings and the theorems.

## 1. Inventory

One asyncio process serves both transports. Everything concurrent happens at an
`await`: of a statement (other requests run, and PostgreSQL may make this one
wait for their locks), of the shared future of a search, of Redis, of Open
Library. Two dishka containers (one for REST, `service.py`, one for the stream,
`app_factory.py`) hold the application-scoped objects, so there are two engines,
two reducers and two HTTP sessions over one database and one Redis; every
request or message has a unit of work, hence a session, of its own. Several
processes may run, die and be started again over the same database, Redis and
stream, and `alembic` migrates the database from outside.

| Component | State | Operations | Talks to | Hard behaviour | What makes it correct |
| --- | --- | --- | --- | --- | --- |
| Books (`endpoints/books.py`, `services/book.py`, `storages/book.py`) | table `books`: title, year, author, `deleted_at`; partial unique index | POST, PATCH, DELETE, GET, list; bulk insert of the upload | unit of work, PostgreSQL | check-then-act at READ COMMITTED, lock waits, deadlocks, lost COMMITs | live keys distinct; deletions final; each answer tells one atomic effect; every request answered |
| Users (`endpoints/users.py`, `services/user.py`, `storages/user.py`) and credentials (`auth/controller.py`, `register_user.py`, `login_user.py`) | table `users`: email, username (two full unique constraints), password hash, permissions, `deleted_at` | POST, PATCH, DELETE, register, login | unit of work, PostgreSQL | two indexes entered in turn; login verifies after its transaction | names distinct, deleted users included; each answer, logins too, tells one atomic effect |
| Unit of work and pool (`domains/uow.py`, `database/uow.py`, `database/utils.py`) | session, transaction, pooled connections | enter, commit, rollback, close | the pool of the engine | pool exhausted, COMMIT raising before close | every request answered; connections come back, those of a COMMIT that raised excepted |
| Reducer (`application/reduced.py`) | `_running`, one future and task per run | call, run, deliver, cancel | event loop | a call during the end of a run; cancellation of one waiter | one run per key; all waiters share its outcome |
| Cached search (`application/cached.py`, `adapters/open_library`) | entries in Redis with a TTL | search | Redis, reducer, client | several waiters store one value, late ones too; commands that time out and are executed all the same | own search answered; age bounded; no exception cached |
| Upload (`upload_books.py`, `handlers/books.py`) | collected books | page, bucket, save | cached search, unit of work | the end of paging; all or nothing | which books an acknowledged event saved |
| Lists (`fetch_*_list`, `count_*`) | none | count and page | PostgreSQL | pages of a changing table | what a walk through the pages may miss or repeat |
| Readiness (`adapters/healthcheck`, `health/controller.py`) | none | probe | PostgreSQL, Redis, the NATS client | hanging dependencies | answered in the time of one check; reports on each |
| Message delivery (`adapters/nats`, `faststream/handlers`) | connection, position of a consumer, unsettled messages, the message in hand | publish, deliver, redeliver, handle, acknowledge, reject, disconnect, reconnect | upload, the NATS server | redelivery, a crash or a restart around the COMMIT, lost acknowledgements, expiry, a connection or a consumer lost for good | acknowledged only when saved; applied whole and only while on offer; every message settled by a process that keeps its consumer |
| Tokens and guards (`auth/controller.py`, `guards.py`) | none (signed tokens) | issue, refresh, check | users | tokens that outlive the rights, the account or the schema they were made from | rights are those the login read; sessions that are not refreshed end for good |
| Start and stop (`service.py`, `app_factory.py`, `di.py`) | two containers, broker | start, call, stop, crash | all | order of shutdown, messages that are handled meanwhile, a stop that raises | a clean exit has closed everything |
| Migrations (`database/migrations`) | schema, `alembic_version` | upgrade, downgrade | PostgreSQL, users | two commands at once, a command that dies half way | the version tells the schema; only a downgrade takes anything of an account |
| Request id, logging, metrics, Sentry, configuration, schemas | – | – | – | – | not modelled, see section 7 |

The hazards (`PROJECT.json`, `hazards`) name the line where each of these hard
behaviours bites and the properties that watch it.

## 2. Modules

| Module | Stands for | Uses |
| --- | --- | --- |
| `PgTable` | a PostgreSQL table with unique indexes at READ COMMITTED: row locks, index entries of open transactions, who decides a conflict, cycles of waits. External, from how the storages use it | – |
| `BookTypes`, `UserTypes` | columns, operations, statuses, assumptions on the constants | – |
| `BookStore` | the books requests, one action per statement | `PgTable`, `Catalogue` |
| `Catalogue` | what the books API promises: every answer is one atomic effect | `BookTypes` |
| `BookStorePool` | `BookStore` on a bounded connection pool | `BookStore` |
| `UserStore` | the users and credentials requests | `PgTable`, `Accounts` |
| `Accounts` | what the users API promises | `UserTypes` |
| `Reducer` | the future, task and waiters of every run | – |
| `SingleFlight` | what a reducer promises: one execution whose outcome all callers of its time share | – |
| `CachedSearch` | cache, reducers and client together, with time | `Reducer` |
| `Pages` | LIMIT and OFFSET, and an order by id | – |
| `Upload` | paging, buckets, one transaction | `Pages` |
| `Listing` | a walk through the pages of a changing table | `Pages` |
| `Readiness` | the probe | – |
| `Lifespan` | a process from start to exit: the containers, what calls open in them, the order of closing | – |
| `UploadDelivery` | the stream, its consumers and the handler, in processes that stop, crash and lose their connection | `Lifespan`, `UploadFeed` |
| `UploadFeed` | what the consumer promises: a message is applied whole, while it is on offer | – |
| `Migrations` | commands of alembic over the two revisions | – |
| `Sessions` | accounts, logins, token pairs and guards beside migrations | `Migrations` |
| `BookStoreProofs`, `UserStoreProofs`, `ReducerProofs`, `CachedSearchProofs`, `ReadinessProofs`, `UploadDeliveryProofs`, `SessionsProofs`, `PagesProofs` | theorems | the module named, `TLAPS`; `BookStoreProofs` also `BookStorePool`, `CachedSearchProofs` also `ReducerProofs`, `PagesProofs` both `Upload` and `Listing` |
| `MC...` | values of the constants for TLC | the module named |

Definitions whose names begin with `Bug` are slips the code could have had; no
specification uses them. Each property is known to fail under at least one
(`mutants`).

### How the state corresponds to the code

*BookStore.* `books` is the committed table; `dirty[r]` and `entered[r]` are the
row versions and index entries of r's open transaction. `pc[r]` is the statement
about to run: `exists` (`exists_book_by_id`), `write` (the UPDATE waits for the
row), `index` (it maintains the unique index), `insert` (the INSERT, one item of
a batch at a time in `at[r]`), `commit` (`__aexit__`). The UPDATE has two steps
because PostgreSQL has two: it takes the row, then enters the index, and may
wait in both. Its effect is computed on the version found after the wait
(EvalPlanQual), which is why a PATCH that waited for a DELETE patches a deleted
row and answers 200. `Abort` is `rollback()`, `close_transaction()` and the exception
handler in one step. One operation is missing by design: a year outside `int4`
fails in the driver with 500, the same transition as `StatementLost`.

*UserStore.* The same statements over two unconditional indexes; a new row version
enters `email` and then `username`, each with its wait (`pc` is the field). A
login reads the credentials (`select`), ends its transaction, and verifies.
Passwords are model values; a hash matches the value it was made of and nothing
else. `UnknownHashError` (an account whose hash is not argon2) is answered as a wrong password.

*Reducer.* `running` is `_running`; a run is named by the call that created it,
`future[c]` is its shared future, `task[c]` its task, `joined[c]` the run a caller
waits for and `got[c]` what it got. `Finish` resolves the future and deletes the
key in one step, as `_runner` does between two awaits; `Deliver` is the done
callback and the wake-up, which come later.

*CachedSearch.* Each await of `wrapped` is two steps: Redis executes the GET (`Lookup`) and
its answer, held in `read`, arrives (`Hit`, `Miss`); the SET is executed (`Set`) and its
answer arrives (`Stored`). Both may be given up from when they are sent (`GetFails`,
`SetFails`) until the timeout of aiocache (`due`) at the latest. A SET that was given
up before Redis executed it joins `late` and is executed at any later time, or never
(`SetLate`). The reducer's actions are used as they stand, on keys made of container
and search. Time is discrete; it stands still while a callback of the loop is due.

*UploadDelivery.* The subscriber (`handlers/books.py`) names a stream but neither
a durable consumer nor a queue group, so NATS makes an ephemeral consumer at every
start, which begins with the oldest message kept: every process is sent every
message, and a restart replays what the last hour holds. `position`, `unsettled`
and `queue` are of that consumer and die with it (`Forget`); `hand`, `step` and
`found` are the handler's, `stream` and `horizon` the server's. `Take` parses the
event and resolves the command from the stream's container, `Collect` is the
search (what it finds is `Upload`'s business), `Save` the transaction (its effect
is that of an upload in `BookStore`), `Ack` and `Reject` what FastStream does when
the handler returned or raised: the log middleware raises what it logged, so a
failed message is terminated and this consumer is not sent it again. `StopBroker`
either waits for the handler or cancels it; a cancelled COMMIT may still have been
done, which is the `Save` that ends in "failed". `saved` and `acked` are history:
no code keeps them.

`link` is the connection. While it is down (`Disconnect`), what the server sends is lost
(`DeliverLost`) and what the client settles reaches the server later or never (`Settle`,
`SettleLost`). It ends in one of three ways (`Mends`): the client is back in time and the
consumer is there; the client is back and the server has dropped the consumer of a
client that was away too long, which is ephemeral; or `max_reconnect_attempts` are used up
(`broker.py:31`), and the client closes its subscription. After the last two nothing is
ever delivered to this process again (`"gone"`), and it goes on serving REST: no code
watches for it.

*Lifespan.* `phase` is where `lifespan` of `service.py` stands, `opened` what each
container has made lazily, `calls` the kinds of REST call under way (uvicorn lets
them end before it shuts down). `StopRaises` is line 76 raising, after which line
77 is not reached and the process exits with the REST container open.

*Sessions.* A token is a record of what it says; nobody stores tokens, so any
token ever issued may be presented. `login` and `pending` hold what the request
read between its transaction and its answer; `login` is kept as history to compare
tokens with. GET /auth/me and /auth/admin-zone change nothing and are predicates
of a token (`RetrieveUser`, `AdminZone`). A statement on `users` waits while a
migration has the table locked, and fails while columns are missing.

*Migrations.* One transaction for all revisions of a command (`env.py`), in which
each revision's statements are followed by the UPDATE of `alembic_version`. The
first DDL takes the locks (`locker`); `draft` is the database as that transaction
sees it. A second command that planned from the same version fails on the
statement that finds its object there already, or gone.

*BookStorePool.* `connected` holds the requests whose session has a connection,
`abandoned` those of them whose COMMIT raised: `__aexit__` then skips
`close_transaction()`, nobody closes the session, and its connection comes back when
the garbage collector finds it (`Collect`), which nothing makes it do.

*Upload, Listing, Readiness* are described in their headers.

## 3. Runs

| Run | Instance | Shows |
| --- | --- | --- |
| `books_safety` | 3 requests, 11 operations, 5 ids, 2 titles, 2 initial tables | keys distinct, deletions final, `Catalogue` implemented; who can be in a deadlock, and that one without a PATCH takes uploads of the same books in different orders (60 thousand states) |
| `pool` | 3 requests, 2 connections; PATCHes that deadlock, two uploads in opposite orders | every request is answered, deadlocks and connections lost to the pool included; every other connection comes back |
| `users_safety` | 3 requests, 11 operations | names distinct, `Accounts` implemented |
| `reducer` | 4 callers, 2 keys | one run per key, `SingleFlight` implemented, every caller answered |
| `cached_search` | 4 callers, 2 containers, 2 pages, TTL 1, timeout 1, 3 ticks | own answers, bounded age, nothing but values cached (3 million states) |
| `upload_pages` | all upstreams of up to 5 documents, pages of 2 | exactly which books are saved |
| `upload_all` | the same | finding: an authorless document ends the search early |
| `listing_books` | 4 rows, pages of 2, 3 changes | a walk misses only for deletions, repeats only for creations |
| `listing_users` | the same without an order | finding: a PATCH between two pages is enough to miss a user |
| `readiness` | 3 checks, 3 changes | answered in the time of one check |
| `upload_delivery` | one process that stops, crashes and restarts; 2 messages, one of which may be unreadable; 2 books; 2 copies, 1 broken connection | acknowledged messages are saved, `UploadFeed` implemented, a clean exit closed everything, every message is settled by a process that keeps its consumer (770 thousand states) |
| `sessions` | one account, 2 logins, 3 rights, 2 commands of alembic, 3 ticks | the rights of a session, its end, the schema under migrations, and that only a downgrade takes anything of an account (700 thousand states) |

### Bounds, and why they are enough

* *Three requests.* The interesting histories of a table need two that conflict
  and a third that acts between them (delete between check and act, take the
  key a rollback frees); a cycle of waits needs two, and three allow a cycle of
  three.
* *Opposite uploads*: two uploads of the same two books in either order, which
  Open Library's answers allow; sets of uploads that wait for each other do occur.
* *Five ids* (four in `pool`): the two rows of the initial table and one for each row three
  requests can still insert in the cases that differ. An upload of two books
  and a POST use three; ids are interchangeable and used symmetrically.
* *Two values a column and one that is too long*: keys are only compared.
* *Pages of two, up to five documents*: an empty page, a short one, a full one,
  and a full one followed by each of these.
* *Four callers of a reducer*: the creator, one that joins, one that is cancelled,
  one that comes when the run has ended.
* *TTL 1, timeout 1, three ticks*: an entry expires; a value is stored as late as it
  can be, and read as late as it can be after that, so an answer reaches the age
  `AgeBounded` allows; a SET that was given up is executed after newer values were
  stored, and makes an older answer, which the property says is possible.
* *Two connections for three requests*: a lock wait and a wait for the pool at once.
* *One process, two messages, two copies, one broken connection*: a message replayed to a process
  that has saved it already, in front of and behind the other one; a copy queued
  while another is in hand; an acknowledgement lost after the COMMIT; a message lost on the way to
  the process. Two breaks were checked without REST calls, with the same result. Two
  processes were checked with one message; the theorems hold for any number.
* *Access tokens for 1 tick, refresh tokens for 2, 3 ticks*: the access token
  expires first; a refresh at the last moment, and a pair that dies unrefreshed.
* *Two logins, two commands*: one session refreshed while the other is left alone; two
  upgrades, or an upgrade and a downgrade, at once. Both pairs are interchangeable
  (`SYMMETRY`; the run has no liveness property).

Bounds in guards are `MaxTime` (CachedSearch, Sessions), `MaxChanges` (Listing and
Readiness), `MaxCopies` and `MaxBreaks` (UploadDelivery). Every other model is finite because each request runs once.

### Fairness

* `PoolFairSpec` of BookStorePool: weak fairness of what a request does by itself, on
  a connection or waiting for one. The loop runs every ready task and the
  server every statement that waits for nothing; the deadlock detector fails a
  statement of a cycle after `deadlock_timeout`; the timer of the pool runs
  out unless a connection comes first (`pool_timeout`). Sessions that nobody
  refers to need never be collected: the pool may lose a connection for good to
  each COMMIT that raised. Nothing forces a request to arrive or a connection
  to fail, and there is no fairness between waiters: a newcomer may take the
  connection a waiter was woken for.
* The reducer's: the loop runs tasks and callbacks that are due; the search ends,
  since aiohttp limits every request in time. Callers need not come, nobody
  need be cancelled.
* `FairSpec` of UploadDelivery: the server sends what is due over a connection that is up
  (`Deliver`, and `Redeliver` once `ack_wait` has passed); a connection that is down is
  restored or given up, since the client tries a limited number of times (`Mends`, with no
  claim which); a search ends (aiohttp and aiocache limit it), and the client settles what
  the handler returned or raised. A transaction need not end: the engine has no
  `command_timeout` (`database/utils.py:30`). Nothing publishes, calls, stops, crashes or
  restarts by force. So `EveryMessageSettled` has a premise, that no transaction of the
  process hangs for ever, and speaks of a process only as long as it serves and has not
  lost its consumer (`Listening`), and of a message only as long as it is kept.

## 4. What is proved

All proofs hold for every value of the constants that meets the named assumptions:
texts are cut to storable ones and markers are no values (`CutAssumption`,
`MarkerAssumption`, `NoneAssumption`, ...), operations and initial tables are legal
(`OpsAssumption`, `SeedsAssumption`), lifetimes and timeouts are numbers and a TTL or
the timeout of a check is not zero (`TimeAssumption`, `TimesAssumption`: `runner.py:12`
has 2.0 seconds, the lifetimes of tokens are configured in seconds). The
inductive invariants below also hold on the instances of the runs, as far as TLC
can evaluate them (quantifiers over `Nat` and `Seq` bounded).

* `TypeCorrect`, `KeysStayDistinct` (`BookStoreProofs`). `LiveKeysDistinct` is not
  inductive: a COMMIT may publish anything its transaction wrote. `IndInv` adds
  what the index guarantees of open transactions. `TableInv`: a row has one writer,
  an index entry one owner; an entry of a committed live row is only owned by that
  row's writer; no transaction wrote a key twice. `ControlInv`: what a transaction
  is about to commit is covered by its entries, a request before its first
  write and after its answer holds nothing, an UPDATE holds exactly its row.
  The proof goes by what the table's operators keep (`CommitKeeps`, `WriteKeeps`,
  `EnterKeeps`, `AbortKeeps`), then one step per action.
* `DeletionsAreFinal`. `DeletionInv`: a marked row stays marked in every version any
  open transaction holds (so a PATCH keeps the mark), a DELETE before its commit
  holds a marked version, and an answered 204 has a marked row.
* `BooksServedAtomically`: `BookStore` implements `Catalogue`. `IndInv` says which
  locks a transaction holds and not what it wrote, so `EffectInv` adds, for each
  kind of request, that its open versions are what it asked for and nothing
  else (`Wrote`), and that it has not been answered before its commit (`Progress`).
  A COMMIT is then the one effect its answer tells (a lost one that effect or
  none), every other step a stutter or an answer without effect; the reason a
  conflict is answered with is still in the table or in an open transaction.
* `DeadlocksTakeDisorder`. Nothing sorts a batch: it has the order of Open Library's
  answers, so uploads can deadlock, and the theorem says when. Who is in a cycle is
  waited for, hence holds something, and waits (`CycleHasPredecessor`, `BlockerHolds`,
  `VictimHasWorked`): a PATCH at the index, or an upload past its first book; a create, a
  deletion and an upload of one book are never failed by the detector. A set of requests
  in which each waits for one of the set, without a PATCH, is of uploads
  (`WaitsForUpload`), each of which wants a key the next one entered earlier in its batch
  than the key that one wants. If all of them saved the books they share in one
  order, one of the wanted keys would be the last, but each of them is
  saved before another one of them (`KeysGoUp`); so they disagree (`StuckDisagrees`).
* `NamesStayDistinct`, `TypeCorrect` (`UserStoreProofs`). A row goes through two indexes,
  so between the two a transaction owns one name and may still lose the other.
  `WritesCovered` says of every index passed that the name is entered or is the one
  the row had before (a DELETE enters nothing); `OneRow`, that a transaction of
  this service writes one account; the rest is as for the books.
* `AccountsServedAtomically`: `UserStore` implements `Accounts`. Its `EffectInv` also
  says which of the indexes have been entered, with what (`EnteredPassed`), and that
  the credentials in the hands of a login were an account's at the instant it
  read them (`LoginRead`), which is the instant it takes effect.
* `NeverTwoRuns`, `RegistryIsExact`, `TypeCorrect`, `ImplementsSingleFlight` (`ReducerProofs`). The inductive invariant
  ties `_running` to tasks and futures: a key is registered exactly while its
  task has not ended, and a future is resolved exactly when it has. The
  refinement maps a run that has ended to its outcome and a caller to the run it
  joined; every step is a step of the contract or a stutter.
* `AnsweredOwnPage`, `AnswersAreKept`, `AnswersAreFresh`, `TypeCorrect`,
  `OneRequestPerPage` (`CachedSearchProofs`). Every step of a search is a step of the
  reducers or leaves them alone, so `ReducerProofs`, instantiated, gives the
  invariant of the reducers; `Placed` ties a call's place to its place there. Ages:
  an outcome is delivered at the time it was fetched (`Prompt`), and stored within
  `Delay` of that unless the SET was given up, so an entry expires within TTL + `Delay` of
  the fetch or its value is one that was given up (`CacheIsTrue`); an answer of Redis is
  read within another `Delay` (`ReadInTime`). An entry never expires before TTL,
  because a later store, late ones included, only moves the expiry on (`KeptForTTL`).
* `ProbeIsBounded`, `ReadyWasUp`, `ReportsAreTrue` (`ReadinessProofs`). All checks start
  before time passes, so the probe's clock is every check's (`ChecksEnd`); what a
  check reports held of its dependency at some moment (`Observed`).
* `AcknowledgesSaved`, `CleanExitCloses`, `TypeCorrect`, `DeliveryImplementsFeed`
  (`UploadDeliveryProofs`). The invariant says that the message in a hand at "saved"
  was committed (`SavedBeforeAck`), what it is about to save is one answer of Open
  Library (`FoundIsResult`) and nothing is held that was not published
  (`HeldWasPublished`). The refinement: a step that neither publishes, saves,
  acknowledges nor deletes can only take messages off offer, which is `GiveUp`.
* `RightsStayThoseRead`, `AdmittedByRefresh`, `AdmittedByRight`, `SessionsEnd`
  (`SessionsProofs`). Beside the types and the rights, the invariant says that
  tokens are issued in pairs (`IssuedInPairs`): for every token there is a refresh token
  of the same login and moment, which is what `SessionsEnd` needs, for a session
  whose last token expired has none left to be refreshed with.
* `SessionsTypeCorrect`, `VersionsTellSchemas`, `AccountsOutliveUpgrades`
  (`SessionsProofs`). In the middle of a command the draft agrees with no version, so
  `DatabaseInv` looks ahead: the statements a command has left, run from its draft
  (or, before it has the locks, from any database that agrees with its version),
  end in one that agrees (`EndsWell`, over every course they can take). An
  upgrade drops nothing (`Raises`), and a downgrade ends in an older version
  (`Lowers`), so that what a COMMIT lost was lost by a downgrade; and a command that
  ends in no older version leaves every row as it is, hash and rights included
  (`CommandsKeepRows`).
* `UploadSavesThroughGap`, `UploadStopsInTime` (`PagesProofs`). `UploadInv`: while searching,
  the collected documents are those of the queries before, up to their gaps, and those
  of this query before the offset, all with authors; a page that is full leaves no
  gap behind it and one that is short ends at the gap (`LastPageEnds`); while saving,
  the transaction has inserted the buckets before the next one, and all the buckets
  together are all the books (`BucketsHoldAll`: where `range` would stop early, this fails).
* `WalksMissForDeletions`, `WalksRepeatForCreations` (`PagesProofs`), of lists ordered by
  id. Neither property is inductive, since a row not listed yet is no miss.
  `WalkInv` compares ranks with the offset: no more rows of those there from the
  start were passed over unlisted than were deleted, for a deletion moves one
  row at most behind the offset; and a row still ahead of it was listed no more
  often than rows were created, for only a creation moves a row forward again
  (`RankMoves`). The list of users has no order, and no such theorem: see section 6.
* `PoolImplementsBookStore`, `PoolKeepsKeysDistinct`, `PoolServesAtomically`
  (`BookStoreProofs`). Running out of connections is, to the store, a statement
  that was lost; all that is proved of `BookStore` carries over.

## 5. What is only model-checked

Liveness (`EveryRequestAnswered`, `EveryCallerAnswered`, `ConnectionsComeBack`,
`EveryMessageSettled`), which is out of the reach of the prover: it has no rules for
fairness. `UploadDelivery` leaves to its run that the events of `Upload` and the
transactions of `BookStore` are the ones it stands for; each module is proved by itself.

One restriction of the prover shaped the models. It cannot unfold the recursive
definitions of the library (`SelectSeq`, `SetToSortSeq`, `FlattenSeq`), so an order is
`InOrder` (the number of a given rank), the kept part of a page its positions in
order, and the plan of a command two cases; TLC found the same states as before.

## 6. Findings and remarks

Two disagreements are recorded as violation runs: the upload that stops at the
first page with an authorless document, and the list of users without an
order. A third needs no run: DELETE of a user that does not exist answers 404, and
so say the tests; `src/api.yaml:162`, the sketch the service grew from, says 204.

Not recorded as findings, since nothing in the repository says otherwise, but seen:

* a PATCH that overlaps a DELETE may answer 200 after it, and two overlapping
  DELETEs both answer 204 (`Catalogue` says so explicitly);
* a PATCH of a user to a name that is taken is answered 500, not 409
  (`storages/user.py:119`);
* a waiter that is slow to reach Redis may store an older value over a newer
  one; an answer is younger than the TTL and two timeouts of aiocache all the same,
  unless a SET was given up that Redis executed later: then it may be of any age;
* two uploads that save the same books in different orders can deadlock, and one of
  them is terminated; a sorted batch could not (`DeadlocksTakeDisorder`);
* a process whose NATS client gave up, or whose consumer was dropped while it was away,
  goes on serving REST and uploads nothing until it is restarted. The readiness check
  can see the first, not the second;
* a statement whose answer never comes hangs its handler and the messages behind it;
* each COMMIT that raises may cost the pool a connection until the garbage collector
  finds its session;
* the readiness check of NATS reads the client's idea of its connection and
  never asks the server, so `ReadyMeansUp` speaks of the other two;
* POST /auth/refresh never looks at the account: a deleted user, or one whose rights were
  taken away, keeps a session as long as it is refreshed (`RightsOfTheLogin` and
  `AdmitsWhileRefreshed` say exactly this much and no more);
* an upload that fails is terminated and lost until some process restarts within
  the hour; and every restart applies the messages of the last hour again, which
  brings back books deleted meanwhile (`UploadFeed` says so);
* when `faststream_app.stop()` raises, the REST container is not closed;
* a client of the lists that stops at `total` may miss a book even when nothing is
  deleted; one that stops at the first short page does not.

## 7. What is not modelled

Hashing, signatures, the wire and the serializers; validation (what the schemas
refuse reaches no handler and is not among the operations); `created_at` and
`updated_at`; alembic's offline mode, which prints SQL; `any_permission_guard`, which guards
no route, and the paths that ask for no token; configuration, logging, Sentry, Prometheus, compression, CORS, the
request-id middleware; the rate limit (a counter in memory of a library).
Reads by id are a single statement and appear as `Live`.

## 8. Plan

Done: all components of section 2, with a proof of every safety property some run
checks. Next, in this order:

1. What a GET by id or a page of the lists returns beside writes, as an answer of
   `Catalogue` and `Accounts` of its own.
2. `Upload` as an implementation of the uploads of `BookStore`, bucket by bucket,
   so that `UploadSavesThroughGap` speaks of the table the requests share.
3. `DeadlocksTakeDisorder` behind the pool, with the waits for a connection as
   edges of the cycle.
4. A client of the lists that stops at `total`, and what it may miss.
