# TLA+ development for opcda-bridge

opcda-bridge lets gRPC clients browse, search, read and write OPC DA servers
through a Windows gateway. This directory holds TLA+ modules that model the
gateway's own logic, TLC configurations that check them on small instances, and
TLAPS proofs of the most important results for every instance.

`PROJECT.json` lists the components, the runs with their properties, the source
lines behind every definition (`map`), the hazards the properties were chosen
for, one mutation per property of a passing run, and the theorems.

    tlc -workers 2 -config IndexBuildLifecycle.cfg MCIndexBuild   # a run
    tlapm IndexBuildProofs.tla                                    # a proof

In what follows `index/…`, `browse.rs`, … are files of
`crates/opcda-bridge-gateway/src`.

## 1. Inventory

The repository has four crates: the protocol (`opcda-bridge-proto`, generated
messages), a client library (`opcda-bridge`), a command line client
(`opcda-bridge-client`) and the gateway (`opcda-bridge-gateway`). The gateway is
where things happen at the same time; of library and command line, paging
through a listing and reading a search keep state from one message to the next.

| Part | State it keeps | Operations | What makes it correct |
|---|---|---|---|
| Index build life cycle (`index/enrollment.rs`, `traversal.rs`, `scheduler.rs`, `store.rs`) | SQLite store (enrollment, generations, rows, retry keys); in memory `deleting`, `build_owners`, `active_builds`, file locks, `runtime[server]`, `pending_cancels`, the shutdown flag | Refresh, automatic refresh, Cancel, Delete, opt-in, shutdown, restart, and the steps of a build | a build is alone on its server; a reservation is always released; the index that is served is whole, unique and never lost; deletion, cancellation and shutdown come to an end |
| Adaptive controller (`controller.rs`, its use in `traversal.rs`) | state, limits, hold and recovery deadlines, delay factor | `observe` after a slice or a recovery wait | limits in range; recovery delays honoured; full speed is reached again |
| Pausing (`index/status.rs`, `enrollment.rs`, `traversal.rs`) | `foreground_users`, the copy of it in the build, quiet period, overlays, the native pause | foreground calls, Pause, Resume, maintenance window, health probe, duty cycle | reference counts agree; a pause takes hold |
| Cleanup scheduling (`index/scheduler.rs`) | `cleanup_tasks`, `cleanup_worker_active` | `schedule_cleanup`, the worker with retries and deferral | one worker; no request forgotten |
| Cleanup batches (`index/scheduler.rs`, `store.rs`) | candidates and cursor of a run; tables `generations`, `entries`, `entries_fts` | requests, attempts, discover off the writer gate, delete under it | only obsolete data goes, nothing is left unasked |
| Coordinated inventory (`index/traversal.rs`) | queue of roots, shared flags, registered controls, the merging channel | workers, coordinator, calls on the shared control | what a complete result misses is accounted for; cancellation reaches everybody; everybody is joined |
| Browse sessions (`browse.rs`, `server/service.rs`) | session map, operation locks; native sessions behind them | Browse, Search, CloseBrowseSession, expiry | bounded; no use after close; no open session without an owner |
| Pages of a session (`browse.rs`, `opc_da_adapter.rs`) and the browse command (`commands/browse.rs`, `client.rs`) | page and node tokens, page cache; rows printed so far | a page by token, `--all`, `--refresh`, interruption | no gap, no repetition, fresh when asked for, an end |
| Live search (`server/search.rs`, `client.rs`, `commands/search.rs`) | scopes to visit, items seen, a bounded channel | the breadth-first walk, its reader, a reader that goes away | a verdict that is true; an abandoned search stops and closes its session |
| Indexed search (`index/query.rs`) | result cache | search, invalidation by promotion, deletion and profile change | an answer is whole and current, and holds the best matches |
| Refresh schedule (`index/scheduler.rs`, `status.rs`) | none | windows, jitter, backoff, the sleep of the scheduler, the announced time | arithmetic right at midnight, at the caps and at zero |
| Status (`index/status.rs`) | deletion errors | seven reads of locks and tables, one after another | an index is acknowledged, a failure reported |
| Storage: open, migration, quarantine, recovery (`index/store.rs`) | the database file, its log, the files set aside, file locks | start-up of processes that share a path | choices survive; interrupted builds are closed and reported; a usable database is reached |
| Process and service (`run.rs`, `service.rs`, `main.rs`) | phase, service report, calls in flight, stop signal | start, ready, stop, drain, quiesce | a stop ends the process; what is half-built is accounted for |
| Settings (`config.rs`, `controller.rs`) | none | file → resolved → normalized | floor ≤ canary ≤ ceiling whatever was written |
| gRPC mapping, OPC adapter, host metrics, logging, service installation | none, or the operating system's | – | – |

How the parts interact. A gRPC handler (`server/service.rs`) calls the index
manager, the browse manager or the OPC client. A Refresh call reserves the
server, starts the native inventory and spawns the build task, which reads the
inventory stream, asks the controller for a pace, honours the pauses, writes
batches and promotes. Every foreground call raises a count that pauses the
build. A finished build wakes deferred cleanup and whoever waits to delete;
promotion empties the query cache. The scheduler refreshes old generations by
itself. Shutdown cancels builds and waits for all background tasks.

Hard behaviours. Nearly every structure has a mutex of its own, so one
operation is a chain of short critical sections with awaits in between; whoever
acts between two of them sees half of it. Handler futures are dropped when a
client disconnects. SQLite survives a crash at any step, memory does not.
Native calls on a control are made after the lock that decided them was
released. The list under `hazards` in `PROJECT.json` names the lines.

## 2. Modules and their correspondence to the code

Every module has an `MC…` companion with values for its constants. In a module,
a lock section of the code is one action and an await separates two; names are
those of the source, state variables carry the field they stand for as a
comment. Definitions marked `mutant of` are plausible bugs used to confirm that
a property can fail; `Next` never uses them. Behaviour outside the repository
(the native inventory stream) is external and modelled from its use.

**IndexBuild** – the life of a build. `Tasks` are refresh calls together with the
build each one starts; a task's name also stands for its ownership token and its
control, which the code compares with `Arc::ptr_eq`. Durable and volatile state
are separate, `Restart` keeps the first. Simplifications, all neutral to the
properties:
- `reserve_refresh_build` is one step because it holds `deleting` and `runtime`
  (the one thing it reads earlier, the number of foreground users, is the
  subject of PauseControl); a missing runtime entry equals the default one.
- `StreamEnded` takes the end of the loop together with the sampling of
  shutdown and operator cancel that follows at once; `Settle` takes the close of
  the stream, the flush of the last batch and the dispatch on the outcome.
- `retry_after` is only compared with the clock and becomes `wait`; the snapshot
  the scheduler compares is `seen`, forgotten when the generation changes;
  spawning is refused only by the shutdown; the flag `promoting` is only
  reported; running low on disk during a build changes nothing that the model
  keeps, too little space at the reservation is a refusal (`ReserveDenied`).
- `wait_for_idle` and `wait_for_build_to_finish` register for their
  notification before they check, so their guard alone describes them.
- `Env` says which of plain and forced refresh calls, the scheduler, Cancel,
  Delete, shutdown, clock, panics, database errors and cleanup an instance has.

**IndexCatalog** – the abstract specification of what those who search see: a
server has one index or none, it is the outcome of one complete inventory, with
its exact size; it is published as a whole and withdrawn only by a deletion or a
profile change. **IndexBuildCatalog** maps IndexBuild to it: `served` is the
rows and the row count of the active generation, `surveys` the complete
inventories of builds that may still promote. Everything else IndexBuild does –
failed, cancelled and panicking builds, cleanup, retries, restarts – has to be a
stuttering step.

**IndexSettings** – `resolve_index_config`, `controller_config` and `normalized`:
a setting may be missing, zero or above the native limit, and one may stand in for
another. **AdaptiveController** starts from any such file; instants are kept as remaining time, a measurement as
"foreground work or not, and the worst guardrail level". `due` is a history variable: the time left of the
last hard pause, which the code itself may forget.

**PauseControl** – one server whose builds follow one another. Every lock section
is a step, and so is the call on the control after it. `EndBuild` takes the
clearing of overlays and runtime entry together; a call that still holds the old
control then acts on nothing. A quiet period is "who set it, and has it passed". An
inventory that is not paused puts one event at a time into the stream. `Parties` says who takes part in a behaviour.

**CleanupQueue** – `schedule_cleanup`, the worker flag and the worker. A request
also says that there is something to reclaim; one that arrives during an attempt
may be too late for it. **CleanupBatch** – what an attempt deletes, and the
requests of one server: who makes them (a build that starts a generation, promotes,
fails or is released, and the first open after a restart), when one is taken, what
becomes of it when the attempt meets a build, fails, or ends with something left.
SQLite gives `entries_fts` the rowid after the largest in use, so rowids and, after a
deletion, generation numbers come back; which rows a `DELETE … LIMIT` takes is
open. `gaveUp` is a history variable: the last attempt, or the look for work after a
start, failed. Whether a registered request gets a worker is CleanupQueue's subject.

**CoordinatedInventory** – the queue of roots is a set, since any order can occur.
`register` has three steps (pacing, pause, insertion); pause, resume and pacing
store first and then tell the registered controls one after another, cancelling
tells them all at once because it cannot be undone. A native inventory may be
truncated, and a branch of the root page may have no item_id, so that no worker
starts from it; `Reachable` is what is below the others, and the history variable
`cut` what truncated streams left out. Progress, slice and start messages are left
out.

**BrowseSessions** – a gateway session and its native session share an identifier;
`Abandon` is a disconnecting client: the handler is dropped where it awaits; a
native open or close that is under way is still carried out; what only the handler
knew becomes "lost". A native close may return an error; the session has left the map
by then and nobody tries again ("failed"). A search with a session runs in its own
task; between two pages, and before it closes its session, it waits for its reader
(`Deliver`). Tokens are not here but in:

**BrowsePaging** – the contents of one session: continuation tokens and what each
is bound to (parent, offset, page size), the page cache, the bounded node table,
the operation lock, and `Vanish`, by which the session may be closed or expire.
The number of a native fetch stands for the random tokens of its page. `Retain` is
the `retain` of the code, by recursion over the sequence.
**BrowseCommand** – `cmd_browse` on the client library: one page or `--all`,
`--refresh`, the cap, the checks on a page, interruption. **LiveSearch** – the
search task with its scopes, limits and verdict, the bounded channel, and
`cmd_search` at the other end, which may stop reading or hang up. The events the
command has read are kept, so that a property can speak of all of them.
**BrowseClients** composes the three: commands and a search on one session.

**IndexStatus** – how an index status is put together from the rows, the running
build and the errors, as functions. **QueryCache** – one server, indexed searches and
their status calls. The matches of a query are reduced to the build whose rows
were read and how many of them. A status call is seven separate reads with builds,
promotions, deletions (which may fail) and profile changes in between. Generation
numbers start again after a deletion. The cache is what the code keeps: the keys
in the order of their use (`order`) and the entries (`values`). `cut`, `had` and `failing` are history
flags: the tables were emptied while the search was under way; there was an index,
or an unreported failure, when the status call began.

**IndexRanking** – the answer to one query, as functions: `search_exact` and
`search_prefix` merge two queries that are cut at limit + 1 each,
`search_full_text` keeps a heap of that size. Strings are sequences of code points.
That the range scan finds exactly the strings with the prefix (`RangeIsPrefix`),
that merging cut lists gives the best of all matches (`MergedIsBest`) and that the
heap does, whatever the order of the scan (`HeapIsBest`), is an assumption of
MCQueryCache that TLC evaluates at the start of `query_cache`, over all tables of up
to three of eight rows, all strings of up to two of four characters (`LastChar`,
`FirstSurrogate`, `LastSurrogate`, `MaxLength`, `Tables`), and limits of one and two.
What MATCH finds is any set of rows. For all strings, tables and limits see §4.

**RefreshSchedule** – the arithmetic of the scheduler: windows, jitter, backoff,
the sleep between two passes, what is announced. It has no state and is used by no
run; what is said of it is proved in PacingProofs. IndexBuild keeps of it that a refresh may be
due and a deadline may have passed.

**StorageOpen** – the database file as processes open it, statement by statement:
version, the two migrations, tables, the check that both entry tables hold rows,
the lock probe and the two updates of recovery, quarantine with its rollback. A
process may die between any two statements; what is found at the first start is
one file of any version and state, or none (`OldFilesAssumption`); SQLite's busy answer, a
rename or a write that fails and a crash count as faults. `left` is a ghost variable: the
generations whose builder died or could not write that it had failed.
**GatewayProcess** – the life of the processes around it: configuration, readiness,
what the Service Control Manager is told, calls, stop, drain, the end of background
work. The shutdown's cancel reaches a build or misses it (`reached`), since it looks
for published controls only. IndexBuild has one process and
treats recovery as one step of `Restart`; here recovery is taken apart and a build
is one step of promotion or failure.

Proof modules: **IndexBuildProofs** (with the refinement of IndexCatalog),
**PacingProofs** (AdaptiveController, RefreshSchedule, PauseControl),
**CleanupProofs** (CleanupQueue, CleanupBatch), **CoordinatedInventoryProofs**,
**BrowseSessionsProofs**, **BrowseClientsProofs** (BrowsePaging, BrowseCommand,
LiveSearch), **QueryCacheProofs** (with IndexRanking), **GatewayProcessProofs** (with
StorageOpen). Where one of them extends two modules, the names of the second carry a
prefix (`PauseSpec`, `BatchSpec`, …).

## 3. Runs

| Run | Instance | Properties | Distinct states |
|---|---|---|---|
| `lifecycle` | one server, one call at a time, one item, two generations, everything in `Env` but the clock, one restart, one abandoned call | TypeOK, OneActive, ActiveSurvives, ImplementsCatalog | 1.8 M |
| `two_calls` | two overlapping calls, Cancel, Delete, one abandoned call | BuildsExclusive, NoLeakedReservation, DeletedStaysDeleted | 4.0 M |
| `liveness` | two overlapping calls, one of which may be abandoned, Cancel, Delete, shutdown, panics, clock | DeletionCompletes, ShutdownCompletes, CancelEndsBuild | 0.38 M |
| `adaptive` | 48 settings files, with missing, zero, unordered and excessive settings | LimitsInRange, RecoveryHonoured, ReachesCeiling | 44 k |
| `pause` | two calls, or a call and an operator, beside builds that come and go | CountsAgree, PauseTakesHold | 0.60 M |
| `cleanup_queue` | two servers, two callers, two workers, failures | SingleWorker, PendingIsResumed | 75 k |
| `cleanup_batches` | three generations, three rows, batches of one, deletions, database errors, a restart | DeletesOnlyObsolete, LeftoversAreRequested | 1.8 M |
| `coordinated` | two workers, two roots with a shared item, a branch without item_id, faults, truncation, one caller | CompleteMissesOnlyCuts, CancelReachesWorkers, JoinedBeforeRelease, EndIsReached | 0.89 M |
| `browse` | two calls, two sessions for one place, clients that go away, closes that fail | SessionsBounded, NoUseAfterClose, NativeIsOwned, CallsReturn | 0.95 M |
| `query_cache` | two searches, one key, a cache of one, two generations, two builds, database errors | UndisturbedAnswerIsWhole, IndexIsAcknowledged, FailureIsReported | 7.1 M |
| `paging` | a command and a search on one session; a branch and two items, one item twice; four fetches, a channel of one, one bound token | PrintedIsPrefix, RefreshIsFresh, CompleteSearchIsWhole, CommandsEnd, AbandonedSearchEnds | 0.44 M |
| `storage` | two processes, seven kinds of database found (one is none), two starts, one fault | ChoiceKept, InterruptionIsNoted, StagingHasBuilder, GetsDatabase, StopEnds | 0.47 M |

What the runs show is the `about` text of each in `PROJECT.json`; the comment
above each property says which behaviour of the code it is about. Every state
machine states its type invariant; `lifecycle` checks that of IndexBuild, and
the others can be added to the configuration of their module.

### Bounds, and why they are enough

Two calls meet in every pair of lock sections; a third could only wait for one
of the two. `liveness` has no items and one generation number, since what a
cancelled build has written does not matter to its end; a forced refresh is the call
that nothing but another build refuses. Two generation numbers give one that is served and one that is
built, a third is needed only where numbers are reused during a cleanup
(`CleanupBatch` has three). One item already arrives twice and is lost by a
missing flush; for any items and generations the refinement is proved. Batches of
one make the
cursor matter most. Two sessions for one place give the race of two opens. One
restart, one abandoned call and one failure suffice because each acts on what
the others left; more only repeat that. One bound token and a channel of one are
always full, so eviction and back-pressure happen all the time; four fetches
are enough for a listing of two pages to be fetched again while a command is in the
middle of it. Two starts are a process and its successor, or two processes at
once; a process that found no database, died or was stopped leaves its file to the
second. `MaxFiles` lets each of them create one and set one aside. Bounds are constants tested in guards
(`MaxGen`, `MaxFailures`, `MaxRestarts`, `MaxOrphans`, `MaxRequests`, `MaxRow`,
`MaxRounds`, `MaxBuilds`, `StatusCalls`, `MaxFetches`, `MaxStarts`, `MaxFaults`,
`MaxFiles`, `MaxGens`, `MaxCalls`); `Cap` and `MaxFactor` stand for the widths of
the settings, scaled down. A build that would exceed `MaxGen` is declined like
any other refused call. Symmetry is used for tasks, threads, calls and keys in
runs without liveness only. Only one process serves calls (`MaxCalls`), since a
second one adds nothing to draining.

`CHECK_DEADLOCK FALSE` stands where the system may really come to rest: after a
shutdown, or when no identifier, request or build is left within the bounds.
The controller and the pause model never rest, and deadlock is checked.

### Fairness, and what justifies it

- Tokio and the operating system schedule runnable tasks, and every OPC call has
  a timeout: weak fairness on the steps a task takes by itself, deletions and
  cancellations once accepted, reconciliations, worker threads. In IndexBuild a task
  is in one step at a time, so there is one condition per task.
- Cancellations can miss a build: the last steps of a release find the runtime entry
  and the note by the server's name (§5), and an abandoned reservation is never
  released. DeletionCompletes, ShutdownCompletes and CancelEndsBuild therefore
  suppose that the server has neither (`Astray`), and nothing else.
- Timers fire: weak fairness on `Expire`, `Tick`, retries.
- A cancelled inventory ends its stream; an inventory that is not paused goes
  on. Nothing else is assumed of the native side.
- A Tokio mutex serves its waiters in order: strong fairness on the gateway's own
  steps of a call in BrowseSessions (`HandlerStep`), of which only those that wait for
  an operation lock can be disabled again. Native calls have no timeout there and
  readers need not read: no fairness on either. `CallsReturn` supposes that native
  calls return; a search may wait for its reader, and holds up nobody.
- The lock of a session is a Tokio mutex too: in BrowseClients strong fairness on
  the gateway's and the search's steps. Nothing makes the client of a search
  read, so a search may wait for room in its channel for ever; `CommandsEnd`
  and `AbandonedSearchEnds` hold all the same.
- CleanupBatch assumes none: what it leaves behind is a question of requests.
- In GatewayProcess, for the process that is a service: a build the shutdown's cancel
  found ends and opening goes on. A build it did not find ends in its own time, if at
  all, and nothing makes a call return (the drain of `run.rs:130` has no deadline, a
  stream ends with its reader): `StopEnds` states both as provisos. The last scheduler
  pass tries the database finitely often, hence strong fairness on `Finish`. Nothing starts
  or stops a process; busy answers and failing renames come to an end (`MaxFaults`).
- Nobody has to call, cancel, pause, resume, delete or stop, a foreground call
  may last for ever, and a build need not end by itself. Where a property needs
  it, it says so in its premise (`<>[](building = {})`, `<>[](pressure = Calm)`).

## 4. Proofs

TLAPS checks the following for every set of servers, calls, processes, workers and
items, every configuration and every bound, from the assumptions named in the
modules only. They say that special values are no ordinary ones, that bounds are
naturals, that roles are disjoint, and:
- `BuildAssumption`: the sets of servers and items are finite, there is a server;
- `SettingsAssumption`, `ControllerAssumption`: a setting is missing or a natural
  number, the defaults are naturals, the caps and the largest factor positive;
- `InventoryAssumption`: there are at least two roots (otherwise the code does not
  coordinate) and a worker (`traversal.rs:677`);
- `PagingAssumption`, `SearchAssumption`, `ClientsAssumption`: page sizes, limits, cache
  sizes and the capacity of the channel are positive, a listing is a sequence of nodes,
  the search is none of the commands;
- `NamespaceAssumption`: every branch can be reached from the root by expanding nodes;
  what cannot be reached is not part of the namespace any client can see;
- `RankingAssumption`: the surrogates are an interval between the first and the last
  code point;
- `OldFilesAssumption`: what is found at the first start is nothing or one database
  of the model's kinds, and "cut", a mark of the model, is not in it yet.

Every invariant and every action property that a run checks has a theorem, but for
LeftoversAreRequested. Hardly any
of the properties is inductive as it stands. What has to
be added is named below; TLC checked each invariant on a small instance before it
was proved.

**Index builds** (`IndexBuildProofs`)
- *Typing*: `TypeOK`, with one lemma per group of actions and lemmas on the helpers.
- *Exclusion*: `BuildsExclusive`. When a build releases its lock, nothing in it says
  that no other build relied on the lock. `ExclInv` adds that each reserved build
  sees its lock held as `build`, that two reserved builds of a server are the same,
  and that a deletion past its locking step sees the lock held as `delete`.
- *SingleActive*, *IndexSurvives*: `OneActive`, `ActiveSurvives`. Both follow from a
  description of every step, `ActiveStep`: the set of active generations of a server
  stays as it is, becomes exactly one, or is emptied by somebody with the right to
  do so. It rests on `OwnInv` (until `remove_build_owner` the token of a build is
  registered; a deletion in progress is announced in `deleting`) and `GenInv` (a
  build that writes, promotes or fails a generation knows its number).
- *ReservationsAreReleased*: `NoLeakedReservation`, the converse of ownership.
  `ReleaseInv` adds that `clear_active_build` precedes `clear_build_lock`, and that
  a published control is the build's own or gone, so that
  `build_completion_is_current` never turns the owner away.
- *ConcurrencyIsBounded*: no more builds than `concurrency`, over all servers; the
  set of active builds shrinks or grows by one under the check.
- *DeletionIsFinal*: `DeletedStaysDeleted`, from `StoreInv`: a build finds its
  generation staging until it settles it; what it received is committed or
  buffered; the rows it counted are the rows there are; only a complete inventory
  without a rest is promoted; a number without a generation has no rows.
- *BuildImplementsCatalog*: `ImplementsCatalog`, the refinement. Initial states map
  to initial states; a promotion maps to a publication, because `StoreInv` says that
  the rows are the survey and the count their number; a deletion and a profile
  change map to a withdrawal (`ActiveStep`); every other step leaves both mapped
  variables alone or only adds or drops a survey.

**Pacing** (`PacingProofs`)
- *NormalizedIsOrdered*, *LimitsBounded*, *NoEarlyRecovery*: whatever the file says,
  it is resolved to a raw configuration (`ResolvedIsRaw`), and of every raw
  configuration, one above the caps too, `normalized` yields floor ≤ canary ≤
  ceiling; `LimitsInRange` with `RangeInv` (the configuration stays ordered);
  `RecoveryHonoured` with `RecoveryInv` (`recovery_at` is the deadline of the last
  hard pause while that pause lasts, and the deadline has passed in every other
  state).
- *WindowIsInterval*, *RetryGrows*, *SleepIsZeroOnlyInWindow*, *DueByAnnounced*, for
  all settings, hashes, ages and deadlines. A window is the way of the clock from
  start to end. A retry delay lies between five minutes and a day and grows up to
  the ninth failure, because doubling outweighs a jitter of at most a fifth. The
  scheduler sleeps a minute at most; it does not sleep at all only when an index is
  past its announced time inside an open window – and then goes on without a pause
  for as long as the refresh cannot be started. After the announced time a refresh
  is due; it is due before, too (§5).

**Pausing** (`PacingProofs`) – *ForegroundIsCounted*: `CountsAgree` says
nothing while a call is between its two locks. `PauseInv` adds what holds then: who
makes the copy wrong is the one still to correct it. *PauseTyping*: `PauseTypeOK`.

**Cleanup** (`CleanupProofs`) – *OneCleanupAtATime*: `SingleWorker`.
Two threads that had both won the swap would both spawn, so `FlagInv` extends
exclusion to everybody between winning the flag and giving it back, the guard
included. *QueueTyping*: `TypeOK`. *CleanupSparesLiveGenerations*:
`DeletesOnlyObsolete`, for any number of generations and rows and any batch size. No
fact about the age of the candidates is needed, or true: a candidate may by now name a
generation under construction. What protects it is that each table is looked at again
under the writer gate: `DELETE … LIMIT` takes rows of obsolete generations only
(`GoneRows`), a full-text row goes only if it still belongs to the generation it was
found in and that is obsolete, and so does the generation row. *BatchTyping*:
`BatchTypeOK`, for which the cursor, a maximum, has to be a row (`CursorType`).

**Coordinated inventory** (`CoordinatedInventoryProofs`)
- *WorkersAreJoined*: `JoinedBeforeRelease`, inductive with the types.
- *CancellationIsShared*: `CancelReachesWorkers`, from `CancelInv`: who streams is
  registered, and a cancellation that is over has reached every stream.
- *CompleteIsAccounted*: `CompleteMissesOnlyCuts`, with truncated streams and branches
  without an item_id. `WholeInv` accounts for every reachable item until something is
  lost, and what is lost is never "complete": the item was sent on, or is in the
  channel, or is yet to be sent by a running worker, or below a root nobody took, or
  on the root page to come, or was cut off by a truncation. That nothing at all is
  missing (`CompleteMeansWhole`) is not so (§5).
- *InventoryTyping*: `TypeOK`.

**Browse sessions** (`BrowseSessionsProofs`)
- *NoSessionIsUsedAfterClose*, *NoSessionIsForgotten*: `NoUseAfterClose` and
  `NativeIsOwned`, from `SessionInv`: an open native session belongs to the map or
  to exactly one call, and what belongs to either is open (`OwnInv`), whichever closes
  fail; the lock of a session is held by the call that
  works on it, and nobody works on a session that is still being opened (`LockInv`).
- *SessionsAreBounded*: `SessionsBounded`; the only step that adds to the map looks
  at its size under the lock of the map again, after the native open.

**Clients of a session** (`BrowseClientsProofs`) – *PrintedRowsAreAPrefix*,
*RefreshesAreFresh*, *CompleteSearchesAreWhole*, for every namespace, page size, cache
size and number of commands, from one invariant. The difficulty is that nobody keeps
the facts it has to relate. A binding may be evicted while clients still hold its token
and pages are still cached under it; a search forgets the nodes it has walked; an event
is in one of three places. The invariant therefore says that there are:
- `T`, the place (parent, page size, offset) every token given out so far stands for.
  `PagingOK(T)`: bindings, cached pages, and the requests under way agree with `T`; a
  page holds the children from its place on and its own token stands for the place
  behind it. Only a native fetch extends `T`, at its own new token.
- `CommandsOK(T)`: the rows a command has are the listing up to the place of its next
  token, and with `--refresh` both are younger than the command: a page cached under a
  young token is younger still (`key.token < page.fetch`).
- `L`, the log of all events of the search. `Delivered`: the command has read a prefix
  of it, the channel and the task hold the rest in order. `LogOK`: it reports only what
  was asked for, no item twice, and the counters of the search are those of the log.
- `D`, the parents the search has walked to the end. `Seen`: of every parent in `D`, and
  of the current one up to where the search stands, each child is reported if it was
  asked for, and is in `D`, current or queued if it is a branch. At the end nothing is
  queued, `D` is closed and contains the root, and by `NamespaceAssumption` is everything.

Lemmas on sequences (`Retain`, the newest of a sequence, prefixes, appending to a log)
open the module. `Retain` is a recursive function; what it returns
is proved by induction in the form "a set of numbers has a least element" (`NatInduct`),
since the induction rule itself takes an operator and cannot be used.

**Indexed search** (`QueryCacheProofs`) – *UndisturbedAnswersAreWhole*,
*IndexesAreAcknowledged*, *FailuresAreReported*, from `CacheInv`. The tables
(`TableInv`): one generation is built at a time and above the active one, all its
rows are there when it is promoted. The key to the rest is `Known`: what was once
read as the active generation is that or lies below it, so its number names the
same rows for as long as it is active, although numbers are used again. `SearchInv`
says so of everything a search remembers, step by step of its status call;
`EntryInv` of everything in the cache, unless the search that stored it was
interrupted or the cache is just about to be emptied. No fact about the order of
the keys is needed.

The answers themselves, for all strings, tables and limits:
- *RangeHoldsPrefixes*: between a query and its `prefix_upper_bound` lie exactly the
  strings that begin with it. From the first place where two strings differ
  (`FirstDifference`) and the fact that no character lies between a character and the
  next one, across the surrogates (`NextCharIs`).
- *PrefixAnswersAreBest*, *HeapHoldsBest*: `Top` says that a set holds the n best of
  another. Cutting two sets to their best, merging and cutting again gives the best of
  both; pushing a row keeps the heap the best of the rows scanned. Both need that
  entries with different ids are totally ordered (`BeforeIsOrder`, from the order of
  strings `LessIsOrder`) and that a heap has a worst entry (`WorstIs`). `ORDER BY` with
  `LIMIT`, and the sort in memory, enter as what they yield: the `Top` of their rows.

**Processes and their database** (`GatewayProcessProofs`) – *ChoicesAreKept*,
*InterruptionsAreNoted*, *StagingIsBuilt*, from `GatewayInv`, with any number of
processes and faults. Who builds or probes holds the lock of the server (`LockInv`);
who is connected has a database (`ConnInv`). A file that is being moved aside may
come back, so `FileInv` carries choices and notes over to moved files too, and
keeps the numbers of all files apart. `StageInv` knows for each staging generation
its build, not only that there is one, or that exactly this one was left; a moved file
has only such as were left. `AloneInv`
follows a process that has the database to itself through its recovery: every
staging generation is on its list, and what it is about to close is noted.

Only model-checked:
- everything under fairness (the prover has neither `ENABLED` nor liveness):
  DeletionCompletes, ShutdownCompletes, CancelEndsBuild, ReachesCeiling, PauseTakesHold,
  PendingIsResumed, EndIsReached, CallsReturn, CommandsEnd,
  AbandonedSearchEnds, GetsDatabase, StopEnds;
- LeftoversAreRequested: that a finished run skipped nothing a request does not cover
  relates the cursor to the rowids of all rows a build adds meanwhile;
- of IndexRanking the sequences: that sorting puts the best of §4 into the right order,
  and the shortcut of `search_exact`, which leaves out the second query (`MergedIsBest`,
  `HeapIsBest`). Sorting is a permutation that TLC computes and the prover cannot;
- `TypeOK` of BrowseSessions, QueryCache, BrowseClients and GatewayProcess as far as it
  bounds sequences that are filtered or counters nothing else depends on. The proofs
  above use the types they need.

## 5. Where the code and its documentation disagree

Each of these states its property in the module, under a comment that quotes
the sentence, and has a configuration in which TLC finds the behaviour described.
(StopAlwaysEnds and DeletionAlwaysCompletes quote none: they are properties of §3
without their provisos.) They are run by hand. Where a configuration serves several properties, one is
active and the others stand behind it as comments.

| Configuration | Property | What happens |
|---|---|---|
| `IndexBuildLiveness` | DeletionAlwaysCompletes | `refresh_reserved` awaits the start of the inventory inside the handler's future; when the client disconnects nothing gives the reservation back, and a deletion waits for it without end. The erased note of the next row does the same to a deletion. |
| `IndexBuildRaces` | CancelReachesBuild | `clear_pending_cancel` of an old build (`traversal.rs:2815`) comes after everything else was released and erases the note for the next build. |
| `IndexBuildRaces` | RunningBuildIsReachable | `finalize_owned_build` takes the runtime entry without comparing tokens (`traversal.rs:2809`); after a deletion it can be that of the next build. |
| `IndexBuildRaces` | NoAutomaticFirstBuild | deletion, enrollment and opt-in between the scheduler's look and its reservation (`scheduler.rs:972`); docs/indexing-and-search.md:14. |
| `IndexBuildRaces` | ShutdownKeepsRetryState | a build stopped by the shutdown is finished without error and its retry state reset (`enrollment.rs:140`); docs/indexing-and-search.md:18-21 says it is kept. |
| `IndexBuildRaces` | SearchableDuringRefresh | a changed browse profile drops the served generation before the rebuild (`scheduler.rs:1024`); docs/indexing-and-search.md:16-18. |
| `IndexBuildRaces` | DeleteRemovesRetryState | a Cancel call that passed its checks writes retry state behind the deleting transaction (`enrollment.rs:681`). |
| `AdaptiveController` | DutyFollowsController | the duty cycle in force is the configured one until the first slice, and stays behind after a recovery (`traversal.rs:295`). |
| `PauseRaces` | ForegroundKeepsPaused | the number of foreground users is read before the runtime lock is taken (`enrollment.rs:201`). |
| `PauseRaces` | NoPauseLeftBehind | a pause decided before a resume is applied after it (`status.rs:329`), and the loop waits for an event of a paused inventory until its timeout. |
| `CleanupQueueLostWakeup` | RequestIsServed | a request registered after the scan and before the flag is given back starts no worker (`scheduler.rs:1907`). |
| `CleanupBatchRaces` | NoOrphans | the emptiness of `entries_fts` is taken from the discovery, although a deletion and a rebuild may have given the number to another generation (comment at `scheduler.rs:1386`). |
| `CleanupBatchRaces` | TablesAgree | one table is emptied a batch before the other; a stop in between makes `open_once` (`store.rs:364`) refuse the database. |
| `CoordinatedRaces` | WorkersFollowControl | a worker that reads the setting before a change and registers after it keeps the old one (`traversal.rs:359`). |
| `CoordinatedRaces` | CompleteMeansWhole | nobody starts from a branch without an item_id (`traversal.rs:777-781`); and, with `Truncates = TRUE`, a truncated worker counts as done (`traversal.rs:883`), where a single inventory fails (`traversal.rs:308-313`). |
| `BrowseSessions` | NativeIsClosed | the handler that closes expired sessions, or opens one, is dropped with what only it knew (`browse.rs:433`). |
| `BrowseClients` | TokensAreFollowed | the last request of `--all` asks for fewer children than its token was made for (`commands/browse.rs:127`), and the gateway refuses a token with another page size. |
| `QueryCacheStale` | HitIsCurrent | a search interrupted by a profile change or deletion stores old matches under a number the next build uses again (`query.rs:226`). |
| `QueryCacheStale` | CompleteIsAuthoritative | the generation is replaced and reclaimed between status and query: no match, with the status of a complete index (`query.rs:188`). |
| `GatewayProcess` | StopAlwaysEnds | the drain waits for calls without a deadline (`run.rs:130`) while a search waits for its reader (`search.rs:187`); and the shutdown cancels published controls only (`scheduler.rs:862-871`), so that a build whose entry was taken away (RunningBuildIsReachable) is waited for in its own time. |
| `StorageRaces` | LiveStagingKept | the lock probe of recovery looks once (`store.rs:375`); a build another process starts between probe and update is closed as interrupted. |
| `StorageRaces` | OnlyInvalidMoved | a process that found the file unusable moves what is there by then (`store.rs:1077`), which another process may already have replaced by a good one. |

`DueByAnnounced` proves one more: an index becomes stale, and is refreshed by the
next pass (there is one every minute), when it is older than the interval
(`status.rs:709-718`, `scheduler.rs:969`), while `next_refresh_at` announces the
interval and the jitter. docs/indexing-and-search.md:125 says that an opted-in
index "reports its actual schedule".

A deletion that fails leaves its error in the status until the next deletion of
that server is accepted (`enrollment.rs:550`, `status.rs:520`), also after a new index was
built. No document says how long it should stay; QueryCache has the error, no
property is stated. The same goes for a native session whose close failed
(`browse.rs:149`, `410`, `440`: "failed" in BrowseSessions) and for a generation whose
failure could not be written (`traversal.rs:2849`: in `left`, until the next start): the
code logs the error, and nothing says that it should do more.

## 6. Not modelled

Host metrics, logging, the generated protocol and the installation of the Windows
service wrap the operating system or a library. The mapping to gRPC messages,
reading and writing items, and the client calls other than browse and search are
stateless. Within modelled parts:

- IndexBuild: build telemetry, progress rows, the disk-space guard of a running build.
- CoordinatedInventory: progress, slice and start messages; the sums over workers
  and roots (`traversal.rs:2902`) are reported, nothing is decided by them.
- QueryCache and IndexRanking: what MATCH finds, and the fallback for short
  queries, which is a single SQL statement. IndexStatus: counters, percentiles,
  storage sizes.
- LiveSearch: which names match is a constant; breadcrumbs and progress numbers.
- StorageOpen: the entries, but for whether both tables hold some.
- AdaptiveController: the window of foreground samples (the model lets the
  observation change at any time).
- Settings other than those of the controller; paths and the command line's other
  commands.

## 7. Plan

Order: what a client can lose first. Done: every module of §2 with its runs; the
proofs of §4.

Left are proofs:

1. the safety halves of the liveness properties (who is waited for is not finished,
   and is not waiting for the one who waits);
2. the order within an answer, for which IndexRanking would have to define sorting by
   the position of an entry (how many come before it) instead of by permutation.
