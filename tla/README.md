# Verification of django-denorm-iplweb

TLA+ models of the parts of `django-denorm-iplweb` that are concurrent or
stateful, TLC runs that check them on small instances, an abstract contract of
the library that the detailed flush engine is shown to implement, and TLAPS
proofs about the flush engine, its outer loop, the queue, ORM saves, deferral,
aggregates and the triggers, for any number of writers, workers, rows and
columns and any declarations over any schema.

The library keeps *denormalized columns* (computed from other columns by a
user's function) consistent. PostgreSQL triggers insert a **marker**
(`DirtyInstance`: content type, object id, function name, or `NULL` for the whole
object) when something a function reads has changed; `flush()` claims the
markers of an object, recomputes and saves it. Aggregates (`CountField`,
`SumField`) and cache keys are kept by triggers alone.

## 1. Inventory

| Component | State | Operations | Talks to | Hard behaviour |
|---|---|---|---|---|
| **Flush engine** `denorms/__init__.py` | marker table, row locks, the in-memory instance and its cached relations, a pass counter | `mark_dirty`, `flush`, `flush_single`, `_claim_and_delete_markers`, `_build_save_kwargs` | triggers (by writing rows), ORM, retry | workers and writers interleave on READ COMMITTED; markers are deleted before the work; reuse of an instance; coalescing inserts; deadlocks; rows locked elsewhere; functions that never settle |
| **Marker triggers** `dependencies/*`, `denorms/callback.py`, `db/*` | installed triggers | INSERT marker ON CONFLICT DO NOTHING, WHEN old is distinct from new | marker table and its unique index (migration 0017) | the index makes inserts wait; what a nested SELECT sees; watch-lists |
| **Trigger set** `db/base.py`, `db/triggers.py`, `denorms/triggerset.py`, `apps.py` | the registry of declarations, the triggers in the database | naming, merging, `install`, `drop`, `rebuildall` | marker triggers, content types | two triggers of one name merged; triggers that outlive their declaration; a drop and an install in two transactions |
| **Dependency resolution** `dependencies/base.py`, `helpers.py` | none | `resolved_model`, `find_fks`, `find_m2ms` | trigger set | forward, backward, recursive and generic relations told apart |
| **Denormalized fields** `fields.py` | value remembered on the instance during one save | `pre_save`, `_drop_redundant_self_markers`, `_clear_denorm_pre_save_cache` | user functions, deferral | stale instances, partial saves, saves that fail; a marker dropped though it is needed |
| **Cache keys** `dependencies/cachekey.py`, `fields.py` (`CacheKeyField`, `CachedField`) | a random column, a value in Django's cache | triggers that give a row a new key; lazy fill of the cache | triggers, cache | triggers fire triggers; a value computed from an old instance under a current key |
| **Queue** `management/commands/denorm_queue.py`, `tasks.py` | LISTEN connection, Celery messages, singleton locks, chords | listen loop, `flush_via_queue`, `flush_batch`, `_flush_requeue` | NOTIFY trigger (migration 0019), flush engine, Celery, Redis locks | lost and deduplicated notifications, lost chords, killed workers, leaked and expired locks, poison pairs |
| **Aggregates** `denorms/aggregate.py`, `fields.py` | the aggregate column | triggers on the related and on the through table, `AggregateField.pre_save` | owners' rows | concurrent increments, moves, filters, saves of old instances, constraints, write skew over two tables |
| **Deferral** `deferral.py` | frames in a `ContextVar`, a shared collector | `deferred`, `defer_pre_save`, `_write_markers`, `_write_markers_after_error` | `pre_save`, transactions, eager | nesting, exceptions, doomed transactions, crashes |
| **Eager / always dirty** `eager.py`, `always_dirty.py` | thread-local flag | post_save handlers | flush, deferral | order of handlers, re-entrancy |
| **Retry** `retry.py` | attempts | retry on 40001/40P01 | flush engine | outer transactions, the last failure |
| **Middleware** `middleware.py` | none | flush or dispatch after a response | flush, queue | reads of the caller's own writes |
| **Other commands** `denorm_flush`, `denorm_rebuild`, `denorm_init`, `denorm_drop`, `denorm_rebuild_triggers` | none | | flush, trigger set | crashes between two steps |
| System checks, views, templates, migrations, progress display | none | | | |

What makes each correct:

* flush engine: a stale column is always marked; the table drains; workers
  exclude each other on a row; the locked row does not change under a worker;
  a `flush()` that returns has flushed what its caller had marked, and every
  `flush()` ends, unless an open transaction keeps it waiting;
* trigger set: whatever a declaration depends on, through whatever relation and
  after whatever merge, a change of it leaves a marker or a new key; no function
  marks itself for ever; `rebuildall` makes up for what was missed;
* fields: what `post_save` drops is redundant, what is saved is fresh unless the
  instance is old;
* cache keys: what is stored under a row's current key is its value;
* queue: every marker is flushed in the end, whatever is lost; passes are
  bounded; a poison pair holds nobody up; copies of a call do not pile up;
* aggregates: the committed column is always what a computation from scratch
  returns, and the triggers never break a statement of the application;
* deferral: a column committed without its value is marked, or a block that is
  still open will mark it.

## 2. Modules

| Module | What it is |
|---|---|
| `Invalidation` | abstract: what the marker table promises, without transactions, locks or workers |
| `DenormFlush` | `flush_single`, the triggers' inserts, writers; transactions in full; implements `Invalidation` |
| `DenormFlushInv` | its inductive invariant |
| `DenormFlushProofs` | proofs: types, locks, stages, index, exclusion; no invalidation is lost, redundancy, stable rows; `DenormFlush` implements `Invalidation`, which keeps its promise |
| `DenormFlushLoop` | the outer loop of `flush()`, retry, middleware and commands |
| `DenormFlushLoopProofs` | proofs: the caller reads its writes, `flush()` gives up for a cause only |
| `DenormTriggers` | from declarations to triggers; installation, deployments, `rebuildall` |
| `DenormTriggersProofs` | proofs: the triggers cover the declarations, `rebuildall` makes up for what was missed |
| `DenormSave` | saves of model instances; `CachedField` |
| `DenormSaveProofs` | proofs: a stale column, or a wrong value under a current key, has one of the named causes |
| `DenormQueue` | daemon, Celery tasks, singleton locks, chords, failures |
| `DenormQueueProofs` | proofs: passes are bounded, one copy of a call at a time |
| `MaterializedAggregate` | abstract: every state has exact aggregates |
| `DenormAggregate` | aggregates over a foreign key; implements the above |
| `DenormAggregateProofs` | proofs: the columns stay exact, no decrement is refused |
| `DenormManyToMany` | aggregates over a ManyToMany relation |
| `DenormManyToManyProofs` | proofs: the columns drift, and a trigger is refused, through one race only |
| `DenormDeferral` | `deferred()`, eager and always-dirty handlers |
| `DenormDeferralProofs` | proofs: deferral loses no marker, eager mode settles |
| `MC*` | instances for TLC |

The modules meet where one's action is another's detail: `DenormFlushLoop` and
`DenormQueue` take a `flush_single` in two or three steps whose detail is
`DenormFlush`; `DenormFlush` takes the dependency graph as a constant, and
`DenormTriggers` shows that the triggers the code builds follow that graph;
`DenormSave` has the application's ORM saves, which `DenormFlush` replaces by
plain statements.

### 2.1 DenormFlush

Each transaction (application *writer* or flush *worker*) has its uncommitted
work: columns written (`buf`), rows deleted (`gone`), markers inserted (`ins`)
and deleted (`del`), and the marker inserts of its last statement's triggers
still to run (`todo`). `View(t)` is what a statement of `t` sees. `lock` are row
locks. A marker key is a denormalized cell (content type, pk, function) or an
object (function `NULL`). `COMMIT` is `Publish`, every end is `End`.

| Code | Actions |
|---|---|
| application statement | `WriterStatement` (asks for the row), `WriterUpdate`, `WriterDelete`, `WriterNoRow`, `WriterCommit` |
| `mark_dirty` | `MarkDirty` |
| a trigger's INSERT ... ON CONFLICT DO NOTHING | `InsertMarker`: inserts, coalesces, or waits on the unique index |
| `flush`: stream of distinct pairs | `Pick` |
| `flush_single`: SELECT FOR UPDATE SKIP LOCKED, missing row | `SelectForUpdate`, `LockedElsewhere`, `RowDeleted`, `OrphanClaim` |
| claim, convergence loop | `Claim`, `PreSave` (one function at a time), `Update`, `PostSave`, `Reclaim`, `WorkerCommit` |
| deadlock detector and retry, crash | `DeadlockAbort`, `Crash` |

`coal` remembers inserts that found a committed marker; `lost` is a history
variable: the invalidations whose marker was claimed by *another* transaction
before the one that coalesced committed. It is exactly the known gap of the
protocol (finding `coalescing`), and the properties about staleness except
nothing else.

Abstractions: a function's queries are one step; the order in which `pre_save`
visits fields is arbitrary; the dependency graph is a constant (foreign keys
do not move); rows are deleted, never inserted; application writes bypass the
ORM, so that only triggers see them; the exact SQL is left out.

**The contract.** `Invalidation` has three variables: the columns everybody sees,
the recomputations owed, and the invalidations lost. `Write` may turn columns
stale only if it marks them; `Flush(o)` writes columns of `o` only and strikes
off markers of `o` only, leaving `o` settled. `KeepsContract` is
`Invalidation!Spec` with `db` the committed columns, `markers` the committed
markers and `lost` the history variable: a commit of a writer is a `Write`, the
commit of a worker a `Flush` of its row, everything else stutters. The
refinement is checked by the run `core` and proved by `Implements`.

### 2.2 DenormFlushLoop

A key names a marker, `Of` its row. Every transaction, a `flush()` or one of the
application, has the markers it has deleted (`claimed`) and inserted (`ins`)
uncommitted, and those its last statement's triggers are still to insert (`todo`).
`InsertMarker` is one such insert: it waits (`Blocked`) while another transaction
has an uncommitted insert or claim of the same marker, else it inserts or finds
the marker there. `Begin` starts a `flush()` for
`Response` (the middleware, whose three modes are inline, dispatch and none) or
`Command`; `Loop` is the head of the `while` (`AtCap`, `Pass`), `NextRow` and
`EndPass` the stream of pairs, `SkipLocked`, `TakeRow` (`Claim`), `Recompute` and
`EndSingle` one `flush_single`, whose save marks what `feeds` says depends on the
row. A deadlock on the index (`Deadlocked`, `DeadlockAbort`) or another
serialization failure (`Retryable`) is a rollback and another
attempt while the budget lasts (`MayRetry`), never inside an outer transaction,
whose `OuterCommit` comes after `flush()`; `Fails` is an error that is not
retryable and raised at once. `AppStatement`, `AppCommit` and `AppRollback` are
the application's other transactions: a statement locks rows and its triggers
insert markers, which nobody sees before the commit but every other insert of
them waits for. `owed` and `skipped` are history: what the caller had marked and
nobody has claimed and committed
since, and whether a locked row was met. `Layered` says that the rows can be
put into no more layers than `flush()` makes passes, so that each feeds higher ones
only: it is false of a circle and of a chain longer than the cap, and
`GivesUpForCause` names it as the first of three causes.

### 2.3 DenormTriggers

A declaration is a record (model, column, function, declared fields, related
declarations, `skip` and `only`); `Candidates` and `Relation` resolve it,
`ForwardTriggers`, `BackwardTriggers`, `M2mTriggers`, `GenericTriggers`,
`FieldTriggers` and `SelfTriggers` build its triggers, `Merge` merges those of one
`Name`, `Build` is `build_triggerset`. `When`, `Targets` and `Done` are what a
statement fires, with a `Cascade` for the keys that triggers write. Statements
are `Insert`, `Update`, `Delete`; `Flush` saves the columns of the claimed markers
and fires the triggers in its turn. `Deploy` changes the code, `DenormInit`,
`DenormDrop`, `RebuildTriggers` and `ReinstallTriggers` the triggers, `RebuildAll`
and `RebuildBatch` mark every row in batches, `Renumber` gives content types new
ids under the triggers' feet, `Crash` ends a command half-way.

`Cascade` is the least set
of events that contains the statement and every write of a key that a trigger
fired by one of them makes.

What a column *should* be invalidated by is `Input`: it is read off the
declaration and the tables alone, without a trigger, so that the properties
compare the triggers with something they do not define. It is the row's own
inputs and, for each dependency, what is watched of the rows at the other end;
through a relation to many also which rows these are (`ForwardInput`,
`BackwardInput`, `GenericInput`, `M2mInput`). A cache key is excepted where the
class says so: it does not see a direct update of its own row. `missed` are the
stale cells without a marker, which only triggers that are not those of the
running code leave behind. Statements run one
after the other; concurrency is the subject of `DenormFlush`.

### 2.4 DenormSave

One row with a plain column, a safe, a related and a cached column, and a row
it refers to. A session holds an in-memory instance: `Load`, `Fill` (a load reads
the row and computes a `CachedField` later), `Follow` (caches the related row),
`Edit`, `Save` (whole or with `update_fields`, atomic or autocommit), `PreSave`
field by field with its memo, `Update`, `PostSave`, `SaveFails`. Statements that
bypass the ORM and a `Flush` change the row meanwhile. History variables tell
which inputs the instance may have wrong (`differs`), what a failed save left on
it (`kept`), and what was written from either (`slipped`, `badKeys`).

### 2.5 DenormQueue

The markers of one pair are one element of `dirty`. `queue` is the broker
(FIFO), `locks` the singleton locks, `job` and `rest` what a worker executes.
`Write` is an application commit with its NOTIFY; `Listen`, `Redispatch`,
`Reconnect`, `ConnectionDies` are the daemon; `Take`, `FanOut`, `FlushBegin`,
`FlushCommit`, `FlushSkip`, `FlushFails`, `BatchDone`, `FlushRequeue`,
`FlushNothing` the tasks; `WorkerCrash`, `ExpireLeaked` and `ExpireEarly` the
failures. `Snapshots` is what `SELECT DISTINCT` may return to `_chunk_distinct_pairs`, in any
of the orders in `Orders`, `Chunks` its chunks. `FreeChords` are the chord ids nothing alive belongs to;
`MaxChords` bounds them, and the run never reaches the bound. `ExpireEarly` takes
the lock of a call that runs or is still queued: the expiry counts from `delay()`. Faults of every kind draw on one budget (`Fault`,
`MaxFaults`). `DenormFlush` has the detail of one `flush_single`; here it is a claim
and a commit. Celery, celery-singleton and chords are modelled from how the
tasks use them and are marked external.

### 2.6 DenormAggregate and DenormManyToMany

Related rows hold a foreign key, whether they pass filter and exclude, and an
amount (1 for a count). A statement changes one row and queues the actions of
its trigger, increment by NEW then decrement by OLD, which lock the owner and
add to its latest version. `Save` writes `F(column)`. `AlwaysExact` is
`MaterializedAggregate!Spec` under the identity on `row` and `total`: every
commit is a step of the abstract specification, everything else a stutter.
The sum is stated as a number of `Units`, which proofs can count;
`UnitsAssumption` of the MC module compares it with a fold over the amounts.

`DenormManyToMany` has the related table and the through table: the trigger of
a link looks up the related row, the trigger of a related row looks up its
links, each in a snapshot that lacks what the other transaction has not
committed. The column can therefore drift; `raced` remembers exactly the owners
for which a link was written while another transaction had written the linked
row, and `DriftsOnlyByRace` says that nothing else does it. (A refinement of
`MaterializedAggregate` would be false.) Here too the sum is a number of units, of
the rows that are `Linked` and pass.

### 2.7 DenormDeferral

`stack` holds the `deferred()` and `atomic()` blocks the code is in; an atomic
frame carries the database a rollback restores; `Frames(kind)` are the positions of
the blocks of a kind, and a block is `Alone` if it is on top and the only one of its
kind. `raising` is an exception on its way out; `tx` tells a transaction that PostgreSQL has aborted from one Django
has marked for rollback. `Save` is the whole ORM save: `pre_save` with or without
deferral, the self-trigger, the drop of self-markers, the always-dirty and the
eager handler, in that order. An exit of the outermost block that may not write the
markers (a doomed or aborted transaction, a ContentType query that fails) is
`RefusedExit`.

## 3. Runs

| Run | Question | Instance |
|---|---|---|
| `core` | safety, contract and liveness of the flush engine; `IInv` in every reachable state | F and P of the test project with a chain F.digest <- P.letter <- {P.full, F.title}, P.full <- P.name; table as `rebuildall` leaves it (whole-object markers on stale rows); one writer, two statements; two workers; both rows deletable; one crash; two convergence passes |
| `flush_loop` | does `flush()` end, and what has it done when it does | middleware, and a command inside an outer transaction; an application connection with one statement, which locks a row and inserts its marker; two rows of one marker each, in a chain or in a circle (`MCGraphs`); two passes, one retry, one error |
| `triggers` | do the triggers cover the declarations; `IInv` | four tables with a recursive foreign key, two foreign keys, a ManyToMany and a generic relation; two versions of four declarations, on the triggers of release 1.11; a post's author and editor differ; two statements, one flush, two commands, four steps in all |
| `saves` | what a save may leave stale | two sessions, four steps, one failed save, two statements beside the ORM |
| `queue` | passes, copies, what both rest on (`IInv`), progress with a poison pair, through failures | three pairs (`a` cascades to `b` and `x`, `x` always raises), read in one order with `x` first, one write, two workers, chunk of two, two passes, one fault of any kind |
| `aggregate` | exactness, constraints, and what both rest on (`IInv`) | two transactions of two statements, two rows, two owners; contents differ in owner, filter, amount, no owner, NULL amount (whose statements are refused) |
| `many_to_many` | the same over two tables, with `IInv` | two transactions of two statements, two related rows, two owners, links |
| `deferral` | markers of deferred columns | two rows with four columns (safe, related, default, no default), six statements, blocks three deep, one crash |

Violation runs, each a finding:

| Run | What happens |
|---|---|
| `coalescing` | an insert coalesces with a marker that is claimed before the inserting transaction commits: all idle, no marker, stale column |
| `foreign_key_cache` | the convergence loop recomputes from a related instance cached by an earlier pass |
| `aggregate_null` | NULL in a summed column makes the application's insert fail |
| `failed_save` | what `pre_save` remembers on an instance survives a save that fails, and the next save writes the old value |

**Why the bounds are enough.** The hazards of the flush engine need a coalescing
insert and a claim between a statement and its commit (one writer, one worker);
two workers on one row, a worker and a writer that wait for each other; a cascade
through the worker's own row and to another row (the chain above); a self-marker
that is safe and one that is not; a second claim and the pass cap (two passes);
a row deleted before and after the lookup. In the queue, two workers and three
pairs give a lost chord, a deduplicated kick, a cascade that no NOTIFY
announces and a poison pair beside two good ones; two passes reach the cap; one
fault of any kind, as a second would only repeat it after the recovery, which
fairness allows again and again. The snapshots come in one order: with two, TLC
does not finish; the theorems hold for any. In the aggregates, a move between two owners
against another transaction on both rows needs two of each. In `flush_loop` a
circle needs two rows and a process that gives up two passes; a row claimed by
the other process needs two processes, which wait for each other's markers and
deadlock in the circle (in `core` no two workers can: nothing watches the last
cell of its chain); one statement of the application keeps both waiting. In `triggers` the properties relate one
change to the triggers: two statements make a dangling key, a link or a tag
appear before its target changes, one flush answers them, two commands make a
deployment followed by a rebuild, or a crash between a drop and an install.
In `saves`, an outdated instance takes a load, a write from outside and a save;
the other session and two more steps give saves that overtake each other. Bounds are
constants `Max...` in guards.

`CHECK_DEADLOCK FALSE`: in every model the system may come to rest (bounded
statements done, table empty).

**Symmetry** only in `saves` (sessions) and `many_to_many` (transactions), which
check invariants only and whose constants treat those alike.

**Fairness.** `DenormFlush`: a worker that can pick or go on does so, and
PostgreSQL's detector resolves a deadlock (weak fairness). A writer and a waiting
marker insert get strong fairness: PostgreSQL queues the waiters of a row and of
an index entry and wakes them in order, so that one whose turn comes again and
again is served; with weak fairness alone TLC finds a schedule in which the
detector always picks the same worker as its victim, which claims again at once,
and the writer never gets through. `DenormQueue`: `denorm_queue` redispatches at
every `DENORM_QUEUE_SELECT_TIMEOUT` wake-up, a Celery worker takes what is queued,
lock entries expire. `DenormFlushLoop`: a process that runs `flush()` takes its
next step if nothing blocks it, an insert that waits on the index is woken in its
turn (strong fairness of `InsertMarker`), and the detector resolves a deadlock
(`Resolve`). Nothing is assumed of the application, which may keep a transaction
open for ever: `EveryFlushEnds` therefore says that a `flush()` returns or raises, or
is for ever `Delayed`, waiting for a transaction that is open and not itself a
running `flush()`, or for other flushes that do. Without the fairness of `Resolve`, or without
that exception, TLC finds a counterexample: the deadlock of two flushes, and the
application that never commits. `DenormDeferral` states none: its
`EagerSettles` is an action property. Crashes, faults, errors and early expiries
are never fair: they need not happen.

## 4. Proofs

TLAPS checks the proofs of eight modules to the last leaf. Their theorems hold
for every value of the constants that the named assumptions of the model's module
allow. Every inductive invariant `IInv` below is also an invariant of the run of
its model, so that TLC has seen it on every reachable state of the instance.

### 4.1 The flush engine

`DenormFlushProofs` holds for every finite or infinite set of writers, workers, rows, cells and values, every dependency graph and every user function such that:
a function is deterministic in what it reads (`ComputeAssumption`), the triggers
watch what it reads and not its own column (`DependencyAssumption`), safe
functions read plain columns of their own row (`SafeAssumption`), and what is
stale to begin with is marked (`InitAssumption`).

`NoLostInvalidation` alone is not inductive: whether a stale column will be
marked depends on work that is not committed. `IInv` adds

* `LockInv`: what is uncommitted is on rows its transaction has locked, a worker
  holds its row from the claim to the commit;
* `StageInv`: which pending work a transaction may have at each point (before
  the claim none, trigger inserts only while a statement's triggers run);
* `IndexInv`: the unique index, one uncommitted insert or delete of a key;
* `PendingInv`: a cell changed by `t` and read by `d` has put `d` into `ins`,
  `coal` or `todo` of `t`;
* `WorkerInv` of each worker: a column of its row that is stale *in its view* is
  marked there, or in the fields to be saved, or among the inserts to come
  (`Row`); values set by `pre_save` are fresh, marked, or will be marked by the
  update (`Fresh`); those of safe functions are fresh without exception
  (`SafeFresh`).

The crux is a commit: `t`'s new columns make `d` stale; `PendingInv` says `d` was
inserted (then it is marked), or coalesced with a marker that is still there
(then it is marked), or with one claimed since (then it is in `lost`). For the
row a worker flushes itself, `Row` does the same.

The refinement needs one more fact, `PlainInv`: what a worker has not committed
never includes a plain column. A commit of a worker is then a `Flush` of its row
(`IndexInv` and `StageInv`: the markers it deletes are of that row; `IInv` before
and after: what its values turn stale elsewhere is marked or lost), a commit of
a writer a `Write`, and no other step changes what everybody sees
(`CommitOrSame`). `ContractKeepsPromise` shows that the contract is worth
implementing: `Promise` follows from it alone, for any behaviour of the
contract; `PromiseHolds` puts the two together.

### 4.2 The loop of flush()

`DenormFlushLoopProofs`: for any processes, rows, markers, graphs, pass cap, retry
budget, any statements of the application and any number of them and of errors.
`LoopAssumption` only keeps the
sets apart. Besides the types, `IInv` has

* `LockInv`: by `Holding`, a process holds the row it works on and, inside an outer
  transaction, the rows whose markers it has claimed there; outside one nothing
  is uncommitted between two rows. Two processes have therefore never claimed
  markers of one row, and the application claims none (`Apart`, what a step leaves to the others);
* `OwedInv`: by `Owing`, what was marked when `flush()` began and is still owed is
  still marked; while a pass has seen no pair, it is claimed by this very process
  or all of it is ahead. A
  pass that ends without a pair then proves `owed` empty, or claimed and about to
  be committed: that is `ReadYourWrites`;
* `PassInv`: for *every* layering of the rows along their dependencies, pass n
  leaves no marker below layer n, unless a row was skipped or the application
  wrote (`Passing`). The step that needs care is a marker that another process
  inserts, perhaps long after it was owed by a trigger: by `Caused` it depends on a
  row in a lower layer that this other process has
  claimed, whose marker everybody else still sees until it commits. At the cap no layer is
  left, hence `GivesUpForCause`;
* `AppInv`: an application transaction that holds a row or a marker has counted as
  a write.

`IInv` says nothing of who waits for whom: the safety of the loop does not rest on
the waits, and its liveness is left to TLC.

### 4.3 The queue

`DenormQueueProofs`: for any finite set of pairs, any ranks that tell them apart,
any cascades, poison pairs and workers, any chunk size, pass cap and chord bound of
at least one, any number of writes and faults of each kind (`PairAssumption`,
`QueueBoundAssumption`). `OneCopy` is almost inductive: a call that is alive
holds its lock, and `delay()` sends nothing for a lock that is held. What is
missing is the fan-out, which sends several batches at once and compares them
with the locks only, not with each other: celery-singleton has taken the lock of
the first when it sees the second, so two equal chunks would be one message, and
the model sends them together. `Listed` closes that: a snapshot names a pair once,
because the query is `DISTINCT` (the mutant `MarkerSnapshots`, without it, breaks `IInv`),
so chunks start at different positions (`ChunkStart`, `ChunkStarts`), hence with
different pairs (`ChunksDiffer`), hence are different calls. The steps go
through two lemmas: `OnGrowth`, for a step that appends messages with new locks
and lets workers finish, and `OnCalm`, for one that touches neither messages nor
tasks. A task that ends drops the lock of nobody else (`LockOfOthers`, from
`OneCopy` itself). `PassesBounded` needs types only: a batch and its callback
carry the pass of a `flush_via_queue` below the cap, plus one.

### 4.4 Saves

`DenormSaveProofs`: for any sessions, any number of saves, failures, statements
and flushes. `StaleForCause` and `CachedForCause` speak of the database; what
makes them true is what sessions have in memory. `SessionInv` is, for each
session,

* `Agrees`: what the instance has loaded is what the row has, or `differs`
  names the column;
* `MemoOf`: what `pre_save` remembers is of the save at hand and is the function
  of the instance as it is, unless a failed save left it (`kept`); a remembered
  key is one under which the store has the instance's related value;
* `AwaitsPost`: between an UPDATE in autocommit and its `post_save`, whose drop
  of the self-marker is still to come, the safe column just written stays right,
  or the cause is already recorded (`differs`, `slipped`).

### 4.5 Deferral

`DenormDeferralProofs`: for any rows, columns, targets, depth of nesting, length
of the program and crashes. `DeferredIsMarked` says nothing of a database that only a rollback will bring
back, and so is not inductive. `IInv` has it for every snapshot there is:
`DatabaseInv` for the current one (what it has lost is in the collector, unless
its transaction can only roll back) and `SavedInv` for the savepoint of every
`atomic` frame: what it has lost must be pending in a block *around* that frame
(`PendingAt`), for a block inside it will be gone when the rollback comes. A
savepoint outside every block brings back nothing that is lost. `OldestInv`: of
several open transactions one is the outermost, whose savepoint is what a crash
leaves. `EagerSettles` is an action property: only the normal exit of
the outermost block is a `NormalExit` (`OnlyThisExit`), it writes the collector before it flushes,
and by `DatabaseInv` every stale column is then marked or orphaned.

### 4.6 Aggregates over a foreign key

`DenormAggregateProofs`: for any connections, owners and contents, any finite set
of related rows and any number of statements (`ContentAssumption`). A sum over rows
would need induction over a set; `FromScratch` counts units instead, so that two lemmas on
cardinalities are enough: `OneRow`, what a change of one row does to an
aggregate, and `Apart`, that changes of disjoint sets of rows add up.

`AlwaysExact` speaks of what is committed and is not inductive. `BalanceInv` has
it for every transaction in between: the column it sees, `total + acc`, with what its
queued actions will still add (`Pending`), is the aggregate of the rows it sees.
A statement keeps it because increment and decrement make up the worth of the
row after and before (`Increments`, `Decrements`, `Moves`), a trigger action
because it moves its effect from `Pending` to `acc`, a save because `F(column)`
adds nothing. A commit is the step where two transactions meet: by the locks
in `TypeOK` they have written different rows, hence `Apart`. `NeverNegative` follows
from `BalanceInv` and `OrderInv`, that a trigger adds before it subtracts: the
last action leads to an aggregate, which is no less than 0, and the one before
it to no less than that.

### 4.7 Aggregates over a ManyToMany relation

`DenormManyToManyProofs`: for any connections, owners and contents, any finite
set of related rows, any links and any number of statements
(`ManyToManyAssumption`). The parts of `IInv`:

* `BalanceInv` is that of 4.6, for owners that are not in `raced`: the column a
  transaction sees, with what its running and its queued actions will add, is the
  aggregate of the links and rows it sees. What a queued action will add (`Effect`)
  is not fixed when it is queued, for its snapshot comes later; it stays what it
  is because the row or the link it is about is `Held` by its transaction, and
  nobody else can change what it will find;
* `RaceInv`: of an owner without a race, no transaction has written a row whose
  link another has locked. So what two transactions have written of such an owner
  lies on different related rows, and their changes of its units are disjoint and add up;
* `FloorInv`: no transaction sees a column below zero, raced or not, because
  `Apply` is guarded by the CHECK on the latest version of the row and commits
  only publish what was seen;
* `OrderInv`: a trigger adds before it subtracts, two actions at most. With
  `BalanceInv`, the last action of a statement leads to a number of units, and
  the one before it to no less: a refused UPDATE is one of a raced owner.

The lemmas treat what the related rows add to one owner as a function from rows
to amounts (`Column`), whose `Size` is the aggregate (`Counted`): a change of a row, or
of a link of it, changes it at that row only (`OneChange`, `LinkComes`), and changes
at different rows add up (`Apart`). A link that moves, to another owner or another
row, is one that goes and one that comes. `GainOfItem` and `GainOfLink` say what the
snapshot of an action yields.

### 4.8 The triggers

`DenormTriggersProofs`: for any tables, columns, rows and relations, any versions
of the code with any declarations, any triggers of an older release, any numbering of
the content types, any batch size and any number of statements, flushes and
commands. The assumptions are about the schema and the declarations, and TLC
evaluates them on the run's:

* `SchemaAssumption`, `RelationAssumption`: rows of a table have the same columns;
  columns that a relation ends in hold primary keys or NULL;
* `RowsAssumption`: no denormalized column is a key of a through table, and the
  tables to begin with respect those keys;
* `FollowAssumption`: what a declaration must be like to be covered at all. A
  function that follows a foreign key watches it, and so does a backward
  dependency (whoever lets a column out with `skip` or `only` declares that it
  does not matter); a generic relation is not followed backwards
  (`dependencies/callback.py:240` tests the content type of the wrong model); two
  generic relations between the same models share their content type column,
  since their triggers share a name and only one WHEN survives the merge
  (`db/base.py:279`). Without any one of these a trigger would be missing.

`NoUnderFire` is about what is computed from a declaration twice: the inputs
(`Input`) and the triggers (`Triggers`, `Merge`, `When`, `Targets`). The argument:

* `Covered`: a statement that changes an input of a row's column is the event of
  a trigger of that declaration whose action finds the row. One lemma for each
  kind of relation (`ForwardReaches`, `BackwardReaches`, `GenericReaches`,
  `M2mReaches`), on top of `SeenDiffers` (what is watched differs only if a watched
  column does) and `ActionDoes`. Through a foreign key, the change of the key is a
  change of the row's own input; through a through table the change may be of a link
  or of the row it leads to, which exists because such keys are `Kept`;
* `Merged`, `Fires`: after the merge there is a trigger of the same name that
  watches at least as much and does at least as much, and while the triggers
  are up to date it is installed. This is where a merge that keeps one
  watch-list would break the proof, as it breaks the run (`MergeKeepFirst`);
* `MarkedOrTouched`: hence what a statement makes stale is marked or given a new
  key, and `ApplyKeeps` keeps `NoUnderFire`. A flush takes markers away as well: `SavesWhatItTakes`
  says that the columns it recomputes are at least those whose markers it took,
  a marker of an unknown name included.

`TypeOK` needs `TriggersInv`: what the installed triggers find, whichever version
or release they come from, are rows of the model they mark (`RelatedFind`,
`BuildFinds`, `LegacyFinds`). `RebuildCovers` needs `CoversInv`: what is missed
while a rebuild covers is of a row in its backlog. With the triggers up to date no
statement adds to what is missed, so the last batch leaves nothing.

### 4.9 Theorems

| Module | Theorem | Statement |
|---|---|---|
| `DenormFlushProofs` | `TypeCorrect` | `Spec => []TypeOK` |
| | `BaseInductive` | `Spec => []BaseInv` |
| | `Exclusive` | `Spec => []ExclusiveRecompute` |
| | `Inductive` | `Spec => []IInv` |
| | `NoLost` | `Spec => []NoLostInvalidation` |
| | `Redundant` | `Spec => DroppedIsRedundant` |
| | `OwnRow` | `Spec => OwnRowStable` |
| | `Implements` | `Spec => KeepsContract` (the contract `Invalidation!Spec`) |
| | `ContractKeepsPromise` | `Contract!Spec => []Contract!Promise` |
| | `PromiseHolds` | `Spec => []Contract!Promise` |
| `DenormFlushLoopProofs` | `LoopInvariant` | `Spec => []IInv` |
| | `LoopTypeCorrect` | `Spec => []TypeOK` |
| | `ReadsItsWrites` | `Spec => []ReadYourWrites` |
| | `OnlyForCause` | `Spec => []GivesUpForCause` |
| `DenormQueueProofs` | `QueueInvariant` | `Spec => []IInv` |
| | `QueueTypeCorrect` | `Spec => []TypeOK` |
| | `PassesStayBounded` | `Spec => []PassesBounded` |
| | `OneCopyAtATime` | `Spec => []OneCopy` |
| `DenormSaveProofs` | `SaveInvariant` | `Spec => []IInv` |
| | `SaveTypeCorrect` | `Spec => []TypeOK` |
| | `StaleOnlyForCause` | `Spec => []StaleForCause` |
| | `CachedOnlyForCause` | `Spec => []CachedForCause` |
| `DenormDeferralProofs` | `DeferralInvariant` | `Spec => []IInv` |
| | `DeferralTypeCorrect` | `Spec => []TypeOK` |
| | `DeferralLosesNothing` | `Spec => []DeferredIsMarked` |
| | `EagerBlocksSettle` | `Spec => EagerSettles` |
| `DenormAggregateProofs` | `AggregateInvariant` | `Spec => []IInv` |
| | `AggregateTypeCorrect` | `Spec => []TypeOK` |
| | `ColumnsStayExact` | `Spec => AlwaysExact` (the abstract `MaterializedAggregate!Spec`) |
| | `DecrementsFit` | `Spec => []NeverNegative` |
| `DenormManyToManyProofs` | `ManyToManyInvariant` | `Spec => []IInv` |
| | `ManyToManyTypeCorrect` | `Spec => []TypeOK` |
| | `OnlyTheRaceDrifts` | `Spec => []DriftsOnlyByRace` |
| | `OnlyTheRaceRejects` | `Spec => []RejectsOnlyByRace` |
| `DenormTriggersProofs` | `TriggersInvariant` | `Spec => []IInv` |
| | `TriggersTypeCorrect` | `Spec => []TypeOK` |
| | `TriggersCover` | `Spec => []NoUnderFire` |
| | `RebuildMakesUp` | `Spec => RebuildCovers` |

### 4.10 Only model-checked

* Liveness: `EventuallyDrained`, `EventuallyConsistent`, `AllButPoisonDrained`,
  `EveryFlushEnds`: properties under fairness, and ENABLED, are beyond TLAPS here.
  `EveryFlushEnds` needs the waits on the marker index, the deadlock detector and
  the pass cap together; its exception `Delayed` is the least set of flushes
  that wait for an open transaction of the application, for one around a `flush()` that has
  returned, or for a member of the set.
* `NoSelfRemark`: it is not true of every declaration (see section 5), and the
  runs show it for declarations without that combination.
* The violation runs, which are about particular behaviours.

## 5. Findings

1. `flush()` promises consistent data and an empty table afterwards. A marker
   insert swallowed by ON CONFLICT DO NOTHING, whose marker is then claimed
   before the inserting transaction commits, leaves a stale column that nothing
   will recompute (`coalescing`). In `DenormFlush` and `Invalidation` the cells
   concerned are in `lost`, and everything else is shown with that exception.
2. The convergence loop is said never to use stale in-memory source data; a
   foreign key followed in the first pass stays cached on the instance
   (`foreign_key_cache`).
3. `SumField` over a nullable column refuses the application's insert
   (`aggregate_null`): the trigger adds NULL. The function that means to compute the
   same sum from scratch skips NULL, but nothing calls it, and on Python 3 its
   `.values()[0]` raises.
4. The value `pre_save` remembers is said to be cleared after a save; when the
   UPDATE fails, `post_save` is not sent, and the next save of the same instance
   writes the remembered value (`failed_save`).

Divergences the models show without a run of their own; each is a named
exception in a property, or a reachable state:

* a flush worker may wait on the unique index of the marker table for another
  worker and deadlock with it (`DeadlockAbort` in `flush_loop`, in the circle), or
  for a transaction of the application, for as long as that is open (`Delayed` in
  `EveryFlushEnds`), though
  workers are said never to wait for each other (`denorms/__init__.py:272`);
  retry recovers from the deadlock;
* in autocommit a save inside `deferred()` drops a marker of a column it has not
  recomputed (`fields.py:88`); a crash before the block ends makes that
  permanent (`orphaned` in `DeferredIsMarked`);
* in autocommit another process may change the input of a safe column between
  the UPDATE and `post_save`, whose drop then takes the new marker
  (`fields.py:79`; `slipped` in `StaleForCause`);
* a `CachedField` stores under the row's current key a value computed from a
  related instance that was cached earlier (`badKeys` in `CachedForCause`);
* `flush()` gives up, blaming a non-deterministic function, also because a row
  stays locked elsewhere (`denorms/__init__.py:403`; `skipped` in
  `GivesUpForCause`);
* an aggregate over a ManyToMany relation drifts when one transaction links a
  row another is changing (`raced` in `DriftsOnlyByRace`);
* the self-trigger of an undeclared function has a name of its own, so that its
  watch-list, which leaves out the function's column, is not merged with that of a
  dependency on `'self'` (`denorms/callback.py:109`). The trigger of
  `@depend_on_fields` has no such name: a function that also depends on `'self'`
  has one merged update trigger, which watches its own column (unless the
  dependency's `skip` or `only` leaves it out) and does the declared action, so
  that it marks itself whenever its value changes. In the model, a declaration of this
  kind breaks `NoSelfRemark`; for a deterministic function the next flush settles
  it. The same comment says that a merge keeps the first watch-list; `append`
  takes the union (`db/base.py:263-281`).

## 6. Plan

Done: every component above except those of section 7; the contract and its
refinement; proofs about the flush engine, its loop, the queue, saves,
deferral, both kinds of aggregates and the triggers. To do: denormalized
ManyToMany fields (`denorms/base.py`, `fields.many_to_many_pre_save`), and a proof of
`NoSelfRemark` for declarations that do not combine `@depend_on_fields` with a
dependency on `'self'`.

## 7. Not modelled

* Denormalized ManyToMany fields (`denorms/base.py:5-45`): `get_alldenorms` looks at
  `_meta.fields` only, so that they have no trigger and no marker, and only an
  ORM save recomputes them.
* Errors at import time: an ambiguous dependency, an unknown field, an empty
  watch-list. The models assume declarations that load (`ResolutionAssumption`,
  `WatchAssumption`).
* The system checks, a static analysis of the source of user functions.
* Views, templates, progress bar, commands that only print; `suppress_autotime`,
  which nothing uses.
* SQL quoting and the SQL compiler; the history of migrations, whose result (the
  unique index, the NOTIFY trigger) is in the models.
* Celery and Django beyond how this code uses them; remains of SQLite and MySQL.
* Several databases: `flush()` reads the default one only, and so do the models.

Abstractions inside the modelled parts:

* `DenormFlush`: the dependency graph is a constant. A row that an open transaction
  inserts, or points to another row, while a second transaction changes its target
  is outside the model (hazard of `dependencies/callback.py:94`). `UpdateFields`
  leaves out `DENORM_DISABLE_AUTOTIME_DURING_FLUSH` (`denorms/__init__.py:238-252`,
  timestamps kept out of `update_fields`); the widening for a marker that names an
  unknown function is in `DenormTriggers` (`Saved`). `FiredOnOthers` names no
  row that is already deleted: the marker the code inserts for it
  (`dependencies/callback.py:181-189`) is an orphan, which a flush only deletes.
* `DenormFlushLoop`: a statement of the application is not enabled while a row it
  needs is locked, so that PostgreSQL's deadlock detector sees only the waits of
  marker inserts. A row counts as recomputed by a save whose user function may
  have read before another transaction's commit; what that loses is the run
  `coalescing`.
* `DenormTriggers`: `RebuildAll` reads all primary keys at once and for every field,
  without the `model_name` and `field_name` filters (`triggerset.py:32-73`); the triggers of
  an older release (`Legacy`) differ in coverage, not in content type ids;
  `DENORM_BULK_UNSAFE_TRIGGERS` (`fields.py:154`), off by default and without the
  self-triggers, is left out.
* `DenormQueue`: every `SELECT DISTINCT` reads in one of `Orders`; the run has one.
