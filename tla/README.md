# Storage and worker threads of WebCore: a TLA+ development

This directory holds TLA+ models of the concurrent parts of WebCore's storage:
the Web SQL databases (`src/Source/WebCore/storage`, with the parts of
`platform/sql` and `wtf` they use), their tracker and its quotas, the
write-back of localStorage, and the dedicated workers (`workers`) that are one
of their two kinds of client; the TLC runs that check them and TLAPS proofs
about them.  It is meant to be read next to that code: a definition keeps the
name of the function it models, and `PROJECT.json` maps every one to its lines.

Why this part of a web engine?  It is where WebCore itself is concurrent: one
transaction is an object that two threads pass to each other, a third thread
deletes and interrupts what the other two use, the locks and queues are
hand-written, and the failure paths (SQLite rolling back, quota, deletion,
shutdown) meet the hand-over at every point.  Most of the rest of the engine is
sequential code over large data (DOM, style, layout), which a model checker
does not help with.

## 1. Inventory

| Part | State | Operations | Used by |
| --- | --- | --- | --- |
| `SQLTransactionCoordinator` | per database name: queue of waiting transactions, active readers, active writer | `acquireLock`, `releaseLock`, `shutdown`, `processPendingTransactions` | `SQLTransaction` on the database thread |
| `SQLTransaction`, `SQLStatement` | next step, lock flag, SQLite transaction, statement queue, current statement, callbacks, error | eleven steps, six on the database thread and five on the context thread; `executeSQL`; cancellation | `DatabaseTransactionTask`, `DeliverPendingCallbackTask` |
| `Database` (a handle) | opened, deleted, interrupted, queue of transactions, transaction in progress | open, `transaction`, `readTransaction`, `changeVersion`, `markAsDeletedAndClose`, `closeImmediately`, `close`, `tableNames` | scripts, the tracker, the inspector |
| `DatabaseThread`, `DatabaseTask` | task queue, killed flag, open databases, synchronizers | schedule at either end, unschedule, perform, terminate | every thread |
| `MessageQueue`, `DatabaseTaskSynchronizer` | deque, mutex, condition variable; a flag with its own mutex and condition | append, prepend, wait with mode and deadline, poll, remove, kill; wait for completion, complete | database thread, storage thread, run loops of workers |
| `AbstractDatabase`, `ChangeVersionWrapper`, `DatabaseSync` | version in the file, process-wide maps from guid to handles and to version, expected version | construct, open and verify, close, change version | handles of all contexts |
| `DatabaseTracker`, `OriginQuotaManager` | table of databases and quotas, open handles, names being created and deleted, cached usage | establish a database, name its file, register and remove handles, maximum size, set the quota, delete a database or an origin | all threads, under two mutexes and the quota manager's |
| `StorageAreaSync` (with `StorageAreaImpl`, `LocalStorageThread`, `StorageSyncManager`, part of `StorageTracker`) | collected changes, batch, flags, the area's database, timer | set, clear, timer, sync, import, final sync, delete the origin, delete an empty file | page scripts, the embedder, the storage thread |
| `WorkerMessagingProxy`, `WorkerThread`, `WorkerRunLoop` | proxy's flags and counts, tasks in both directions, the context, its termination | start, post a message, report activity, close, terminate, collect, shut down | a page and its worker |
| `SQLiteTransaction`, `SQLiteDatabase` | in progress, rolled back by SQLite, interrupted | begin, commit, rollback, stop, interrupt | transactions |
| IndexedDB, application cache, message ports, ... | | | listed in `PROJECT.json` with the reason they are not modelled |

How they interact.  A script calls `openDatabase`; the tracker checks the quota,
names the file and registers the handle, and the handle is opened by a
synchronous task of the database thread.  A script then calls `transaction()` on
the context thread; the handle queues the transaction and, if none is in
progress, schedules a task for the database thread.  There the transaction asks
the coordinator for the lock of its database name; `lockAcquired` puts its next
step in front of the queue.  From then on the two threads take turns: every step
sets `m_nextStep` and posts a task to the thread that step belongs to.  At the
end the transaction releases the lock (which may grant it to others) and the task
tells the handle to schedule its next transaction.  Meanwhile the main thread (the
context thread itself in a document, another thread for a worker) may delete the
database, close or interrupt handles, or terminate the database thread; opening,
listing tables, deleting and terminating a worker wait synchronously for the
database thread.  Versions are shared by all handles of the process through two
maps under one mutex.  All tasks between threads go through a `MessageQueue`.
localStorage has a thread of its own, which writes what a timer on the main
thread hands it, while the tracker of localStorage may delete the file.

What is hard about it, and therefore what the properties are for (the list with
lines is `hazards` in `PROJECT.json`):

- the hand-over: `performNextStep` reads `m_nextStep` again after it has handed
  the transaction to the other thread;
- error paths inside the hand-over: a statement error, a quota error with
  retry, SQLite rolling back by itself, a COMMIT that fails after everything
  was reported as successful;
- cancellation: a handle is closed or interrupted while a transaction of it
  holds the lock, waits for it, or has a task queued;
- synchronous tasks on a queue that may be killed or purged; condition variables
  that wake for no reason, deadlines that race a message;
- shutdown with transactions open, or with changes not yet written;
- fairness between readers and writers;
- a cached version that several contexts update around their COMMITs;
- locks of the tracker that are dropped in the middle of opening or deleting a
  database, and usage figures that are cached while files grow;
- changes of localStorage in four layers, which a timer, a limit per batch, a
  deletion and a shutdown move at different times;
- objects shared by a page and its worker by plain pointers.

## 2. Modules

    CoordinationInfo            one entry of the coordinator, as a value  (+ ...Proofs)
      SQLTransactionCoordinator   the lock manager           (+ ...Proofs)
        TransactionLock             what it promises: an abstract lock
    SQLTransaction              one transaction object and its steps, as values
    WebDatabase                 handles, transactions, threads, queues, coordinator,
                                deletion and termination, composed  (+ ...Proofs)
      TransactionService          what it promises to scripts
    MessageQueue                the queue at the level of mutex and condition
      TaskQueue                   what it promises: a sequence
      DatabaseTaskSynchronizer    the queue with tasks that callers wait for  (+ ...Proofs)
    DatabaseVersion             versions and the guid maps   (+ ...Proofs)
    DatabaseTracker             opening and deleting databases, quota and usage  (+ ...Proofs)
    StorageAreaSync             write-back of localStorage   (+ ...Proofs)
    DedicatedWorker             a worker, its proxy and its thread  (+ ...Proofs)
    MC...                       constants for TLC

### CoordinationInfo, SQLTransactionCoordinator, TransactionLock

`CoordinationInfo` holds the pure functions: how many queued transactions
`processPendingTransactions` lets in (`GrantCount`: all readers up to the first
writer, or one writer when nobody is active), what it leaves
(`ProcessPendingTransactions`), and the edits of `acquireLock` (`Enqueue`) and
`releaseLock` (`Deactivate`).  `SQLTransactionCoordinator` is the component with
its map of entries; each entry point runs on the database thread and is one
action.  It keeps what the transaction believes (`status`) apart from what the
coordinator believes, because the properties are about the two agreeing.
`TransactionLock` is the abstract specification, without queues: transactions
wait, are granted the lock in any compatible group, and give it back.  `RefinesTransactionLock` shows that the
coordinator implements it.

### SQLTransaction

The object is a record; the operator of a step returns the set of its outcomes
(the object afterwards, what it schedules, whether it releases the lock).  All
early returns and error paths are there: `handleCurrentStatementError`,
`handleTransactionError` on both threads, the two halves of
`checkAndHandleClosedOrInterruptedDatabase`, the retry after a quota increase.
Abstracted: the SQL and its rows (a statement succeeds, fails, fails for quota,
and SQLite may or may not roll the transaction back with it), error texts, and
which transactions carry a `ChangeVersionWrapper`: preflight and postflight may
fail for any of them, which includes what they do for `changeVersion`.  A statement
that `executeSQL` marks because the database is deleted, or because it has not the
version that the handle expects, fails without being run; whether the version
matches is open in `WebDatabase`, and follows from `DatabaseVersion`.
`happened`, `increases` and the statement's `handled` are history variables.

### WebDatabase

Composes the two with the handles, the threads and the queues, for one script
execution context.  Every point where another thread can see an intermediate
state is a step of its own: performing a task, the second read of `m_nextStep`
(`ReturnFromStep`), each turn of the statement loop, `close` in three parts
(`PerformCloseTask` or `CloseAtExit`, `UnscheduleDatabaseTasks`,
`RemoveOpenDatabase`), a script between entering and leaving a callback,
`openDatabase` between the registration of the handle and the scheduling of its
open task (`OpenDatabase`, `OpenAndVerifyVersion`), and the turns of the deletion
loop of `DatabaseTracker::deleteDatabaseFile`, each in two parts: the handle is marked
and the thread asked whether it is being terminated (`MarkAsDeletedAndClose`), then
the close task is scheduled and waited for (`ScheduleCloseTask`).  A synchronous call
is two actions of the caller: schedule and wait, go on.  At the end of its loop the
database thread swaps `m_openDatabaseSet` into a copy (`openSetCopy`) and closes what
is in the copy; nothing that is recorded or forgotten afterwards delays its end.
Termination may be requested by a script of a document in the middle of a callback;
a worker is stopped by a task of its own run loop.
`MainThread` selects a document or a worker.  `Requests` is the set of outside
requests that may come, each at most once: it is a bound and lets a run choose
an embedder (`closeImmediately` is called by the chromium embedder only,
deletion through the tracker by the others).

Left out: the creation callback (a script call after opening that touches no
state of this protocol), the authorizer, and the connection that `stop()`
leaves inside a transaction when a handle is interrupted and not closed.
The queue of the database thread is a sequence here; that `MessageQueue` gives
one is `RefinesTaskQueue`.  `WaitForTaskCompletion` takes the condition variable
to wake only when signalled; what a spurious wakeup does is in
`DatabaseTaskSynchronizer`.

`TransactionService` is the abstract specification, what a script may rely on:
each handle has a line of transactions, and whether each one is new, waiting, open,
committed or undone and what its script was told of it.  There are no threads, tasks,
locks and steps.  The first in line is opened if that keeps the open transactions
isolated (one on a handle; on one database a single writer or readers), or fails; an
open one is committed, unless its script was already told of an error, or undone; a
script is told once at most, of success only after the commit; a handle that was
stopped gives up who waits on it and opens nothing any more; when the thread ends,
what is open is undone.  In `RefinesTransactionService` a handle is stopped when it was
interrupted, or closed after scripts got it (`StoppedHandles`); its line is the
transaction that was taken off its queue and has not come to `BEGIN` yet, then the
queue (`WaitingOn`); status and told are read off the transaction's record.  A
transaction whose handle was stopped counts as undone before SQLite has rolled it
back or was ever asked, and an error may be told while SQLite still has it open,
which is the order of the code.

### MessageQueue, TaskQueue, DatabaseTaskSynchronizer

`MessageQueue` has one thread that waits, and any number that append, prepend,
remove or kill.  A critical section is one step; `timedWait` gives the mutex up,
so waiting is one step to fall asleep and one to look again after a signal, a
spurious wakeup or the deadline.  A timeout ends the loop without another look at the
queue, as in the code.  Messages have modes, because a worker's nested run loop
(synchronous load) waits for its own messages only.  `TaskQueue` is the abstract
specification, a sequence whose operations are atomic.
`DatabaseTaskSynchronizer` composes the queue with callers that wait for their
task through a second mutex and condition.

### DatabaseVersion

One database (one guid), its file, the two process-wide maps, handles of
different contexts, some of them `DatabaseSync`.  Opening takes the version
from the cache or from the file, under `guidMutex`, and compares it with the
expected one after it has released the mutex (`found` is what it holds in between,
`Verify` the comparison); opening may also fail, before or after the info table was
created; `changeVersion` is preflight, body, postflight and COMMIT for a
`Database`, and body, COMMIT, `setExpectedVersion` for a `DatabaseSync`.
SQLite is modelled by what the code relies on: a connection that has done BEGIN
IMMEDIATE is the only writer of its file until COMMIT or ROLLBACK.  Deleting
the database starts a new file; handles of `DatabaseSync` keep the old one,
because their `markAsDeletedAndClose` does nothing.  A null string, an empty
string and a missing table are different values, as they are in the code.

### DatabaseTracker

One origin.  The code has two mutexes, never held together, with the quota
manager's lock inside either; a step of the model is what happens under one of
them.  Opening a handle is `canEstablishDatabase` (in two parts when it drops its
lock to ask the client), `fullPathForDatabase`, `addOpenDatabase`,
`doneCreatingDatabase` and the opening of the file; deleting a database or an
origin is a loop of look-up, collecting handles, closing them and deleting the
file.  The usage record caches sizes and their sum as `OriginUsageRecord` does.  Sizes
are unsigned with a small width, so that the difference in
`getMaxSizeForDatabase` can wrap.  `Handles` are slots: a closed handle's slot is
used again.  The history variables `lowered`, `overcommitted`, `forgot`, `orphans`,
`debris` and the field `partial` of the record name what the code does not protect
against, see section 3.  `getMaxSizeForDatabase` and `didExecuteStatement` use the
record without asking whether there is one; without it the process ends
(`UsesNullRecord`, `crashed`).  Other origins are taken to be in the tracker: with
the last one `deleteOrigin` also deletes the tracker's own database, and the sequence
that file names are made from starts again.  Names given out again would let a new
database take over a file that the deletion of an old one left behind; the model
does not have this.

### StorageAreaSync

One area.  `memory` is what scripts see; below it are the collected changes, the
batch under `m_syncLock`, what `performSync` took out of the batch, and the
table.  Setting, clearing, the timer with its limit per batch
(`MaxiumItemsToSync`, the code's spelling), the three parts of `performSync`, the
import at the start, the final sync and the end of the thread, the deletion of
the origin by the user and the deletion of an empty file by the storage thread
are actions.  Opening, reading and writing may fail; `faults` records it.  The
file that the tracker deletes under an open connection stays, unlinked.

### DedicatedWorker

The `Worker` object, the proxy, the tasks of the context thread that refer to it,
and the thread with its run loop and script context.  A script of the worker
posts messages, throws, sets timers, imports scripts or closes, any number of
times up to the bound.  The garbage collector is the guard of
`WorkerObjectDestroyed`: it may take the object whenever `hasPendingActivity()`
is false.  What a stopping worker does with its databases is in `WebDatabase`.

## 3. What the runs check

| Run | Instance | Shows |
| --- | --- | --- |
| `coordinator` | 2 readers and 2 writers of one name, a reader and a writer of another | mutual exclusion, agreement of the two sides' books, no missed grant, FIFO (`NoOvertaking`), rollback at shutdown, refinement of `TransactionLock`, every waiter is served |
| `transactions` | a writer with all its callbacks or the first only, 2 statements with or without callbacks and 2 quota increases, a reader queued behind it, a writer on another handle of the database, with fairness | success is reported only after COMMIT and an error only without; no statement runs after SQLite gave up the transaction; an error that its callback handled does not end the transaction; every transaction ends |
| `document` | 2 handles of one name, 2 readers queued on one and a writer on the other, deletion, inspector, termination | turns (`StepsTakeTurns`), isolation of SQLite transactions, locks come back while the handle runs, no waited-for task is lost, `close` finds what was opened |
| `worker` | a writer and a reader in line on one handle, a writer on another, all callbacks; main thread interrupts and closes while the worker terminates and waits, with fairness | nothing left open and no waited-for task lost, with three threads; what scripts see is `TransactionService`; every wait ends, the database thread ends and the worker goes on |
| `database_version` | 3 handles (2 of `DatabaseSync`), 2 versions, failing opens and COMMITs, a deletion | an open handle always has its entries in the guid maps; the cache has the file's version and a wrong version is never let in, with the exceptions that `disturbed` and `found.overtaken` record |
| `task_queue` | 2 synchronous tasks, a plain one and one of a nested run loop | no lost wakeup, refinement of `TaskQueue`, callers return after their task was performed, and do return |
| `local_storage` | 2 keys, batches of 1, 4 changes, deletions or requests | no change forgotten or brought back, the table complete at shutdown, sudden termination disabled meanwhile, everything written in the end |
| `tracker` | 2 databases, a `Database` and a `DatabaseSync` at a time, 4 calls | creation excludes deletion, no untracked files, usage record there and complete, a null record used only by a handle that `deleteOrigin` left open, quota kept |
| `dedicated_worker` | 2 messages, 3 events of the worker's scripts | no use of a deleted proxy, no working worker collected, terminated workers end |

Three runs show a disagreement between the code and what a comment, an assertion
or a test says of it; `findings` quotes both sides.

- `delete_while_opening`: deleting a database while a worker opens it closes a
  handle that was never recorded as open, and drops the open task for which the
  worker waits.
- `lock_leak`: a transaction of a deleted handle keeps the coordinator's lock;
  transactions on a new handle of the same database wait for ever.
- `delete_while_stopping`: `markAsDeletedAndClose` asks whether the database thread
  is being terminated, then schedules a close task and waits for it.  The context
  thread of a worker may request the termination in between; the task is never
  performed, and the main thread waits for ever.

Many properties have an exception, written into the property and explained
in the comment in front of it.  Each one is what the code does, and each is
needed: without it TLC reports the property as violated.  The exceptions are the
places where a reader of the code should look twice.  What an exception names is
*not* shown to be right: the property says that nothing else goes wrong.  A hazard
in `PROJECT.json` whose worst case is such an exception has a note that tells the two
apart.

Transactions and versions:

- After a refused quota increase the statement's error callback may return
  false, and the transaction fails all the same, because the current statement
  is still marked when `runStatements` is entered again
  (`HandledErrorsContinue`).
- `changeVersion` publishes the new version before a COMMIT that may fail; two
  `DatabaseSync` handles can publish theirs in the opposite order of their COMMITs;
  a handle that failed to open keeps the cached version alive after the file is
  deleted (`disturbed`, in `CacheIsCurrent` and `OpenVerifiesVersion`).
- A handle compares the version outside `guidMutex`.  A `changeVersion` that commits
  after the version was found lets it open with the version before; the handle
  notices when it runs a statement (`found.overtaken` in `OpenVerifiesVersion`).
- With `Requests` = {`closeImmediately`, `tableNames`} of one handle (chromium),
  closing removes the queued `tableNames` task and the inspector's thread waits
  for ever (`SynchronousTasksSurvive`; the `worker` run has no inspector).
- The comment in `deliverTransactionCallback` says that a null transaction
  callback leads to the error callback; the code goes on and commits, and so does
  the model (`ContextStep`).

Queue: `waitForTaskCompletion` tests its flag once, so a spurious wakeup returns
to the caller before its task was performed (`spurious` in
`ReturnsAfterPerforming`).

localStorage (`faults`):

- a partial sync removes every key of the batch from the collected changes, also
  one whose entry in the batch is an older value that the limit kept it from
  replacing: the newer change is lost (`overtaken`);
- a sync that finds the database marked for closing closes it instead of writing
  the batch, which is lost (`closed`); a batch is also lost when SQLite fails,
  and nothing is written any more once an open has failed;
- a file that is deleted under an open connection takes later writes with it
  (`deleted`);
- `scheduleSync` enables sudden termination once more than it was disabled
  (`requested` in `SuddenTerminationDisabled`).

Tracker:

- `canEstablishDatabase` compares the new quota with a requirement computed
  before it dropped its lock, and usage is measured while transactions can still
  grow their files: two handles are promised the same space (`overcommitted`);
- a quota lowered below the usage makes the difference in
  `getMaxSizeForDatabase` wrap (`lowered`);
- the usage record goes with the last registered handle although another one
  stands between `canEstablishDatabase` and `addOpenDatabase`, and
  `addOpenDatabase` then makes a record of that one database only (`forgot` in
  `QuotaKept`, `usage.partial` in `UsageComplete`);
- `deleteOrigin` removes the usage record, but a `DatabaseSync` of the origin stays
  open, because its `markAsDeletedAndClose` does nothing.  Its next transaction calls
  `diskUsage`, or its next statement `markDatabase`, which assert that there is a
  record and use a null pointer (`OriginQuotaManager.cpp:119-122` and `129-132`).
  `UsageComplete` says that this is the only way to get there: without a record there
  are only such handles (`orphans`), and the process ends only through one of them;
- a file that is deleted while a `DatabaseSync` has it, or before a registered
  handle has opened it, comes back without a row (`debris`).

Worker: `importScripts` reports that there is no activity while the script that
called it still runs, and the `Worker` object may be collected and its worker
terminated in the middle of it (`imported` in `CollectedOnlyWhenIdle`).

### Bounds, and why they are enough

The coordinator's behaviour depends on the kind of the queue's head and of the
active transactions: two of each kind give every such combination with a third
party waiting, a second name shows independence.  The proofs remove the bound.
A transaction's steps depend on its own record, so one transaction with two
statements (a current one and a next one) reaches every path; two quota
increases reach a retry that fails again.  Interference needs two handles of
one name, and a queue of two on one handle; statements add nothing there, so
`document` and `worker` have none, and in `transactions` one of three has them.
That a deletion meets the end of the thread needs one handle.  Two versions are the
least that can differ; three handles are needed for two that change the version
and one that opens.

A queue needs a message in front of, and one behind, the one that is waited for;
two synchronous tasks can be ordered either way by prepending.  In a localStorage
area two keys and a limit of one item give a partial sync with a rest; one value
and null are enough to tell an older change from a newer; four changes allow one
change in each layer and one more.  In the tracker two names share one quota; four
calls allow two opens, a deletion and a change of the quota in any order, the quota
is nothing or room for two new files, so that it can be raised and lowered, and
width 2 lets every sum of the instance wrap.  A worker with two messages has one
that it handles while the other is on its way; with three events its script can
throw, post and set a timer.

Symmetry (of the names in `tracker`, of the synchronous handles in
`database_version`) is used with properties of states and steps only, never with
liveness.

Deadlock checking is off in all runs: every object is used once or up to a
bound (each request, transaction, handle, message, change), and an idle queue,
area or worker waits for a next call, so a run that has used up everything
stops.  That nobody waits for ever is what `WaitsEnd`, `TransactionsFinish`,
`TerminationCompletes`, `EveryWaiterServed`, `WaitsReturn`, `EventuallyWritten`
and `TerminatedWorkersEnd` say.

### Fairness

`FairSpec` of `WebDatabase`: the database thread runs while it has something to
do (its loop has no other condition than the queue); the context's task queue
is served and scripts return (a script that never returns stops its own page,
not the protocol); a thread whose synchronizer was signalled goes on; a thread in
the middle of `openDatabase` or of the loop that deletes a database continues.  Nothing is assumed about
what scripts or users ask for.  `FairSpec` of `SQLTransactionCoordinator` lets
holders release, as `transactions` shows they do on a handle that keeps running.

`FairSyncSpec` of `DatabaseTaskSynchronizer`: the thread performs its task,
signals and goes back to the queue, callers go on, and the messages of a nested
run are sent, since the loader completes.  No timeout is relied on.
`FairSpec` of `StorageAreaSync`: the storage thread runs and the main thread
serves its timers; nobody has to close the area.  `FairSpec` of
`DedicatedWorker`: both threads perform their tasks; a script of the worker may
run for ever, and must end only after `stop()` has interrupted it or when
execution is forbidden, which is what `scheduleExecutionTermination` and
`forbidExecution` are for.

## 4. What is proved

TLAPS checks the following for every value of the constants; the assumptions are the named `ASSUME`s on the constants.

`CoordinationInfoProofs` has the lemmas about one entry of the coordinator that two
proofs below use: what `ReaderPrefixLength` counts, and what `Enqueue`, `Deactivate`
and `ProcessPendingTransactions` do to the sets of active and waiting transactions.

`SQLTransactionCoordinatorProofs`: type correctness, `MutualExclusion`,
`LockBookkeeping`, `NoMissedGrant`, `RolledBackOnShutdown`, `NoOvertaking` and
the refinement of `TransactionLock`.  Mutual exclusion alone is not inductive:
it follows from the entries only if the entries are right about who is active.
The inductive invariant (`CoordinatorInvariance`) says that each entry is
exclusive and free of duplicates, that a transaction waits or holds exactly when
its entry says so, that a nonempty queue has somebody to wait for, and that an
SQLite transaction exists only under the lock.  The lemmas about
`ReaderPrefixLength` and `ProcessPendingTransactions` carry the proof: the
prefix taken consists of readers and stops in front of a writer, granting keeps
an entry exclusive and leaves a queue whose head is kept out.

`DatabaseVersionProofs`: type correctness and `OpenHandlesAreCached` with all
failures included; the invariant adds that a handle is in the map from its
construction on, since closing the last *open* handle would otherwise drop the
version under one that is just being opened.  `CacheIsCurrent` and
`OpenVerifiesVersion` are proved for the same specification, for as long as
`disturbed` is false: `CacheInv` says that only open handles change the version,
one at a time, and that between postflight and COMMIT the cache has the version
that COMMIT will write.  `FoundInv` carries the version of an open from the section
under `guidMutex` to the comparison: unless a change was committing or has committed
since, it is still the version of the file.

`DatabaseTaskSynchronizerProofs`, for every set of messages, modes and waited-for
tasks: `QueueInvariant`, the refinement of `TaskQueue`, and
`ReturnsAfterPerforming`.  `QueueInvariant` is inductive as it stands: the lemmas
say what appending, taking and removing do to a queue without duplicates, that a
signal leaves nobody asleep, and that a turn of the wait loop goes to sleep only
when it found nothing.  In the refinement every step of the wait loop that does
not receive a message is a stutter.  `ReturnsAfterPerforming` needs
`SynchronizerInv`, which relates the flag to where its caller is.

`StorageAreaSyncProofs`, for any number of keys and changes and any limit of a
batch: `WriteBackInvariant`, `WrittenAtShutdown` and `SuddenTerminationDisabled`.
That nothing is forgotten is a statement about four layers at once, and a step
keeps it only if the layers are used in order.  The inductive invariant adds:
before the import nothing has happened; the queue of the storage thread has a
sync exactly when one is scheduled, in front of the tasks that close the area;
the thread holds a batch only inside `sync()`; a batch that waits has its task
and collected changes have their timer; a file that may be deleted when empty has
nothing that scripts still see; and `disableSuddenTermination` was called once
each for the timer, the scheduled sync and the sync in progress.

`DedicatedWorkerProofs`, for any bound on messages and tasks: `ProxyInvariant` and
`CollectedOnlyWhenIdle`.  The invariant says that a proxy has its thread from its
start until its last task; that the task that may delete the proxy is the last one
of the main thread; that the unconfirmed count is the number of messages and of
confirmations on the way; that the thread's loop ends only when asked to; and that
pending activity is known or will be reported by a task behind the last message.
The lemmas count positions of a queue, as cardinalities, because the count that
the C++ object keeps is compared with what two queues hold.

`DatabaseTrackerProofs`, for any number of handles, databases, file names, pages and
requests: `TrackerInvariant`, `UsageComplete` and `QuotaKept`.  The first two are not inductive: opening and
deleting drop the locks in the middle, so the invariant has to say what holds at
each of those points.  The path of a handle is that of its row or is known to be left
behind; what is being deleted follows from where the deletion is; the file that is
being deleted is used only by handles that will be closed; names whose file is gone
but whose row is not (`Processed`) have no user; a record that was set up from the
table has its paths, and the size of a file that can still grow is marked unknown;
and `RecordThere`: an open handle has a record or has lost it to `deleteOrigin`, so
that the one step that ends the process starts from such a handle.  Up to
here a sum of sizes appears only as the value of `SumOf`.

`QuotaKept` compares such a sum with the quota, and the sum that the files have now
says too little: a transaction may have been given a maximum size, a client may have
agreed to a requirement, and a handle may be about to create its file.  The invariant
(`QInv`, `Allotted`) says instead that the quota *can be allotted*: there is a number
for each database that covers its file, the size recorded for it, the maximum size of
the transactions that use it and the first page of a file that a handle will create;
these numbers add up to at most the quota, and to less than any requirement that the
client is still asked for.  A measurement makes a new allotment out of the sizes it
read; `canEstablishDatabase` and `getMaxSizeForDatabase` then raise one number of it
by what they promise.  That the allotment survives the step rests on the premise of
`QuotaKept` (`Sound`) and on `NothingGrows`: a measurement that disturbs nobody sees
no pending write and no file that is still to be created.  Beside the allotment, the
invariant has that at most one handle was promised something (`OneGrows`), that a
transaction stays below its maximum (`WithinMax`), that recorded sizes are those of the
files (`KnownSizes`, `PendingUnknown`), and that a file name that was not given out has
no file (`FreshFiles`).  The arithmetic is modulo 2^Width as in the C++: `WrapResult`
is where the comparisons of the code with a sum that may have wrapped are used, and
where the assumption is needed that an estimate, an `unsigned long`, is below 2^Width.
The invariant was checked by TLC on the constants of the run `tracker` first.

What the proof uses of `SumOf` (it is monotone, it covers each size, one size
changes it by the difference) are the lemmas of the section on sums.  They are an
induction over the subsets of `Names`, done by hand since the induction theorems of
the library take an operator: of the subsets for which a fact fails, take one of
smallest cardinality (`SmallestSubset`, from the well-foundedness of < on Nat), and
remove the element that the fold takes.  That the recursion of the fold has a solution
is proved the same way, size by size (`SumsExist`).  This needs that `Names` is finite.

`WebDatabaseProofs`, for any handles, names, transactions, statement kinds, scripts
and requests, in a document and in a worker: `StepsTakeTurns`,
`SqliteTransactionsIsolated`, `CallbacksTellTheTruth`, `StatementsInsideTransaction`,
`HandledErrorsContinue`, `LocksReturned`, `NothingOpenAtEnd` and
`RefinesTransactionService`.  None of the first seven is
inductive, and all follow from one invariant (`Invariance`), because each depends on
where the other threads can be.  Its parts:

- `Lives`, the heart: a transaction is in at most one place (the queue of its
  handle, the coordinator's queue, the queue or the statement loop of the database
  thread, the queue or the script of the context), and the place fits its next step;
  it is active at the coordinator from `lockAcquired` until its end, and SQLite has a
  transaction only while it is active; one that is in no place and has not ended
  belongs to a handle that was closed or interrupted; and what its record says
  (`RecordOK`, `SqliteFits`) fits its next step, for example that SQLite gave the
  transaction up only together with the statement that is looked at next;
- `OneAtATime`: a handle that was not stopped has at most one transaction that was
  started and has not ended, and knows it (`transactionInProgress`);
- `CoordinatorOK`: the entries are exclusive, without duplicates and hold transactions
  of their own database;
- `HandlesOK`, `TransactionsOK`, `QueuesOK`, `ThreadsOK`, `DeletionOK`: types, which
  tasks may be queued, and what holds in the middle of a close, a deletion or the end
  of the thread.

The proof has one lemma per step of `SQLTransaction`, that every outcome of the step
fits the next step it sets, and one per action of `WebDatabase`.  Between them are
lemmas about moving a transaction from one place to another (`DatabaseMove`,
`ContextMove`, `HandleMove`), which say that only that transaction's life changes.

`SynchronousTasksSurvive` and `ClosesOnlyOpenDatabases` do not hold for every value
of the constants: section 3 has the combination of requests that breaks the first,
and `delete_while_opening` breaks the second.  They are proved for the requests that
one embedder makes: for a document without `closeImmediately` (`InDocument`), and the
first one also for a worker whose databases are neither deleted nor inspected while
it runs (`InWorker`).  These hypotheses are on constants, and the runs `document` and
`worker` satisfy them.  Each needs an invariant on top of the one above.
`DocumentInv`: the context thread is the only one that waits, for one task at a time,
so nothing that somebody waits for is queued while a close is in progress, and what
the tracker deletes is recorded as open; and in the middle of `openDatabase` or
between the two halves of `markAsDeletedAndClose` it does nothing else, so that the
answer of `terminationRequested` still holds (`DocumentPauses`).  In a worker the
second half of that fails, which is the finding `delete_while_stopping`.  `WorkerInv`:
only handles that scripts already have are closed, so that closing drops no open task,
and the worker's thread does not stop the database thread while it opens a database.  Steps of transactions
are dealt with once for both (`Quiet`): they touch no task that somebody waits for.

`RefinementOfTransactionService`, in the same module: `WebDatabase` implements
`TransactionService`, with no hypothesis on the constants.  The refinement mapping
needs the inductive invariant before and after the step: that one transaction at most
is off the queue of a running handle and not opened yet (`OneAtATime`) makes the line
of the handle well defined, that it is the one whose task is performed makes it the
first, and the isolation of the state *after* `BEGIN` comes from the coordinator's
part of the invariant.  A first group of lemmas (`DatabaseEffect`, `ContextEffect`)
says what a step of `SQLTransaction` can change of what scripts see, step by step and
outcome by outcome: only `openTransactionAndPreflight` gets an SQLite transaction, a
commit comes at most once and before anything was told, an error callback never
follows a commit.  Then there is one lemma per action of `WebDatabase` (`...Seen`), which names the
abstract action it performs, or shows that it is invisible: asking for the lock,
being granted it, beginning the next of the queue and every synchronous wait are.

Only model-checked:

- all liveness (the prover has no rules for fairness).  Every other property that a
  passing run checks is stated by a theorem; two of them, `SynchronousTasksSurvive`
  and `ClosesOnlyOpenDatabases`, under the hypotheses above;
- what the three violation runs show.

## 5. Not modelled, and the plan

Not modelled: see `components` in `PROJECT.json`.  Besides the sequential parts
of the engine these are IndexedDB, the application cache, message ports and
WebSockets.  Within the modelled parts, left out are: errors of the tracker's
own SQLite file, the deletion of that file with the last origin, and its notifications
to the embedder, the loading of the tracker of
localStorage and its own table, the statements of `SQLTransactionSync` (they run
inside one script call), and the connection behind `SQLiteTransaction::stop`.

Done, in this order: coordinator with proofs, transaction, composition with
threads and termination, versions with proofs, queue and synchronizer,
localStorage, tracker and quota, dedicated workers, proofs about the queue,
localStorage, workers, the tracker and `WebDatabase`, and its refinement of
`TransactionService`.  Next:

1. The connection behind `SQLiteTransaction::stop` (the remaining hazard without a
   property) and `SQLTransactionSync` with its nested script calls.
2. `MessagePortChannel` (ports entangled, transferred and closed on different
   threads), on top of `MessageQueue`; `ApplicationCacheGroup`; IndexedDB's
   transactions.

## 6. Running

    tlc -config MCDocument.cfg MCWebDatabase       # any run of PROJECT.json
    tlapm CoordinationInfoProofs.tla
    tlapm SQLTransactionCoordinatorProofs.tla
    tlapm DatabaseVersionProofs.tla
    tlapm DatabaseTaskSynchronizerProofs.tla
    tlapm StorageAreaSyncProofs.tla
    tlapm DedicatedWorkerProofs.tla
    tlapm DatabaseTrackerProofs.tla
    tlapm WebDatabaseProofs.tla                    # about a quarter of an hour

The runs take between a second and about three minutes with two workers.
Operators marked "Mutant" are not part of a specification: each is a plausible
bug, and replacing the definition named in `PROJECT.json` by it makes TLC report
the property that guards against it.
