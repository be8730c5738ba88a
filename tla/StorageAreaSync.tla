--------------------------- MODULE StorageAreaSync ---------------------------
(***************************************************************************)
(* The write-back of one localStorage area.  Scripts change the items in    *)
(* memory (StorageAreaImpl, main thread); StorageAreaSync collects the      *)
(* changes, a timer moves them into a batch, and the storage thread writes  *)
(* the batch to the area's database.  A change is in one of four layers:    *)
(*                                                                         *)
(*   changedItems, itemsCleared       collected on the main thread         *)
(*   pending, clearWhileSyncing       the batch, under m_syncLock          *)
(*   thread.items, thread.clear       being written by performSync         *)
(*   disk                             the table ItemTable                  *)
(*                                                                         *)
(* and an upper layer hides the lower ones.  The user may delete the origin *)
(* (StorageTracker, with a thread of its own), the embedder may ask for a   *)
(* sync, and at the end the namespace is closed: a last batch is written    *)
(* and the storage thread joined.  Opening, reading and writing may fail.   *)
(***************************************************************************)
EXTENDS Integers, Sequences, FiniteSets

CONSTANTS
  Keys, Values,
  Null,              \* String(): no value, and in a layer the removal of a key
  Untouched,         \* a layer has no entry for a key
  MaxiumItemsToSync, \* items moved in one go
  MaxChanges         \* bound on what scripts and users do

ASSUME ConstantsAssumption ==
  /\ Null \notin Values /\ Untouched \notin Values \cup {Null}
  /\ MaxiumItemsToSync \in Nat /\ MaxChanges \in Nat
  /\ IsFiniteSet(Keys)

VARIABLES
  memory,             \* m_storageMap
  importComplete,     \* m_importComplete
  changedItems, itemsCleared, timer, finalSync,
  closing,            \* the main thread waits for the storage thread to end
  pending, clearWhileSyncing, syncScheduled, syncInProgress,
  closeDatabase,      \* m_syncCloseDatabase
  openFailed,         \* m_databaseOpenFailed
  connection,         \* m_database: closed, open on the file, or open on a
                      \*   file that has been deleted
  disk, fileExists,
  tasks, thread,      \* the storage thread: its queue and what it does
  trackerActive, deleting, originBeingDeleted, deletions,
  suddenTermination,  \* calls of disable- minus calls of enableSuddenTermination
  changes,            \* counts against MaxChanges
  requested,          \* history: scheduleSync was called
  faults              \* history: what failed or was given up

mainVars == <<memory, changedItems, itemsCleared, timer, finalSync, closing, deleting, changes>>
batchVars == <<pending, clearWhileSyncing, syncScheduled, syncInProgress>>
diskVars == <<connection, disk, fileExists, openFailed>>
trackerVars == <<trackerActive, originBeingDeleted, deletions>>
vars == <<mainVars, batchVars, diskVars, trackerVars,
          importComplete, closeDatabase, tasks, thread, suddenTermination, requested, faults>>

NoItems == [k \in Keys |-> Untouched]
NoValues == [k \in Keys |-> Null]
Touched(items) == {k \in Keys : items[k] # Untouched}

\* set() for every entry of `items`, into a layer or into the table.
Apply(items, below) == [k \in Keys |-> IF items[k] # Untouched THEN items[k] ELSE below[k]]

Idle == [phase |-> "idle", items |-> NoItems, clear |-> FALSE]

Init ==
  /\ memory = NoValues
  /\ importComplete = FALSE
  /\ changedItems = NoItems /\ itemsCleared = FALSE /\ timer = FALSE
  /\ finalSync = FALSE /\ closing = FALSE
  /\ pending = NoItems /\ clearWhileSyncing = FALSE
  /\ syncScheduled = FALSE /\ syncInProgress = FALSE
  /\ closeDatabase = FALSE /\ openFailed = FALSE
  /\ connection = "closed"
  /\ fileExists \in BOOLEAN
  /\ disk \in [Keys -> Values \cup {Null}]
  /\ ~fileExists => disk = NoValues
  /\ tasks = <<"import">>
  /\ thread = Idle
  /\ trackerActive \in BOOLEAN
  /\ deleting = FALSE /\ originBeingDeleted = FALSE /\ deletions = 0
  /\ suddenTermination = 0
  /\ changes = 0
  /\ requested = FALSE
  /\ faults = {}

-----------------------------------------------------------------------------
(* The main thread                                                         *)

\* Every access to the area blocks until the import is complete; nothing is
\* called any more once the namespace is closed.
Ready == importComplete /\ ~finalSync /\ ~deleting

Change == changes < MaxChanges /\ changes' = changes + 1

\* Mutant: sudden termination is not disabled.
StartTimerOnly ==
  /\ timer' = TRUE
  /\ UNCHANGED suddenTermination

\* The common end of the schedule... functions: start the timer unless it runs.
StartTimer ==
  /\ timer' = TRUE
  /\ suddenTermination' = IF timer THEN suddenTermination ELSE suddenTermination + 1

ScheduleItemForSync(key, value) ==
  /\ changedItems' = [changedItems EXCEPT ![key] = value]
  /\ StartTimer
  /\ UNCHANGED itemsCleared

\* Mutant: the changes from before the clear stay.
ScheduleClearKeepingChanges ==
  /\ itemsCleared' = TRUE
  /\ StartTimer
  /\ UNCHANGED changedItems

ScheduleClear ==
  /\ changedItems' = NoItems
  /\ itemsCleared' = TRUE
  /\ StartTimer

\* setItem (a null value is removeItem): nothing happens if the value is there.
SetItem(key, value) ==
  /\ Ready /\ Change
  /\ memory[key] # value
  /\ memory' = [memory EXCEPT ![key] = value]
  /\ ScheduleItemForSync(key, value)
  /\ UNCHANGED <<finalSync, closing, deleting, batchVars, diskVars, trackerVars,
                 importComplete, closeDatabase, tasks, thread, requested, faults>>

Clear ==
  /\ Ready /\ Change
  /\ memory # NoValues
  /\ memory' = NoValues
  /\ ScheduleClear
  /\ UNCHANGED <<finalSync, closing, deleting, batchVars, diskVars, trackerVars,
                 importComplete, closeDatabase, tasks, thread, requested, faults>>

\* StorageTracker::deleteOrigin, up to PageGroup::clearLocalStorageForOrigin.
\* scheduleCloseDatabase looks at the connection of the storage thread.
ClearForOriginDeletion ==
  /\ Ready /\ Change
  /\ trackerActive
  /\ memory' = NoValues
  /\ ScheduleClear
  /\ closeDatabase' = (closeDatabase \/ connection # "closed")
  /\ deleting' = TRUE
  /\ UNCHANGED <<finalSync, closing, batchVars, diskVars, trackerVars,
                 importComplete, tasks, thread, requested, faults>>

\* The rest of it: willDeleteOrigin, and a task for the tracker's thread.
WillDeleteOrigin ==
  /\ deleting
  /\ deleting' = FALSE
  /\ originBeingDeleted' = TRUE
  /\ deletions' = deletions + 1
  /\ UNCHANGED <<memory, changedItems, itemsCleared, timer, finalSync, closing, changes, trackerActive,
                 batchVars, diskVars, importComplete, closeDatabase, tasks, thread,
                 suddenTermination, requested, faults>>

\* Mutant: the timer is not started again.
PutOffForGood(active, disabled, last) ==
  /\ syncInProgress /\ ~last
  /\ timer' = active
  /\ suddenTermination' = disabled
  /\ UNCHANGED <<changedItems, itemsCleared, batchVars, tasks, faults>>

\* syncTimerFired.  `active` tells whether the timer runs meanwhile (only when
\* the function is called directly), `disabled` is the count so far, `last` is
\* m_finalSyncScheduled.  A sync in progress puts it off.
PutOff(active, disabled, last) ==
  /\ syncInProgress /\ ~last
  /\ timer' = TRUE
  /\ suddenTermination' = disabled
  /\ UNCHANGED <<changedItems, itemsCleared, batchVars, tasks, faults>>

\* Mutant: the last sync is limited as well.
ReachedLimited(moved, last) ==
  /\ moved \subseteq Touched(changedItems)
  /\ \/ moved = Touched(changedItems) /\ Cardinality(moved) <= MaxiumItemsToSync
     \/ moved # Touched(changedItems) /\ Cardinality(moved) = MaxiumItemsToSync

\* The loop over m_changedItems ends after MaxiumItemsToSync items, except for
\* the last sync.
Reached(moved, last) ==
  /\ moved \subseteq Touched(changedItems)
  /\ \/ moved = Touched(changedItems) /\ (last \/ Cardinality(moved) <= MaxiumItemsToSync)
     \/ moved # Touched(changedItems) /\ ~last /\ Cardinality(moved) = MaxiumItemsToSync

\* The items that were reached go into the batch.  A partial sync forgets every
\* changed key that is in the batch, also one that is there with an older value.
MoveToBatch(moved, active, disabled) ==
  LET partial == moved # Touched(changedItems)
      below == IF itemsCleared THEN NoItems ELSE pending
      batch == [k \in Keys |-> IF k \in moved THEN changedItems[k] ELSE below[k]]
      forgotten == {k \in Touched(changedItems) \ moved : batch[k] # Untouched}
  IN
  /\ pending' = batch
  /\ clearWhileSyncing' = (clearWhileSyncing \/ itemsCleared)
  /\ itemsCleared' = FALSE
  /\ changedItems' = [k \in Keys |-> IF partial /\ batch[k] = Untouched THEN changedItems[k] ELSE Untouched]
  /\ syncScheduled' = TRUE
  /\ tasks' = IF syncScheduled THEN tasks ELSE Append(tasks, "sync")
  /\ timer' = (partial \/ active)
  /\ suddenTermination' = disabled + (IF syncScheduled THEN 0 ELSE 1) - (IF partial THEN 0 ELSE 1)
  /\ faults' = IF partial /\ forgotten # {} THEN faults \cup {"overtaken"} ELSE faults
  /\ UNCHANGED syncInProgress

SyncTimerFired(active, disabled, last) ==
  \/ PutOff(active, disabled, last)
  \/ /\ ~syncInProgress \/ last
     /\ \E moved \in SUBSET Keys : Reached(moved, last) /\ MoveToBatch(moved, active, disabled)

\* The timer, a one-shot, fires.
TimerFires ==
  /\ timer /\ ~deleting /\ ~finalSync
  /\ SyncTimerFired(FALSE, suddenTermination, FALSE)
  /\ UNCHANGED <<memory, finalSync, closing, deleting, changes, diskVars, trackerVars,
                 importComplete, closeDatabase, thread, requested>>

\* sync, for the embedder: the timer is left as it is.
ScheduleSync ==
  /\ Ready /\ Change
  /\ requested' = TRUE
  /\ SyncTimerFired(timer, suddenTermination, FALSE)
  /\ UNCHANGED <<memory, finalSync, closing, deleting, diskVars, trackerVars,
                 importComplete, closeDatabase, thread>>

\* StorageNamespaceImpl::close: the last sync of the area ...
ScheduleFinalSync ==
  /\ Ready
  /\ finalSync' = TRUE
  /\ SyncTimerFired(FALSE, suddenTermination + (IF timer THEN 0 ELSE 1), TRUE)
  /\ UNCHANGED <<memory, closing, deleting, changes, diskVars, trackerVars,
                 importComplete, closeDatabase, thread, requested>>

\* ... and after it scheduleDeleteEmptyDatabase and the end of the thread, for
\* which the main thread waits.
Close ==
  /\ finalSync /\ ~closing
  /\ closing' = TRUE
  /\ tasks' = tasks \o <<"deleteEmpty", "terminate">>
  /\ UNCHANGED <<memory, changedItems, itemsCleared, timer, finalSync, deleting, changes,
                 batchVars, diskVars, trackerVars, importComplete, closeDatabase, thread,
                 suddenTermination, requested, faults>>

-----------------------------------------------------------------------------
(* The storage thread                                                      *)

Performs(task) == thread.phase = "idle" /\ tasks # <<>> /\ Head(tasks) = task

\* openDatabase(SkipIfNonExistent) and the SELECT.  When only CREATE TABLE fails
\* the database stays open.
PerformImport ==
  /\ Performs("import")
  /\ tasks' = Tail(tasks)
  /\ importComplete' = TRUE
  /\ \/ ~fileExists /\ UNCHANGED <<memory, connection, openFailed, faults>>
     \/ /\ fileExists
        /\ \/ connection' = "file" /\ memory' = disk /\ UNCHANGED <<openFailed, faults>>
           \/ connection' = "file" /\ faults' = faults \cup {"import"} /\ UNCHANGED <<memory, openFailed>>
           \/ /\ connection' \in {"closed", "file"} /\ openFailed' = TRUE
              /\ faults' = faults \cup {"open"}
              /\ UNCHANGED memory
  /\ UNCHANGED <<changedItems, itemsCleared, timer, finalSync, closing, deleting, changes,
                 batchVars, disk, fileExists, trackerVars, closeDatabase, thread,
                 suddenTermination, requested>>

\* performSync takes the batch.
PerformSync ==
  /\ Performs("sync")
  /\ tasks' = Tail(tasks)
  /\ thread' = [phase |-> "sync", items |-> pending, clear |-> clearWhileSyncing]
  /\ pending' = NoItems /\ clearWhileSyncing' = FALSE
  /\ syncScheduled' = FALSE /\ syncInProgress' = TRUE
  /\ UNCHANGED <<mainVars, diskVars, trackerVars, importComplete, closeDatabase,
                 suddenTermination, requested, faults>>

\* sync() returns: what it had taken is written, or given up for good.
SyncReturns(reason) ==
  /\ thread' = [Idle EXCEPT !.phase = "finish"]
  /\ faults' = faults \cup reason

\* The early returns of sync(), and the way to an open database.  Opening
\* first cancels a deletion of the origin that is under way.
BeginSync ==
  /\ thread.phase = "sync"
  /\ \/ /\ Touched(thread.items) = {} /\ ~thread.clear
        /\ SyncReturns({})
        /\ UNCHANGED originBeingDeleted
     \/ /\ Touched(thread.items) # {} \/ thread.clear
        /\ openFailed
        /\ SyncReturns({"open"})
        /\ UNCHANGED originBeingDeleted
     \/ /\ Touched(thread.items) # {} \/ thread.clear
        /\ ~openFailed
        /\ thread' = [thread EXCEPT !.phase = IF connection = "closed" THEN "open" ELSE "write"]
        /\ originBeingDeleted' = (originBeingDeleted /\ connection # "closed")
        /\ UNCHANGED faults
  /\ UNCHANGED <<mainVars, batchVars, diskVars, trackerActive, deletions, importComplete,
                 closeDatabase, tasks, suddenTermination, requested>>

\* openDatabase(CreateIfNonExistent).  When only CREATE TABLE fails, this sync
\* goes on with the open database and later ones return early.
OpenDatabase ==
  /\ thread.phase = "open"
  /\ \/ /\ connection' = "file" /\ fileExists' = TRUE
        /\ thread' = [thread EXCEPT !.phase = "write"]
        /\ openFailed' \in BOOLEAN
        /\ UNCHANGED faults
     \/ /\ openFailed' = TRUE
        /\ SyncReturns({"open"})
        /\ UNCHANGED <<connection, fileExists>>
  /\ UNCHANGED <<mainVars, batchVars, disk, trackerVars, importComplete, closeDatabase,
                 tasks, suddenTermination, requested>>

\* The rest of sync(): it closes the database for its deletion, or writes; a
\* write fails after some of the statements.
WriteItems ==
  LET below == IF thread.clear THEN NoValues ELSE disk
  IN
  /\ thread.phase = "write"
  /\ \/ /\ closeDatabase
        /\ closeDatabase' = FALSE /\ connection' = "closed"
        /\ SyncReturns({"closed"})
        /\ UNCHANGED disk
     \/ /\ ~closeDatabase
        /\ \/ /\ connection = "file"
              /\ disk' = Apply(thread.items, below)
              /\ SyncReturns({})
           \/ /\ connection = "file"
              /\ \E written \in SUBSET Touched(thread.items) :
                   disk' \in {disk, [k \in Keys |-> IF k \in written THEN thread.items[k] ELSE below[k]]}
              /\ SyncReturns({"write"})
           \/ /\ connection = "unlinked"
              /\ SyncReturns({"deleted"})
              /\ UNCHANGED disk
        /\ UNCHANGED <<closeDatabase, connection>>
  /\ UNCHANGED <<mainVars, batchVars, fileExists, openFailed, trackerVars, importComplete,
                 tasks, suddenTermination, requested>>

\* The end of performSync.
FinishSync ==
  /\ thread.phase = "finish"
  /\ thread' = Idle
  /\ syncInProgress' = FALSE
  /\ suddenTermination' = suddenTermination - 1
  /\ UNCHANGED <<mainVars, pending, clearWhileSyncing, syncScheduled, diskVars, trackerVars,
                 importComplete, closeDatabase, tasks, requested, faults>>

\* deleteEmptyDatabase: an empty table takes its file with it.  With a tracker
\* this is StorageTracker::deleteOrigin, called from the storage thread: it also
\* clears the area, whose timer then never fires.
DeleteEmptyDatabase ==
  /\ Performs("deleteEmpty")
  /\ tasks' = Tail(tasks)
  /\ \/ UNCHANGED <<mainVars, connection, disk, fileExists, trackerVars, suddenTermination>>
     \/ /\ connection = "unlinked" \/ (connection = "file" /\ disk = NoValues)
        /\ connection' = "closed"
        /\ \/ /\ ~trackerActive
              /\ fileExists' = FALSE
              /\ UNCHANGED <<mainVars, originBeingDeleted, deletions, suddenTermination>>
           \/ /\ trackerActive
              /\ memory' = NoValues
              /\ ScheduleClear
              /\ originBeingDeleted' = TRUE /\ deletions' = deletions + 1
              /\ UNCHANGED <<finalSync, closing, deleting, changes, fileExists>>
        /\ UNCHANGED <<disk, trackerActive>>
  /\ UNCHANGED <<batchVars, openFailed, importComplete, closeDatabase, thread, requested, faults>>

PerformTerminate ==
  /\ Performs("terminate")
  /\ tasks' = Tail(tasks)
  /\ thread' = [Idle EXCEPT !.phase = "ended"]
  /\ UNCHANGED <<mainVars, batchVars, diskVars, trackerVars, importComplete, closeDatabase,
                 suddenTermination, requested, faults>>

\* The tracker's thread: syncDeleteOrigin.  The deletion may have been cancelled,
\* and the tracker may not know the origin's file yet.
SyncDeleteOrigin ==
  /\ deletions > 0
  /\ deletions' = deletions - 1
  /\ \/ UNCHANGED <<connection, disk, fileExists, faults>>
     \/ /\ originBeingDeleted /\ fileExists
        /\ fileExists' = FALSE /\ disk' = NoValues
        /\ connection' = IF connection = "file" THEN "unlinked" ELSE connection
        /\ faults' = IF connection = "file" THEN faults \cup {"deleted"} ELSE faults
  /\ UNCHANGED <<mainVars, batchVars, openFailed, trackerActive, originBeingDeleted,
                 importComplete, closeDatabase, tasks, thread, suddenTermination, requested>>

-----------------------------------------------------------------------------

ThreadStep ==
  \/ PerformImport \/ PerformSync \/ BeginSync \/ OpenDatabase \/ WriteItems \/ FinishSync
  \/ DeleteEmptyDatabase \/ PerformTerminate

Next ==
  \/ \E key \in Keys, value \in Values \cup {Null} : SetItem(key, value)
  \/ Clear \/ ClearForOriginDeletion \/ WillDeleteOrigin
  \/ TimerFires \/ ScheduleSync \/ ScheduleFinalSync \/ Close
  \/ ThreadStep
  \/ SyncDeleteOrigin

Spec == Init /\ [][Next]_vars

\* The storage thread runs and the main thread serves its timers.  Nobody is
\* forced to close the namespace.
FairSpec == Spec /\ WF_vars(ThreadStep) /\ WF_vars(TimerFires) /\ WF_vars(WillDeleteOrigin)

-----------------------------------------------------------------------------
(* Properties                                                              *)

Layer == [Keys -> Values \cup {Null, Untouched}]

\* The layers, the flags and the storage thread stay well-typed.
MainOK ==
  /\ memory \in [Keys -> Values \cup {Null}] /\ changedItems \in Layer
  /\ itemsCleared \in BOOLEAN /\ timer \in BOOLEAN /\ finalSync \in BOOLEAN
  /\ closing \in BOOLEAN /\ deleting \in BOOLEAN /\ changes \in Nat
BatchOK ==
  /\ pending \in Layer /\ clearWhileSyncing \in BOOLEAN
  /\ syncScheduled \in BOOLEAN /\ syncInProgress \in BOOLEAN
DiskOK ==
  /\ connection \in {"closed", "file", "unlinked"} /\ disk \in [Keys -> Values \cup {Null}]
  /\ fileExists \in BOOLEAN /\ openFailed \in BOOLEAN
TrackerOK ==
  trackerActive \in BOOLEAN /\ originBeingDeleted \in BOOLEAN /\ deletions \in Nat
ThreadOK ==
  /\ thread \in [phase : {"idle", "sync", "open", "write", "finish", "ended"},
                 items : Layer, clear : BOOLEAN]
  /\ tasks \in Seq({"import", "sync", "deleteEmpty", "terminate"})
  /\ importComplete \in BOOLEAN /\ closeDatabase \in BOOLEAN
RestOK ==
  /\ suddenTermination \in Int /\ requested \in BOOLEAN
  /\ faults \subseteq {"import", "open", "write", "closed", "deleted", "overtaken"}
TypeOK == MainOK /\ BatchOK /\ DiskOK /\ TrackerOK /\ ThreadOK /\ RestOK

\* What a key has when a layer with a change and a clear is put over `below`.
Over(change, clear, below) ==
  IF change # Untouched THEN change ELSE IF clear THEN Null ELSE below

\* What the table will hold once everything that is on its way has been written.
OnTheWay(k) ==
  Over(changedItems[k], itemsCleared,
    Over(pending[k], clearWhileSyncing,
      Over(thread.items[k], thread.clear, disk[k])))

\* No change is forgotten between setItem and the table, and none comes back
\* that a later one or a clear has replaced, however the timer, the batches and
\* the storage thread overlap: with every layer applied in order the table has
\* what scripts see.  Not so after a failure of SQLite, after a deletion of the
\* origin closed or deleted the database, or when a partial sync dropped a
\* change whose key was still in the batch with an older value.
NothingForgotten ==
  faults = {} /\ importComplete => \A k \in Keys : OnTheWay(k) = memory[k]

\* Both: no change is lost or reordered on its way to the table.
WriteBackInvariant == TypeOK /\ NothingForgotten

\* When the storage thread has been joined the table has what scripts last saw:
\* the last sync takes everything and the queue is in order.
WrittenAtShutdown ==
  faults = {} /\ thread.phase = "ended" => disk = memory

\* While a change has not been written, or is being written, the process may not
\* be killed (the comments "balanced by"), unless scheduleSync was called, which
\* enables sudden termination without having disabled it.
SuddenTerminationDisabled ==
  ~requested /\ (changedItems # NoItems \/ itemsCleared \/ syncScheduled \/ syncInProgress)
    => suddenTermination > 0

\* Every change reaches the table in the end, without a shutdown.
EventuallyWritten == <>[](faults # {} \/ disk = memory)
=============================================================================
