------------------------ MODULE StorageAreaSyncProofs ------------------------
(***************************************************************************)
(* Proofs about StorageAreaSync, for every finite set of keys, every set of *)
(* values, every limit of a batch and every number of changes.              *)
(***************************************************************************)
EXTENDS StorageAreaSync, SequenceTheorems, TLAPS

-----------------------------------------------------------------------------
(* The inductive invariant.                                                *)

\* Before the import nothing has happened.
NothingBeforeImport ==
  ~importComplete =>
    /\ memory = NoValues /\ changedItems = NoItems /\ ~itemsCleared /\ ~timer
    /\ pending = NoItems /\ ~clearWhileSyncing /\ ~syncScheduled
    /\ thread = Idle /\ tasks = <<"import">>
    /\ ~fileExists => disk = NoValues
    /\ ~finalSync /\ ~closing /\ ~deleting /\ deletions = 0 /\ ~originBeingDeleted

\* After it the queue of the storage thread has a sync exactly when one is
\* scheduled, and in front of the two tasks that close the area.
TasksInOrder ==
  importComplete =>
    \/ ~closing /\ thread.phase # "ended" /\ ~syncScheduled /\ tasks = <<>>
    \/ ~closing /\ thread.phase # "ended" /\ syncScheduled /\ tasks = <<"sync">>
    \/ closing /\ thread.phase # "ended" /\ syncScheduled /\ tasks = <<"sync", "deleteEmpty", "terminate">>
    \/ closing /\ thread.phase # "ended" /\ ~syncScheduled /\ tasks = <<"deleteEmpty", "terminate">>
    \/ closing /\ thread.phase = "idle" /\ ~syncScheduled /\ tasks = <<"terminate">>
    \/ closing /\ thread.phase = "ended" /\ ~syncScheduled /\ tasks = <<>>

\* The storage thread holds a batch only inside of sync(), and writes only to a
\* database that is open; a file that was deleted under it is a fault.
ThreadHoldsBatch ==
  /\ thread.phase \in {"idle", "finish", "ended"} => thread.items = NoItems /\ ~thread.clear
  /\ syncInProgress <=> thread.phase \in {"sync", "open", "write", "finish"}
  /\ thread.phase = "write" => connection # "closed"
  /\ connection = "unlinked" => faults # {}

\* A batch has its task, collected changes have their timer, and the last sync
\* leaves nothing behind; only the deletion of an empty file clears once more.
NothingLeftAlone ==
  /\ pending # NoItems \/ clearWhileSyncing => syncScheduled
  /\ changedItems # NoItems \/ itemsCleared => timer
  /\ closing => finalSync
  /\ finalSync => changedItems = NoItems
  /\ finalSync /\ itemsCleared =>
       closing /\ tasks \in {<<"terminate">>, <<>>} /\ (faults = {} => disk = NoValues)

\* A file that the tracker may delete has nothing that scripts still see.
DeletionHarmless ==
  /\ deleting => itemsCleared
  /\ faults = {} /\ originBeingDeleted /\ connection = "closed" =>
       itemsCleared \/ clearWhileSyncing \/ thread.clear \/ disk = NoValues

\* Calls of disableSuddenTermination that are still to be balanced: one for the
\* timer, one for the scheduled sync and one for the sync in progress.
One(b) == IF b THEN 1 ELSE 0
SuddenTerminationBalanced ==
  ~requested => suddenTermination = One(timer) + One(syncScheduled) + One(syncInProgress)

IInv ==
  /\ TypeOK /\ NothingForgotten
  /\ NothingBeforeImport /\ TasksInOrder /\ ThreadHoldsBatch /\ NothingLeftAlone
  /\ DeletionHarmless /\ SuddenTerminationBalanced

-----------------------------------------------------------------------------
(* Facts about the values that the actions are made of.                    *)

\* Empty layers and an empty table.
LEMMA EmptyLayers ==
  /\ NoItems \in Layer /\ NoValues \in [Keys -> Values \cup {Null}]
  /\ \A k \in Keys : NoItems[k] = Untouched /\ NoValues[k] = Null
BY ConstantsAssumption DEF NoItems, NoValues, Layer

\* A layer without entries is the empty one.
LEMMA UntouchedLayer ==
  ASSUME NEW items \in Layer, Touched(items) = {}
  PROVE  items = NoItems
BY DEF Layer, Touched, NoItems

\* The thread between two batches.
LEMMA IdleThread ==
  ASSUME NEW p \in {"idle", "finish", "ended"}
  PROVE  LET idle == [Idle EXCEPT !.phase = p]
         IN  /\ idle \in [phase : {"idle", "sync", "open", "write", "finish", "ended"},
                          items : Layer, clear : BOOLEAN]
             /\ idle.phase = p /\ idle.items = NoItems /\ idle.clear = FALSE
BY EmptyLayers DEF Idle

\* The queues of the storage thread that TasksInOrder names.
LEMMA TaskQueues ==
  /\ Tail(<<"import">>) = <<>> /\ Tail(<<"sync">>) = <<>> /\ Tail(<<"terminate">>) = <<>>
  /\ Tail(<<"sync", "deleteEmpty", "terminate">>) = <<"deleteEmpty", "terminate">>
  /\ Tail(<<"deleteEmpty", "terminate">>) = <<"terminate">>
  /\ Head(<<"import">>) = "import" /\ Head(<<"sync">>) = "sync" /\ Head(<<"terminate">>) = "terminate"
  /\ Head(<<"sync", "deleteEmpty", "terminate">>) = "sync"
  /\ Head(<<"deleteEmpty", "terminate">>) = "deleteEmpty"
OBVIOUS

\* Close appends the last two tasks.
LEMMA LastTasks ==
  /\ <<>> \o <<"deleteEmpty", "terminate">> = <<"deleteEmpty", "terminate">>
  /\ <<"sync">> \o <<"deleteEmpty", "terminate">> = <<"sync", "deleteEmpty", "terminate">>
<1> DEFINE a == <<"sync">>
           b == <<"deleteEmpty", "terminate">>
           c == <<"sync", "deleteEmpty", "terminate">>
           S == {"sync", "deleteEmpty", "terminate"}
<1>1. /\ a \in Seq(S) /\ b \in Seq(S) /\ c \in Seq(S)
      /\ Len(a) = 1 /\ Len(b) = 2 /\ Len(c) = 3
  OBVIOUS
<1>2. a[1] = c[1] /\ b[1] = c[2] /\ b[2] = c[3]
  OBVIOUS
<1>3. <<>> \o b = b
  OBVIOUS
<1> HIDE DEF a, b, c
<1>4. /\ Len(a \o b) = 3 /\ a \o b \in Seq(S)
      /\ \A i \in 1..3 : (a \o b)[i] = IF i <= 1 THEN a[i] ELSE b[i - 1]
  <2> HIDE DEF S
  <2>1. /\ a \o b \in Seq(S) /\ Len(a \o b) = Len(a) + Len(b)
        /\ \A i \in 1..Len(a) + Len(b) : (a \o b)[i] = IF i <= Len(a) THEN a[i] ELSE b[i - Len(a)]
    BY <1>1, ConcatProperties
  <2> QED BY <1>1, <2>1
<1>5. \A i \in 1..3 : (a \o b)[i] = c[i]
  BY <1>2, <1>4
<1>6. a \o b = c
  BY <1>1, <1>4, <1>5, SeqEqual
<1> QED BY <1>3, <1>6 DEF a, b, c

\* The storage thread does nothing else before the import.
LEMMA ImportedFirst ==
  ASSUME IInv, \/ thread.phase # "idle"
               \/ tasks # <<>> /\ Head(tasks) # "import"
  PROVE  importComplete
BY TaskQueues DEF IInv, NothingBeforeImport, Idle

-----------------------------------------------------------------------------
(* One lemma for each action.                                              *)

\* A changed item hides what is below it.
LEMMA SetItemStep ==
  ASSUME IInv, NEW key \in Keys, NEW value \in Values \cup {Null}, SetItem(key, value)
  PROVE  IInv'
<1> USE EmptyLayers DEF IInv, SetItem, ScheduleItemForSync, StartTimer, Ready, Change,
            mainVars, batchVars, diskVars, trackerVars
<1>1. TypeOK'
  <2>1. MainOK'
    BY DEF TypeOK, MainOK, Layer
  <2>2. BatchOK'
    BY DEF TypeOK, BatchOK
  <2>3. DiskOK'
    BY DEF TypeOK, DiskOK
  <2>4. TrackerOK'
    BY DEF TypeOK, TrackerOK
  <2>5. ThreadOK'
    BY DEF TypeOK, ThreadOK
  <2>6. RestOK'
    BY DEF TypeOK, RestOK, MainOK
  <2> QED BY <2>1, <2>2, <2>3, <2>4, <2>5, <2>6 DEF TypeOK
<1>2. NothingForgotten'
  BY ConstantsAssumption DEF NothingForgotten, OnTheWay, Over, TypeOK, MainOK, Layer
<1>3. NothingBeforeImport'
  BY DEF NothingBeforeImport
<1>4. TasksInOrder'
  BY DEF TasksInOrder
<1>5. ThreadHoldsBatch'
  BY DEF ThreadHoldsBatch
<1>6. NothingLeftAlone'
  BY DEF NothingLeftAlone
<1>7. DeletionHarmless'
  BY DEF DeletionHarmless
<1>8. SuddenTerminationBalanced'
  BY DEF SuddenTerminationBalanced, One
<1> QED BY <1>1, <1>2, <1>3, <1>4, <1>5, <1>6, <1>7, <1>8

\* So does a clear by a script.
LEMMA ClearStep ==
  ASSUME IInv, Clear
  PROVE  IInv'
<1> USE EmptyLayers DEF IInv, Clear, ScheduleClear, StartTimer, Ready, Change,
            mainVars, batchVars, diskVars, trackerVars
<1>1. TypeOK'
  <2>1. MainOK'
    BY DEF TypeOK, MainOK
  <2>2. BatchOK'
    BY DEF TypeOK, BatchOK
  <2>3. DiskOK'
    BY DEF TypeOK, DiskOK
  <2>4. TrackerOK'
    BY DEF TypeOK, TrackerOK
  <2>5. ThreadOK'
    BY DEF TypeOK, ThreadOK
  <2>6. RestOK'
    BY DEF TypeOK, RestOK
  <2> QED BY <2>1, <2>2, <2>3, <2>4, <2>5, <2>6 DEF TypeOK
<1>2. NothingForgotten'
  BY DEF NothingForgotten, OnTheWay, Over
<1>3. NothingBeforeImport'
  BY DEF NothingBeforeImport
<1>4. TasksInOrder'
  BY DEF TasksInOrder
<1>5. ThreadHoldsBatch'
  BY DEF ThreadHoldsBatch
<1>6. NothingLeftAlone'
  BY DEF NothingLeftAlone
<1>7. DeletionHarmless'
  BY DEF DeletionHarmless
<1>8. SuddenTerminationBalanced'
  BY DEF SuddenTerminationBalanced, One
<1> QED BY <1>1, <1>2, <1>3, <1>4, <1>5, <1>6, <1>7, <1>8

\* And a clear for a deletion of the origin.
LEMMA ClearForOriginDeletionStep ==
  ASSUME IInv, ClearForOriginDeletion
  PROVE  IInv'
<1> USE EmptyLayers DEF IInv, ClearForOriginDeletion, ScheduleClear, StartTimer, Ready, Change,
            mainVars, batchVars, diskVars, trackerVars
<1>1. TypeOK'
  <2>1. MainOK'
    BY DEF TypeOK, MainOK
  <2>2. BatchOK'
    BY DEF TypeOK, BatchOK
  <2>3. DiskOK'
    BY DEF TypeOK, DiskOK
  <2>4. TrackerOK'
    BY DEF TypeOK, TrackerOK
  <2>5. ThreadOK'
    BY DEF TypeOK, ThreadOK
  <2>6. RestOK'
    BY DEF TypeOK, RestOK
  <2> QED BY <2>1, <2>2, <2>3, <2>4, <2>5, <2>6 DEF TypeOK
<1>2. NothingForgotten'
  BY DEF NothingForgotten, OnTheWay, Over
<1>3. NothingBeforeImport'
  BY DEF NothingBeforeImport
<1>4. TasksInOrder'
  BY DEF TasksInOrder
<1>5. ThreadHoldsBatch'
  BY DEF ThreadHoldsBatch
<1>6. NothingLeftAlone'
  BY DEF NothingLeftAlone
<1>7. DeletionHarmless'
  BY DEF DeletionHarmless
<1>8. SuddenTerminationBalanced'
  BY DEF SuddenTerminationBalanced, One
<1> QED BY <1>1, <1>2, <1>3, <1>4, <1>5, <1>6, <1>7, <1>8

\* The tracker takes note of the deletion.
LEMMA WillDeleteOriginStep ==
  ASSUME IInv, WillDeleteOrigin
  PROVE  IInv'
<1> USE EmptyLayers DEF IInv, WillDeleteOrigin,
            mainVars, batchVars, diskVars, trackerVars
<1>1. TypeOK'
  <2>1. MainOK'
    BY DEF TypeOK, MainOK
  <2>2. BatchOK'
    BY DEF TypeOK, BatchOK
  <2>3. DiskOK'
    BY DEF TypeOK, DiskOK
  <2>4. TrackerOK'
    BY DEF TypeOK, TrackerOK
  <2>5. ThreadOK'
    BY DEF TypeOK, ThreadOK
  <2>6. RestOK'
    BY DEF TypeOK, RestOK
  <2> QED BY <2>1, <2>2, <2>3, <2>4, <2>5, <2>6 DEF TypeOK
<1>2. NothingForgotten'
  BY DEF NothingForgotten, OnTheWay, Over
<1>3. NothingBeforeImport'
  BY DEF NothingBeforeImport
<1>4. TasksInOrder'
  BY DEF TasksInOrder
<1>5. ThreadHoldsBatch'
  BY DEF ThreadHoldsBatch
<1>6. NothingLeftAlone'
  BY DEF NothingLeftAlone
<1>7. DeletionHarmless'
  BY DEF DeletionHarmless
<1>8. SuddenTerminationBalanced'
  BY DEF SuddenTerminationBalanced, One
<1> QED BY <1>1, <1>2, <1>3, <1>4, <1>5, <1>6, <1>7, <1>8

\* The last two tasks come behind the last sync.
LEMMA CloseStep ==
  ASSUME IInv, Close
  PROVE  IInv'
<1> USE EmptyLayers, LastTasks DEF IInv, Close,
            mainVars, batchVars, diskVars, trackerVars
<1>1. TypeOK'
  <2>1. MainOK'
    BY DEF TypeOK, MainOK
  <2>2. BatchOK'
    BY DEF TypeOK, BatchOK
  <2>3. DiskOK'
    BY DEF TypeOK, DiskOK
  <2>4. TrackerOK'
    BY DEF TypeOK, TrackerOK
  <2>5. ThreadOK'
    BY DEF TypeOK, ThreadOK
  <2>6. RestOK'
    BY DEF TypeOK, RestOK
  <2> QED BY <2>1, <2>2, <2>3, <2>4, <2>5, <2>6 DEF TypeOK
<1>2. NothingForgotten'
  BY DEF NothingForgotten, OnTheWay, Over
<1>3. NothingBeforeImport'
  BY DEF NothingBeforeImport
<1>4. TasksInOrder'
  BY DEF TasksInOrder
<1>5. ThreadHoldsBatch'
  BY DEF ThreadHoldsBatch
<1>6. NothingLeftAlone'
  BY DEF NothingLeftAlone
<1>7. DeletionHarmless'
  BY DEF DeletionHarmless
<1>8. SuddenTerminationBalanced'
  BY DEF SuddenTerminationBalanced, One
<1> QED BY <1>1, <1>2, <1>3, <1>4, <1>5, <1>6, <1>7, <1>8

\* The import finds the area as it was at the start.
LEMMA PerformImportStep ==
  ASSUME IInv, PerformImport
  PROVE  IInv'
<1> USE EmptyLayers, TaskQueues DEF IInv, PerformImport, Performs,
            mainVars, batchVars, diskVars, trackerVars
<1>0. ~importComplete
  BY DEF TasksInOrder
<1> USE <1>0 DEF NothingBeforeImport
<1>1. TypeOK'
  <2>1. MainOK'
    BY DEF TypeOK, MainOK, DiskOK
  <2>2. BatchOK'
    BY DEF TypeOK, BatchOK
  <2>3. DiskOK'
    BY DEF TypeOK, DiskOK
  <2>4. TrackerOK'
    BY DEF TypeOK, TrackerOK
  <2>5. ThreadOK'
    BY DEF TypeOK, ThreadOK
  <2>6. RestOK'
    BY DEF TypeOK, RestOK
  <2> QED BY <2>1, <2>2, <2>3, <2>4, <2>5, <2>6 DEF TypeOK
<1>2. NothingForgotten'
  <2>1. ASSUME faults' = {}  PROVE memory' = disk
    BY <2>1
  <2>2. \A k \in Keys : OnTheWay(k)' = disk[k]
    BY DEF OnTheWay, Over, Idle
  <2> QED BY <2>1, <2>2 DEF NothingForgotten
<1>3. NothingBeforeImport'
  BY DEF NothingBeforeImport
<1>4. TasksInOrder'
  BY DEF TasksInOrder
<1>5. ThreadHoldsBatch'
  BY DEF ThreadHoldsBatch
<1>6. NothingLeftAlone'
  BY DEF NothingLeftAlone
<1>7. DeletionHarmless'
  BY DEF DeletionHarmless
<1>8. SuddenTerminationBalanced'
  BY DEF SuddenTerminationBalanced, One
<1> QED BY <1>1, <1>2, <1>3, <1>4, <1>5, <1>6, <1>7, <1>8

\* performSync takes the batch over as it is.
LEMMA PerformSyncStep ==
  ASSUME IInv, PerformSync
  PROVE  IInv'
<1> USE EmptyLayers, TaskQueues DEF IInv, PerformSync, Performs,
            mainVars, batchVars, diskVars, trackerVars
<1>0. importComplete
  BY ImportedFirst
<1>a. /\ thread'.phase = "sync" /\ thread'.items = pending /\ thread'.clear = clearWhileSyncing
      /\ thread.phase = "idle" /\ thread.items = NoItems /\ thread.clear = FALSE /\ ~syncInProgress
      /\ syncScheduled
  BY <1>0 DEF TypeOK, ThreadOK, BatchOK, ThreadHoldsBatch, TasksInOrder
<1> USE <1>0, <1>a
<1>1. TypeOK'
  <2>1. MainOK'
    BY DEF TypeOK, MainOK
  <2>2. BatchOK'
    BY DEF TypeOK, BatchOK
  <2>3. DiskOK'
    BY DEF TypeOK, DiskOK
  <2>4. TrackerOK'
    BY DEF TypeOK, TrackerOK
  <2>5. ThreadOK'
    BY DEF TypeOK, ThreadOK, BatchOK
  <2>6. RestOK'
    BY DEF TypeOK, RestOK
  <2> QED BY <2>1, <2>2, <2>3, <2>4, <2>5, <2>6 DEF TypeOK
<1>2. NothingForgotten'
  <2>1. \A k \in Keys : OnTheWay(k)' = OnTheWay(k)
    BY DEF OnTheWay, Over
  <2> QED BY <2>1 DEF NothingForgotten
<1>3. NothingBeforeImport'
  BY DEF NothingBeforeImport
<1>4. TasksInOrder'
  BY DEF TasksInOrder
<1>5. ThreadHoldsBatch'
  BY DEF ThreadHoldsBatch
<1>6. NothingLeftAlone'
  BY DEF NothingLeftAlone
<1>7. DeletionHarmless'
  BY DEF DeletionHarmless, TypeOK, BatchOK
<1>8. SuddenTerminationBalanced'
  BY DEF SuddenTerminationBalanced, One, TypeOK, RestOK, MainOK
<1> QED BY <1>1, <1>2, <1>3, <1>4, <1>5, <1>6, <1>7, <1>8

\* An early return of sync() has nothing to write, or is a fault.
LEMMA BeginSyncStep ==
  ASSUME IInv, BeginSync
  PROVE  IInv'
<1> USE EmptyLayers, IdleThread DEF IInv, BeginSync, SyncReturns,
            mainVars, batchVars, diskVars, trackerVars
<1>0. importComplete
  BY ImportedFirst
<1>a. /\ thread'.phase \in {"finish", "open", "write"}
      /\ thread'.phase = "finish" => thread'.items = NoItems /\ thread'.clear = FALSE
      /\ thread'.phase = "write" => connection # "closed"
      /\ faults' = {} => faults = {} /\ thread'.items = thread.items /\ thread'.clear = thread.clear
  BY UntouchedLayer DEF TypeOK, ThreadOK
<1> USE <1>0, <1>a
<1>1. TypeOK'
  <2>1. MainOK'
    BY DEF TypeOK, MainOK
  <2>2. BatchOK'
    BY DEF TypeOK, BatchOK
  <2>3. DiskOK'
    BY DEF TypeOK, DiskOK
  <2>4. TrackerOK'
    BY DEF TypeOK, TrackerOK
  <2>5. ThreadOK'
    BY DEF TypeOK, ThreadOK
  <2>6. RestOK'
    BY DEF TypeOK, RestOK
  <2> QED BY <2>1, <2>2, <2>3, <2>4, <2>5, <2>6 DEF TypeOK
<1>2. NothingForgotten'
  <2>1. ASSUME faults' = {}  PROVE \A k \in Keys : OnTheWay(k)' = OnTheWay(k)
    BY <2>1 DEF OnTheWay, Over
  <2> QED BY <2>1 DEF NothingForgotten
<1>3. NothingBeforeImport'
  BY DEF NothingBeforeImport
<1>4. TasksInOrder'
  BY DEF TasksInOrder
<1>5. ThreadHoldsBatch'
  BY DEF ThreadHoldsBatch
<1>6. NothingLeftAlone'
  BY DEF NothingLeftAlone
<1>7. DeletionHarmless'
  <2>1. faults' = {} /\ originBeingDeleted' /\ connection = "closed" => originBeingDeleted
    BY DEF TypeOK, TrackerOK
  <2> QED BY <2>1 DEF DeletionHarmless
<1>8. SuddenTerminationBalanced'
  BY DEF SuddenTerminationBalanced, One
<1> QED BY <1>1, <1>2, <1>3, <1>4, <1>5, <1>6, <1>7, <1>8

\* Opening the database.
LEMMA OpenDatabaseStep ==
  ASSUME IInv, OpenDatabase
  PROVE  IInv'
<1> USE EmptyLayers, IdleThread DEF IInv, OpenDatabase, SyncReturns,
            mainVars, batchVars, diskVars, trackerVars
<1>0. importComplete
  BY ImportedFirst
<1>a. /\ thread'.phase \in {"finish", "write"}
      /\ thread'.phase = "finish" => thread'.items = NoItems /\ thread'.clear = FALSE /\ faults' # {}
      /\ thread'.phase = "write" => connection' = "file"
      /\ faults' = {} => faults = {} /\ thread'.items = thread.items /\ thread'.clear = thread.clear
  BY DEF TypeOK, ThreadOK
<1> USE <1>0, <1>a
<1>1. TypeOK'
  <2>1. MainOK'
    BY DEF TypeOK, MainOK
  <2>2. BatchOK'
    BY DEF TypeOK, BatchOK
  <2>3. DiskOK'
    BY DEF TypeOK, DiskOK
  <2>4. TrackerOK'
    BY DEF TypeOK, TrackerOK
  <2>5. ThreadOK'
    BY DEF TypeOK, ThreadOK
  <2>6. RestOK'
    BY DEF TypeOK, RestOK
  <2> QED BY <2>1, <2>2, <2>3, <2>4, <2>5, <2>6 DEF TypeOK
<1>2. NothingForgotten'
  <2>1. ASSUME faults' = {}  PROVE \A k \in Keys : OnTheWay(k)' = OnTheWay(k)
    BY <2>1 DEF OnTheWay, Over
  <2> QED BY <2>1 DEF NothingForgotten
<1>3. NothingBeforeImport'
  BY DEF NothingBeforeImport
<1>4. TasksInOrder'
  BY DEF TasksInOrder
<1>5. ThreadHoldsBatch'
  BY DEF ThreadHoldsBatch
<1>6. NothingLeftAlone'
  BY DEF NothingLeftAlone
<1>7. DeletionHarmless'
  BY DEF DeletionHarmless
<1>8. SuddenTerminationBalanced'
  BY DEF SuddenTerminationBalanced, One
<1> QED BY <1>1, <1>2, <1>3, <1>4, <1>5, <1>6, <1>7, <1>8

\* What is written is what was on its way; everything else is a fault.
LEMMA WriteItemsStep ==
  ASSUME IInv, WriteItems
  PROVE  IInv'
<1> USE EmptyLayers, IdleThread DEF IInv, WriteItems, SyncReturns,
            mainVars, batchVars, diskVars, trackerVars
<1>0. importComplete
  BY ImportedFirst
<1>a. /\ thread'.phase = "finish" /\ thread'.items = NoItems /\ thread'.clear = FALSE
      /\ faults' = {} => /\ faults = {} /\ ~closeDatabase /\ connection = "file" /\ connection' = "file"
                         /\ disk' = Apply(thread.items, IF thread.clear THEN NoValues ELSE disk)
  OBVIOUS
<1> USE <1>0, <1>a
<1>1. TypeOK'
  <2>1. MainOK'
    BY DEF TypeOK, MainOK
  <2>2. BatchOK'
    BY DEF TypeOK, BatchOK
  <2>3. DiskOK'
    BY DEF TypeOK, DiskOK, ThreadOK, Layer, Apply, Touched
  <2>4. TrackerOK'
    BY DEF TypeOK, TrackerOK
  <2>5. ThreadOK'
    BY DEF TypeOK, ThreadOK
  <2>6. RestOK'
    BY DEF TypeOK, RestOK
  <2> QED BY <2>1, <2>2, <2>3, <2>4, <2>5, <2>6 DEF TypeOK
<1>2. NothingForgotten'
  <2>1. ASSUME faults' = {}  PROVE \A k \in Keys : OnTheWay(k)' = OnTheWay(k)
    BY <2>1 DEF OnTheWay, Over, Apply
  <2> QED BY <2>1 DEF NothingForgotten
<1>3. NothingBeforeImport'
  BY DEF NothingBeforeImport
<1>4. TasksInOrder'
  BY DEF TasksInOrder
<1>5. ThreadHoldsBatch'
  BY DEF ThreadHoldsBatch
<1>6. NothingLeftAlone'
  <2>1. ~(finalSync /\ itemsCleared)
    BY DEF NothingLeftAlone, TasksInOrder
  <2> QED BY <2>1 DEF NothingLeftAlone
<1>7. DeletionHarmless'
  BY DEF DeletionHarmless
<1>8. SuddenTerminationBalanced'
  BY DEF SuddenTerminationBalanced, One
<1> QED BY <1>1, <1>2, <1>3, <1>4, <1>5, <1>6, <1>7, <1>8

\* The end of performSync.
LEMMA FinishSyncStep ==
  ASSUME IInv, FinishSync
  PROVE  IInv'
<1> USE EmptyLayers, IdleThread DEF IInv, FinishSync,
            mainVars, batchVars, diskVars, trackerVars
<1>0. importComplete
  BY ImportedFirst
<1>a. /\ thread'.phase = "idle" /\ thread'.items = NoItems /\ thread'.clear = FALSE
      /\ thread.items = NoItems /\ thread.clear = FALSE /\ syncInProgress
  BY DEF ThreadHoldsBatch, Idle, TypeOK, ThreadOK
<1> USE <1>0, <1>a
<1>1. TypeOK'
  <2>1. MainOK'
    BY DEF TypeOK, MainOK
  <2>2. BatchOK'
    BY DEF TypeOK, BatchOK
  <2>3. DiskOK'
    BY DEF TypeOK, DiskOK
  <2>4. TrackerOK'
    BY DEF TypeOK, TrackerOK
  <2>5. ThreadOK'
    BY DEF TypeOK, ThreadOK, Idle
  <2>6. RestOK'
    BY DEF TypeOK, RestOK
  <2> QED BY <2>1, <2>2, <2>3, <2>4, <2>5, <2>6 DEF TypeOK
<1>2. NothingForgotten'
  <2>1. \A k \in Keys : OnTheWay(k)' = OnTheWay(k)
    BY DEF OnTheWay, Over
  <2> QED BY <2>1 DEF NothingForgotten
<1>3. NothingBeforeImport'
  BY DEF NothingBeforeImport
<1>4. TasksInOrder'
  BY DEF TasksInOrder
<1>5. ThreadHoldsBatch'
  BY DEF ThreadHoldsBatch
<1>6. NothingLeftAlone'
  BY DEF NothingLeftAlone
<1>7. DeletionHarmless'
  BY DEF DeletionHarmless
<1>8. SuddenTerminationBalanced'
  BY DEF SuddenTerminationBalanced, One, TypeOK, RestOK, MainOK, BatchOK
<1> QED BY <1>1, <1>2, <1>3, <1>4, <1>5, <1>6, <1>7, <1>8

\* The file that is deleted is empty.
LEMMA DeleteEmptyDatabaseStep ==
  ASSUME IInv, DeleteEmptyDatabase
  PROVE  IInv'
<1> USE EmptyLayers, TaskQueues DEF IInv, Performs, ScheduleClear, StartTimer,
            mainVars, batchVars, diskVars, trackerVars
<1> DEFINE Empty == connection = "unlinked" \/ (connection = "file" /\ disk = NoValues)
           Kept == UNCHANGED <<mainVars, connection, disk, fileExists, trackerVars, suddenTermination>>
           Deleted == /\ Empty /\ connection' = "closed" /\ fileExists' = FALSE
                      /\ UNCHANGED <<mainVars, trackerVars, disk, suddenTermination>>
           Cleared == /\ Empty /\ connection' = "closed" /\ memory' = NoValues /\ ScheduleClear
                      /\ originBeingDeleted' = TRUE /\ deletions' = deletions + 1
                      /\ UNCHANGED <<finalSync, closing, deleting, changes, fileExists, disk, trackerActive>>
<1>b. Kept \/ Deleted \/ Cleared
  BY DEF DeleteEmptyDatabase
<1>c. /\ Performs("deleteEmpty") /\ tasks' = Tail(tasks)
      /\ UNCHANGED <<batchVars, openFailed, importComplete, closeDatabase, thread, requested, faults>>
  BY DEF DeleteEmptyDatabase
<1> USE <1>c
<1>0. importComplete
  BY ImportedFirst
<1>a. /\ closing /\ finalSync /\ ~syncScheduled /\ tasks = <<"deleteEmpty", "terminate">>
      /\ tasks' = <<"terminate">> /\ thread.phase = "idle" /\ thread.items = NoItems /\ thread.clear = FALSE
  BY <1>0 DEF TypeOK, ThreadOK, ThreadHoldsBatch, NothingLeftAlone, TasksInOrder
<1> USE <1>0, <1>a
<1>1. TypeOK'
  <2>1. MainOK'
    <3>1. CASE Kept
      BY <3>1 DEF TypeOK, MainOK
    <3>2. CASE Deleted
      BY <3>2 DEF TypeOK, MainOK
    <3>3. CASE Cleared
      BY <3>3 DEF TypeOK, MainOK
    <3> QED BY <1>b, <3>1, <3>2, <3>3
  <2>2. BatchOK'
    BY DEF TypeOK, BatchOK
  <2>3. DiskOK'
    <3>1. CASE Kept
      BY <3>1 DEF TypeOK, DiskOK
    <3>2. CASE Deleted
      BY <3>2 DEF TypeOK, DiskOK
    <3>3. CASE Cleared
      BY <3>3 DEF TypeOK, DiskOK
    <3> QED BY <1>b, <3>1, <3>2, <3>3
  <2>4. TrackerOK'
    <3>1. CASE Kept
      BY <3>1 DEF TypeOK, TrackerOK
    <3>2. CASE Deleted
      BY <3>2 DEF TypeOK, TrackerOK
    <3>3. CASE Cleared
      BY <3>3 DEF TypeOK, TrackerOK
    <3> QED BY <1>b, <3>1, <3>2, <3>3
  <2>5. ThreadOK'
    BY DEF TypeOK, ThreadOK
  <2>6. RestOK'
    <3>1. CASE Kept
      BY <3>1 DEF TypeOK, RestOK
    <3>2. CASE Deleted
      BY <3>2 DEF TypeOK, RestOK
    <3>3. CASE Cleared
      BY <3>3 DEF TypeOK, RestOK
    <3> QED BY <1>b, <3>1, <3>2, <3>3
  <2> QED BY <2>1, <2>2, <2>3, <2>4, <2>5, <2>6 DEF TypeOK
<1>2. NothingForgotten'
  <2>1. CASE Kept
    BY <2>1 DEF NothingForgotten, OnTheWay, Over, TypeOK, DiskOK, ThreadHoldsBatch
  <2>2. CASE Deleted
    BY <2>2 DEF NothingForgotten, OnTheWay, Over, TypeOK, DiskOK, ThreadHoldsBatch
  <2>3. CASE Cleared
    BY <2>3 DEF NothingForgotten, OnTheWay, Over, TypeOK, DiskOK, ThreadHoldsBatch
  <2> QED BY <1>b, <2>1, <2>2, <2>3
<1>3. NothingBeforeImport'
  BY DEF NothingBeforeImport
<1>4. TasksInOrder'
  <2>1. CASE Kept
    BY <2>1 DEF TasksInOrder
  <2>2. CASE Deleted
    BY <2>2 DEF TasksInOrder
  <2>3. CASE Cleared
    BY <2>3 DEF TasksInOrder
  <2> QED BY <1>b, <2>1, <2>2, <2>3
<1>5. ThreadHoldsBatch'
  <2>1. CASE Kept
    BY <2>1 DEF ThreadHoldsBatch
  <2>2. CASE Deleted
    BY <2>2 DEF ThreadHoldsBatch
  <2>3. CASE Cleared
    BY <2>3 DEF ThreadHoldsBatch
  <2> QED BY <1>b, <2>1, <2>2, <2>3
<1>6. NothingLeftAlone'
  <2>1. CASE Kept
    BY <2>1 DEF NothingLeftAlone, ThreadHoldsBatch
  <2>2. CASE Deleted
    BY <2>2 DEF NothingLeftAlone, ThreadHoldsBatch
  <2>3. CASE Cleared
    BY <2>3 DEF NothingLeftAlone, ThreadHoldsBatch
  <2> QED BY <1>b, <2>1, <2>2, <2>3
<1>7. DeletionHarmless'
  <2>1. CASE Kept
    BY <2>1 DEF DeletionHarmless, ThreadHoldsBatch
  <2>2. CASE Deleted
    BY <2>2 DEF DeletionHarmless, ThreadHoldsBatch
  <2>3. CASE Cleared
    BY <2>3 DEF DeletionHarmless, ThreadHoldsBatch
  <2> QED BY <1>b, <2>1, <2>2, <2>3
<1>8. SuddenTerminationBalanced'
  <2>1. CASE Kept
    BY <2>1 DEF SuddenTerminationBalanced, One, TypeOK, MainOK, RestOK
  <2>2. CASE Deleted
    BY <2>2 DEF SuddenTerminationBalanced, One, TypeOK, MainOK, RestOK
  <2>3. CASE Cleared
    BY <2>3 DEF SuddenTerminationBalanced, One, TypeOK, MainOK, RestOK
  <2> QED BY <1>b, <2>1, <2>2, <2>3
<1> QED BY <1>1, <1>2, <1>3, <1>4, <1>5, <1>6, <1>7, <1>8

\* The end of the thread.
LEMMA PerformTerminateStep ==
  ASSUME IInv, PerformTerminate
  PROVE  IInv'
<1> USE EmptyLayers, TaskQueues, IdleThread DEF IInv, PerformTerminate, Performs,
            mainVars, batchVars, diskVars, trackerVars
<1>0. importComplete
  BY ImportedFirst
<1>a. /\ thread.phase = "idle" /\ thread.items = NoItems /\ thread.clear = FALSE
      /\ thread'.phase = "ended" /\ thread'.items = NoItems /\ thread'.clear = FALSE
  BY DEF TypeOK, ThreadOK, ThreadHoldsBatch
<1> USE <1>0, <1>a
<1>1. TypeOK'
  <2>1. MainOK'
    BY DEF TypeOK, MainOK
  <2>2. BatchOK'
    BY DEF TypeOK, BatchOK
  <2>3. DiskOK'
    BY DEF TypeOK, DiskOK
  <2>4. TrackerOK'
    BY DEF TypeOK, TrackerOK
  <2>5. ThreadOK'
    BY DEF TypeOK, ThreadOK
  <2>6. RestOK'
    BY DEF TypeOK, RestOK
  <2> QED BY <2>1, <2>2, <2>3, <2>4, <2>5, <2>6 DEF TypeOK
<1>2. NothingForgotten'
  <2>1. \A k \in Keys : OnTheWay(k)' = OnTheWay(k)
    BY DEF OnTheWay, Over
  <2> QED BY <2>1 DEF NothingForgotten
<1>3. NothingBeforeImport'
  BY DEF NothingBeforeImport
<1>4. TasksInOrder'
  BY DEF TasksInOrder
<1>5. ThreadHoldsBatch'
  BY DEF ThreadHoldsBatch
<1>6. NothingLeftAlone'
  BY DEF NothingLeftAlone
<1>7. DeletionHarmless'
  BY DEF DeletionHarmless
<1>8. SuddenTerminationBalanced'
  BY DEF SuddenTerminationBalanced, One
<1> QED BY <1>1, <1>2, <1>3, <1>4, <1>5, <1>6, <1>7, <1>8

\* A deletion of the file takes away nothing that scripts still see.
LEMMA SyncDeleteOriginStep ==
  ASSUME IInv, SyncDeleteOrigin
  PROVE  IInv'
<1> USE EmptyLayers DEF IInv, SyncDeleteOrigin,
            mainVars, batchVars, diskVars, trackerVars
<1>1. TypeOK'
  <2>1. MainOK'
    BY DEF TypeOK, MainOK
  <2>2. BatchOK'
    BY DEF TypeOK, BatchOK
  <2>3. DiskOK'
    BY DEF TypeOK, DiskOK
  <2>4. TrackerOK'
    BY DEF TypeOK, TrackerOK
  <2>5. ThreadOK'
    BY DEF TypeOK, ThreadOK
  <2>6. RestOK'
    BY DEF TypeOK, RestOK
  <2> QED BY <2>1, <2>2, <2>3, <2>4, <2>5, <2>6 DEF TypeOK
<1>2. NothingForgotten'
  <2>1. CASE disk' = disk /\ faults' = faults
    BY <2>1 DEF NothingForgotten, OnTheWay
  <2>2. CASE /\ originBeingDeleted /\ disk' = NoValues
             /\ faults' = IF connection = "file" THEN faults \cup {"deleted"} ELSE faults
    <3>1. ASSUME faults' = {}, NEW k \in Keys  PROVE OnTheWay(k)' = OnTheWay(k)
      <4>1. faults = {} /\ connection = "closed"
        BY <2>2, <3>1 DEF TypeOK, DiskOK, ThreadHoldsBatch
      <4>2. itemsCleared \/ clearWhileSyncing \/ thread.clear \/ disk = NoValues
        BY <2>2, <4>1 DEF DeletionHarmless
      <4>3. disk'[k] = Null
        BY <2>2
      <4> QED BY <4>2, <4>3 DEF OnTheWay, Over
    <3> QED BY <2>2, <3>1 DEF NothingForgotten
  <2> QED BY <2>1, <2>2
<1>3. NothingBeforeImport'
  BY DEF NothingBeforeImport
<1>4. TasksInOrder'
  BY DEF TasksInOrder
<1>5. ThreadHoldsBatch'
  BY DEF ThreadHoldsBatch
<1>6. NothingLeftAlone'
  BY DEF NothingLeftAlone
<1>7. DeletionHarmless'
  BY DEF DeletionHarmless
<1>8. SuddenTerminationBalanced'
  BY DEF SuddenTerminationBalanced, One
<1> QED BY <1>1, <1>2, <1>3, <1>4, <1>5, <1>6, <1>7, <1>8

\* How syncTimerFired is called: by the timer, by scheduleSync (which leaves the
\* timer as it is) and by scheduleFinalSync (which has stopped it).
Calls(active, disabled, last) ==
  /\ importComplete /\ ~deleting /\ ~finalSync
  /\ finalSync' = last /\ changes' \in Nat /\ requested' \in BOOLEAN
  /\ ~requested' =>
       ~requested /\ ~active /\ disabled = 1 + One(syncScheduled) + One(syncInProgress)
  /\ UNCHANGED <<memory, closing, deleting, diskVars, trackerVars, importComplete,
                 closeDatabase, thread>>

\* A sync in progress: the timer runs again, and nothing else happens.
LEMMA PutOffStep ==
  ASSUME IInv, NEW active \in BOOLEAN, NEW disabled \in Int, NEW last \in BOOLEAN,
         Calls(active, disabled, last), PutOff(active, disabled, last)
  PROVE  IInv'
<1> USE EmptyLayers DEF IInv, PutOff, Calls,
            mainVars, batchVars, diskVars, trackerVars
<1>1. TypeOK'
  <2>1. MainOK'
    BY DEF TypeOK, MainOK
  <2>2. BatchOK'
    BY DEF TypeOK, BatchOK
  <2>3. DiskOK'
    BY DEF TypeOK, DiskOK
  <2>4. TrackerOK'
    BY DEF TypeOK, TrackerOK
  <2>5. ThreadOK'
    BY DEF TypeOK, ThreadOK
  <2>6. RestOK'
    BY DEF TypeOK, RestOK
  <2> QED BY <2>1, <2>2, <2>3, <2>4, <2>5, <2>6 DEF TypeOK
<1>2. NothingForgotten'
  BY DEF NothingForgotten, OnTheWay, Over
<1>3. NothingBeforeImport'
  BY DEF NothingBeforeImport
<1>4. TasksInOrder'
  BY DEF TasksInOrder
<1>5. ThreadHoldsBatch'
  BY DEF ThreadHoldsBatch
<1>6. NothingLeftAlone'
  BY DEF NothingLeftAlone
<1>7. DeletionHarmless'
  BY DEF DeletionHarmless
<1>8. SuddenTerminationBalanced'
  BY DEF SuddenTerminationBalanced, One, TypeOK, RestOK, BatchOK
<1> QED BY <1>1, <1>2, <1>3, <1>4, <1>5, <1>6, <1>7, <1>8

\* What the loop has reached goes into the batch, over what the batch had.
\* Changes that it has not reached stay, with the timer running.
LEMMA MoveToBatchStep ==
  ASSUME IInv, NEW active \in BOOLEAN, NEW disabled \in Int, NEW last \in BOOLEAN,
         Calls(active, disabled, last), NEW moved \in SUBSET Keys,
         Reached(moved, last), MoveToBatch(moved, active, disabled)
  PROVE  IInv'
<1> USE EmptyLayers DEF IInv, Reached, Calls,
            mainVars, batchVars, diskVars, trackerVars
<1> DEFINE partial == moved # Touched(changedItems)
           below == IF itemsCleared THEN NoItems ELSE pending
           batch == [k \in Keys |-> IF k \in moved THEN changedItems[k] ELSE below[k]]
           forgotten == {k \in Touched(changedItems) \ moved : batch[k] # Untouched}
<1>a. /\ pending' = batch /\ clearWhileSyncing' = (clearWhileSyncing \/ itemsCleared)
      /\ itemsCleared' = FALSE /\ syncScheduled' = TRUE /\ UNCHANGED syncInProgress
      /\ changedItems' = [k \in Keys |-> IF partial /\ batch[k] = Untouched THEN changedItems[k] ELSE Untouched]
      /\ tasks' = IF syncScheduled THEN tasks ELSE Append(tasks, "sync")
      /\ timer' = (partial \/ active)
      /\ suddenTermination' = disabled + (IF syncScheduled THEN 0 ELSE 1) - (IF partial THEN 0 ELSE 1)
      /\ faults' = IF partial /\ forgotten # {} THEN faults \cup {"overtaken"} ELSE faults
  BY DEF MoveToBatch
<1>b. ~closing /\ tasks' = <<"sync">>
  <2>1. ~closing
    BY DEF NothingLeftAlone
  <2>2. tasks = IF syncScheduled THEN <<"sync">> ELSE <<>>
    BY <2>1 DEF TasksInOrder
  <2>3. Append(<<>>, "sync") = <<"sync">>
    OBVIOUS
  <2> QED BY <1>a, <2>1, <2>2, <2>3
<1>c. /\ last => ~partial
      /\ ~partial => changedItems' = NoItems
  BY <1>a DEF NoItems
<1>d. faults' = {} => faults = {} /\ (partial => forgotten = {})
  BY <1>a
<1>e. partial \in BOOLEAN
  OBVIOUS
<1> HIDE DEF partial, batch
<1>1. TypeOK'
  <2>1. MainOK'
    <3>1. changedItems' \in Layer
      BY <1>a DEF TypeOK, MainOK, Layer
    <3> QED BY <1>a, <1>e, <3>1 DEF TypeOK, MainOK
  <2>2. BatchOK'
    <3>1. batch \in Layer
      BY DEF TypeOK, MainOK, BatchOK, Layer, Touched, batch
    <3> QED BY <1>a, <3>1 DEF TypeOK, MainOK, BatchOK
  <2>3. DiskOK'
    BY DEF TypeOK, DiskOK
  <2>4. TrackerOK'
    BY DEF TypeOK, TrackerOK
  <2>5. ThreadOK'
    BY <1>b DEF TypeOK, ThreadOK
  <2>6. RestOK'
    BY <1>a DEF TypeOK, RestOK
  <2> QED BY <2>1, <2>2, <2>3, <2>4, <2>5, <2>6 DEF TypeOK
<1>2. NothingForgotten'
  <2>1. ASSUME faults' = {}, NEW k \in Keys  PROVE OnTheWay(k)' = OnTheWay(k)
    <3>0. batch[k] = IF k \in moved THEN changedItems[k] ELSE IF itemsCleared THEN Untouched ELSE pending[k]
      BY DEF batch
    <3>1. CASE k \in moved
      <4>1. changedItems[k] # Untouched /\ batch[k] = changedItems[k]
        BY <3>0, <3>1 DEF Touched
      <4>2. changedItems'[k] = Untouched /\ pending'[k] = changedItems[k] /\ ~itemsCleared'
        BY <1>a, <4>1
      <4> QED BY <4>1, <4>2 DEF OnTheWay, Over
    <3>2. CASE k \notin moved /\ changedItems[k] # Untouched
      <4>1. partial /\ batch[k] = Untouched
        BY <1>d, <2>1, <3>2 DEF Touched, partial
      <4>2. changedItems'[k] = changedItems[k] /\ pending'[k] = Untouched
        BY <1>a, <4>1
      <4> QED BY <3>2, <4>2 DEF OnTheWay, Over
    <3>3. CASE k \notin moved /\ changedItems[k] = Untouched
      <4>1. changedItems'[k] = Untouched /\ ~itemsCleared'
        BY <1>a, <3>3
      <4>2. pending'[k] = IF itemsCleared THEN Untouched ELSE pending[k]
        BY <1>a, <3>0, <3>3
      <4>3. clearWhileSyncing' = (clearWhileSyncing \/ itemsCleared)
        BY <1>a
      <4> QED BY <3>3, <4>1, <4>2, <4>3 DEF OnTheWay, Over
    <3> QED BY <3>1, <3>2, <3>3
  <2> QED BY <1>d, <2>1 DEF NothingForgotten
<1>3. NothingBeforeImport'
  BY DEF NothingBeforeImport
<1>4. TasksInOrder'
  BY <1>a, <1>b DEF TasksInOrder
<1>5. ThreadHoldsBatch'
  BY <1>a, <1>d DEF ThreadHoldsBatch
<1>6. NothingLeftAlone'
  BY <1>a, <1>b, <1>c DEF NothingLeftAlone
<1>7. DeletionHarmless'
  BY <1>a, <1>d DEF DeletionHarmless
<1>8. SuddenTerminationBalanced'
  <2>1. ASSUME ~requested'  PROVE timer' = partial
    BY <1>a, <1>e, <2>1
  <2> QED BY <1>a, <1>e, <2>1 DEF SuddenTerminationBalanced, One, TypeOK, BatchOK
<1> QED BY <1>1, <1>2, <1>3, <1>4, <1>5, <1>6, <1>7, <1>8

\* The three callers of syncTimerFired.
LEMMA SyncTimerFiredStep ==
  ASSUME IInv, TimerFires \/ ScheduleSync \/ ScheduleFinalSync
  PROVE  IInv'
<1>1. ASSUME NEW active \in BOOLEAN, NEW disabled \in Int, NEW last \in BOOLEAN,
             Calls(active, disabled, last), SyncTimerFired(active, disabled, last)
      PROVE  IInv'
  BY <1>1, PutOffStep, MoveToBatchStep DEF SyncTimerFired
<1> USE DEF IInv, TypeOK, MainOK, RestOK, BatchOK, ThreadOK, NothingBeforeImport, Calls, One,
            SuddenTerminationBalanced
<1>2. CASE TimerFires
  <2>1. Calls(FALSE, suddenTermination, FALSE)
    BY <1>2 DEF TimerFires
  <2> QED BY <1>1, <1>2, <2>1 DEF TimerFires
<1>3. CASE ScheduleSync
  <2>1. Calls(timer, suddenTermination, FALSE)
    BY <1>3 DEF ScheduleSync, Ready, Change
  <2> QED BY <1>1, <1>3, <2>1 DEF ScheduleSync
<1>4. CASE ScheduleFinalSync
  <2> DEFINE disabled == suddenTermination + (IF timer THEN 0 ELSE 1)
  <2>1. disabled \in Int /\ Calls(FALSE, disabled, TRUE)
    BY <1>4 DEF ScheduleFinalSync, Ready
  <2> QED BY <1>1, <1>4, <2>1 DEF ScheduleFinalSync
<1> QED BY <1>2, <1>3, <1>4

-----------------------------------------------------------------------------
(* The theorems.                                                           *)

\* The invariant holds at the start: an untouched area before its import.
LEMMA InitIInv == Init => IInv
<1> SUFFICES ASSUME Init  PROVE IInv
  OBVIOUS
<1> USE EmptyLayers DEF Init
<1>1. thread.phase = "idle" /\ thread.items = NoItems /\ thread.clear = FALSE
  BY DEF Idle
<1>2. TypeOK
  <2>1. MainOK /\ BatchOK /\ DiskOK
    BY DEF MainOK, BatchOK, DiskOK
  <2>2. ThreadOK
    <3>1. tasks \in Seq({"import", "sync", "deleteEmpty", "terminate"})
      OBVIOUS
    <3>2. thread \in [phase : {"idle", "sync", "open", "write", "finish", "ended"},
                      items : Layer, clear : BOOLEAN]
      BY DEF Idle
    <3> QED BY <3>1, <3>2 DEF ThreadOK
  <2>3. TrackerOK
    BY DEF TrackerOK
  <2>4. RestOK
    <3>1. suddenTermination \in Int
      OBVIOUS
    <3>2. requested \in BOOLEAN
      OBVIOUS
    <3>3. faults \subseteq {"import", "open", "write", "closed", "deleted", "overtaken"}
      OBVIOUS
    <3> QED BY <3>1, <3>2, <3>3 DEF RestOK
  <2> QED BY <2>1, <2>2, <2>3, <2>4 DEF TypeOK
<1>3. NothingForgotten /\ NothingBeforeImport /\ TasksInOrder
  BY DEF NothingForgotten, NothingBeforeImport, TasksInOrder
<1>4. ThreadHoldsBatch /\ NothingLeftAlone /\ DeletionHarmless /\ SuddenTerminationBalanced
  BY <1>1 DEF ThreadHoldsBatch, NothingLeftAlone, DeletionHarmless, SuddenTerminationBalanced, One
<1> QED BY <1>2, <1>3, <1>4 DEF IInv

\* Every step keeps it.
LEMMA NextIInv == IInv /\ [Next]_vars => IInv'
<1> SUFFICES ASSUME IInv, [Next]_vars  PROVE IInv'
  OBVIOUS
<1>1. CASE \E key \in Keys, value \in Values \cup {Null} : SetItem(key, value)
  BY <1>1, SetItemStep
<1>2. CASE Clear \/ ClearForOriginDeletion \/ WillDeleteOrigin \/ Close
  BY <1>2, ClearStep, ClearForOriginDeletionStep, WillDeleteOriginStep, CloseStep
<1>3. CASE TimerFires \/ ScheduleSync \/ ScheduleFinalSync
  BY <1>3, SyncTimerFiredStep
<1>4. CASE ThreadStep
  BY <1>4, PerformImportStep, PerformSyncStep, BeginSyncStep, OpenDatabaseStep, WriteItemsStep,
     FinishSyncStep, DeleteEmptyDatabaseStep, PerformTerminateStep DEF ThreadStep
<1>5. CASE SyncDeleteOrigin
  BY <1>5, SyncDeleteOriginStep
<1>6. CASE UNCHANGED vars
  <2> USE <1>6 DEF vars, mainVars, batchVars, diskVars, trackerVars, IInv
  <2>1. TypeOK'
    BY DEF TypeOK, MainOK, BatchOK, DiskOK, TrackerOK, ThreadOK, RestOK
  <2>2. NothingForgotten' /\ NothingBeforeImport' /\ TasksInOrder' /\ ThreadHoldsBatch'
    BY DEF NothingForgotten, OnTheWay, NothingBeforeImport, TasksInOrder, ThreadHoldsBatch
  <2>3. NothingLeftAlone' /\ DeletionHarmless' /\ SuddenTerminationBalanced'
    BY DEF NothingLeftAlone, DeletionHarmless, SuddenTerminationBalanced
  <2> QED BY <2>1, <2>2, <2>3
<1> QED BY <1>1, <1>2, <1>3, <1>4, <1>5, <1>6 DEF Next

\* The write-back of an area keeps its invariant.
THEOREM Invariance == Spec => []IInv
BY InitIInv, NextIInv, PTL DEF Spec

\* No change is lost or reordered between setItem and ItemTable, and a clear
\* stays where it was in the order of the changes, however many keys and
\* changes there are and whatever the limit of a batch is.
THEOREM WriteBackInvariantHolds == Spec => []WriteBackInvariant
<1>1. IInv => WriteBackInvariant
  BY DEF IInv, WriteBackInvariant
<1> QED BY <1>1, Invariance, PTL

\* After the storage thread has been joined the table has what scripts last saw.
THEOREM WrittenAtShutdownHolds == Spec => []WrittenAtShutdown
<1>1. IInv => WrittenAtShutdown
  <2> SUFFICES ASSUME IInv, faults = {}, thread.phase = "ended"  PROVE disk = memory
    BY DEF WrittenAtShutdown
  <2> USE DEF IInv
  <2>1. importComplete
    BY ImportedFirst
  <2>2. closing /\ ~syncScheduled
    BY <2>1 DEF TasksInOrder
  <2>3. pending = NoItems /\ ~clearWhileSyncing /\ changedItems = NoItems
    BY <2>2 DEF NothingLeftAlone
  <2>4. thread.items = NoItems /\ ~thread.clear
    BY DEF ThreadHoldsBatch
  <2>5. itemsCleared => disk = NoValues
    BY <2>2 DEF NothingLeftAlone
  <2>6. \A k \in Keys : disk[k] = memory[k]
    BY <2>1, <2>3, <2>4, <2>5, EmptyLayers DEF NothingForgotten, OnTheWay, Over
  <2> QED BY <2>6 DEF TypeOK, MainOK, DiskOK
<1> QED BY <1>1, Invariance, PTL

\* While a change waits or is being written, sudden termination stays disabled:
\* the calls that the comments pair up are balanced.
THEOREM SuddenTerminationDisabledHolds == Spec => []SuddenTerminationDisabled
<1>1. IInv => SuddenTerminationDisabled
  BY DEF IInv, SuddenTerminationDisabled, SuddenTerminationBalanced, NothingLeftAlone, One,
     TypeOK, MainOK, BatchOK
<1> QED BY <1>1, Invariance, PTL
=============================================================================
