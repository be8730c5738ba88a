----------------------------- MODULE WebDatabase -----------------------------
(***************************************************************************)
(* Web SQL databases of one ScriptExecutionContext: its Database handles,  *)
(* their SQLTransactions, the DatabaseThread with its MessageQueue and its *)
(* SQLTransactionCoordinator, and the threads that use them:               *)
(*                                                                         *)
(*   database thread  performs the tasks of m_queue one after the other    *)
(*   context thread   runs scripts and the callbacks of transactions       *)
(*   main thread      closes, deletes and interrupts databases; for a      *)
(*                    document it is the context thread, for a worker not  *)
(*                                                                         *)
(* Every call that takes a lock or hands something to another thread is an *)
(* action of its own where another thread may see the state in between:    *)
(* a database-thread task that runs a transaction step reads m_nextStep    *)
(* once more after it has handed the transaction over, close() unschedules *)
(* after it has closed, and a thread waits for a synchronous task.         *)
(***************************************************************************)
EXTENDS CoordinationInfo, SQLTransaction, SequencesExt

CONSTANTS
  Handles,            \* Database objects
  HandleOf(_),        \* the handle a transaction is made on
  NameOf(_),          \* a handle's stringIdentifier
  CallbackSets(_),    \* the sets of callbacks a transaction may be given, each
                      \*   a subset of {"transaction", "error", "success"}
  StatementKinds,     \* the kinds of statements scripts execute
  MaxStatements(_),   \* bound on the statements of a transaction
  MainThread,         \* "context" (document) or "main" (worker)
  Requests            \* what else may be asked for, each at most once:
                      \*   <<"closeImmediately" | "interrupt" | "tableNames",
                      \*   a handle>>, <<"deleteDatabase", a name>> and
                      \*   <<"requestTermination", "thread">>

ASSUME MainThreadAssumption == MainThread \in {"context", "main"}
ASSUME StatementKindsAssumption == StatementKinds \subseteq [callback: BOOLEAN, errorCallback: BOOLEAN]

VARIABLES
  handle,              \* the constructed Database objects
  txn,                 \* the constructed SQLTransactions
  dbQueue, killed,     \* DatabaseThread::m_queue
  dbThread,            \* where the database thread is
  openDatabaseSet,     \* m_openDatabaseSet
  openSetCopy,         \* the databases the ending thread has still to close
  coordinationInfoMap, \* the coordinator
  ctxQueue,            \* tasks posted to the context
  ctxThread,           \* the transaction whose script runs, or NoTransaction
  sync,                \* the DatabaseTaskSynchronizer of each thread
  requests,            \* the requests that are still to come
  deletion,            \* DatabaseTracker::deleteDatabase in progress
  executed             \* how many statements each transaction was given

vars == <<handle, txn, dbQueue, killed, dbThread, openDatabaseSet, openSetCopy,
          coordinationInfoMap, ctxQueue, ctxThread, sync, requests, deletion, executed>>

Threads == {"context", "main"}

\* The database thread waits for the next task.
Loop == [at |-> "loop"]

\* No database is being deleted; else deletion has its name, the handles that
\* are still to be closed, and the handle whose close task is to be scheduled
\* next, on a thread that was found not to be asked to terminate.
NoDeletion == [name |-> "none", handles |-> {}, checked |-> {}]

Init ==
  /\ handle = [h \in {} |-> << >>]
  /\ txn = [t \in {} |-> << >>]
  /\ dbQueue = << >> /\ killed = FALSE /\ dbThread = Loop
  /\ openDatabaseSet = {} /\ openSetCopy = {}
  /\ coordinationInfoMap = [n \in {} |-> NewCoordinationInfo]
  /\ ctxQueue = << >> /\ ctxThread = NoTransaction
  /\ sync = [p \in Threads |-> "none"]
  /\ requests = Requests /\ deletion = NoDeletion
  /\ executed = [t \in Transactions |-> 0]

\* A constructed Database; opening until its open task is scheduled.
NewDatabase ==
  [opening |-> TRUE, opened |-> FALSE, returned |-> FALSE, registered |-> TRUE, deleted |-> FALSE,
   interrupted |-> FALSE, transactionInProgress |-> FALSE, transactionQueueEnabled |-> TRUE,
   transactionQueue |-> << >>]

\* DatabaseTasks; synchronizer names the thread that waits, or "none".
Task(kind, h, synchronizer) ==
  [kind |-> kind, handle |-> h, transaction |-> NoTransaction, synchronizer |-> synchronizer]
TransactionTask(t) ==
  [kind |-> "transaction", handle |-> HandleOf(t), transaction |-> t, synchronizer |-> "none"]

\* Mutant: nobody is signalled.
CompleteNobody(synchronizer) ==
  sync' = sync

\* taskCompleted() of the task's synchronizer.
Complete(synchronizer) ==
  sync' = [p \in Threads |-> IF p = synchronizer THEN "completed" ELSE sync[p]]

-----------------------------------------------------------------------------
(* The context thread.                                                     *)

\* A thread goes on once the task it waits for is completed.  openDatabase
\* takes a handle that could not be opened off the tracker again.
WaitForTaskCompletion(p) ==
  /\ sync[p] = "completed"
  /\ sync' = [sync EXCEPT ![p] = "none"]
  /\ handle' = [h \in DOMAIN handle |->
                  [handle[h] EXCEPT !.registered = @ /\ (p = "context" => handle[h].returned)]]
  /\ UNCHANGED <<txn, dbQueue, killed, dbThread, openDatabaseSet, openSetCopy,
                 coordinationInfoMap, ctxQueue, ctxThread, requests, deletion, executed>>

\* The context thread neither waits nor is inside openDatabase nor, in a
\* document, deletes a database.
ContextIsFree ==
  /\ sync["context"] = "none"
  /\ \A h \in DOMAIN handle : ~handle[h].opening
  /\ MainThread = "context" => deletion = NoDeletion

\* Schedules a synchronous task in front of the queue and waits for it.
ScheduleAndWait(kind, h, p) ==
  /\ dbQueue' = <<Task(kind, h, p)>> \o dbQueue
  /\ sync' = [sync EXCEPT ![p] = "waiting"]

\* Mutant: terminationRequested is not asked.
OpenDatabaseUnchecked(h) ==
  /\ ContextIsFree
  /\ h \notin DOMAIN handle
  /\ NameOf(h) # deletion.name
  /\ handle' = [g \in DOMAIN handle \cup {h} |-> IF g = h THEN NewDatabase ELSE handle[g]]
  /\ UNCHANGED <<txn, dbQueue, killed, dbThread, openDatabaseSet, openSetCopy,
                 coordinationInfoMap, ctxQueue, ctxThread, sync, requests, deletion, executed>>

\* openDatabase constructs the Database, which registers itself with the
\* tracker.  It fails and leaves no trace while the user deletes the database
\* (canCreateDatabase) and on a thread asked to terminate: only the context
\* thread itself asks for that, so the test comes here.
OpenDatabase(h) ==
  /\ ContextIsFree
  /\ h \notin DOMAIN handle
  /\ NameOf(h) # deletion.name
  /\ ~killed
  /\ handle' = [g \in DOMAIN handle \cup {h} |-> IF g = h THEN NewDatabase ELSE handle[g]]
  /\ UNCHANGED <<txn, dbQueue, killed, dbThread, openDatabaseSet, openSetCopy,
                 coordinationInfoMap, ctxQueue, ctxThread, sync, requests, deletion, executed>>

\* openAndVerifyVersion schedules the open task and waits for it.
OpenAndVerifyVersion(h) ==
  /\ h \in DOMAIN handle /\ handle[h].opening
  /\ handle' = [handle EXCEPT ![h].opening = FALSE]
  /\ ScheduleAndWait("open", h, "context")
  /\ UNCHANGED <<txn, killed, dbThread, openDatabaseSet, openSetCopy, coordinationInfoMap,
                 ctxQueue, ctxThread, requests, deletion, executed>>

\* Scripts have a handle once openDatabase has returned it.
Visible(h) == h \in DOMAIN handle /\ handle[h].returned

\* Mutant: the scheduled transaction stays in the queue.
ScheduleTransactionPeeking(d) ==
  IF d.transactionQueueEnabled /\ d.transactionQueue # << >>
  THEN <<[d EXCEPT !.transactionInProgress = TRUE],
         <<TransactionTask(Head(d.transactionQueue))>> >>
  ELSE <<[d EXCEPT !.transactionInProgress = FALSE], << >> >>

\* scheduleTransaction on handle record d: <<the record, the tasks appended>>.
ScheduleTransaction(d) ==
  IF d.transactionQueueEnabled /\ d.transactionQueue # << >>
  THEN <<[d EXCEPT !.transactionQueue = Tail(@), !.transactionInProgress = TRUE],
         <<TransactionTask(Head(d.transactionQueue))>> >>
  ELSE <<[d EXCEPT !.transactionInProgress = FALSE], << >> >>

\* Mutant: a new transaction is scheduled although one is in progress.
RunTransactionAtOnce(t) ==
  LET h == HandleOf(t)
      scheduled == ScheduleTransaction([handle[h] EXCEPT !.transactionQueue = Append(@, t)])
  IN
  /\ ContextIsFree
  /\ Visible(h) /\ t \notin DOMAIN txn
  /\ \E callbacks \in CallbackSets(t) :
       txn' = [u \in DOMAIN txn \cup {t} |-> IF u = t THEN NewSQLTransaction(callbacks)
                                                      ELSE txn[u]]
  /\ handle' = [handle EXCEPT ![h] = scheduled[1]]
  /\ dbQueue' = dbQueue \o scheduled[2]
  /\ UNCHANGED <<killed, dbThread, openDatabaseSet, openSetCopy, coordinationInfoMap, ctxQueue,
                 ctxThread, sync, requests, deletion, executed>>

\* transaction, readTransaction and changeVersion.
RunTransaction(t) ==
  LET h == HandleOf(t)
      queued == [handle[h] EXCEPT !.transactionQueue = Append(@, t)]
      scheduled == IF queued.transactionInProgress THEN <<queued, << >> >>
                                                   ELSE ScheduleTransaction(queued)
  IN
  /\ ContextIsFree
  /\ Visible(h) /\ t \notin DOMAIN txn
  /\ \E callbacks \in CallbackSets(t) :
       txn' = [u \in DOMAIN txn \cup {t} |-> IF u = t THEN NewSQLTransaction(callbacks)
                                                      ELSE txn[u]]
  /\ handle' = [handle EXCEPT ![h] = scheduled[1]]
  /\ dbQueue' = dbQueue \o scheduled[2]
  /\ UNCHANGED <<killed, dbThread, openDatabaseSet, openSetCopy, coordinationInfoMap, ctxQueue,
                 ctxThread, sync, requests, deletion, executed>>

Stopped(h) == ~handle[h].opened \/ handle[h].interrupted

\* What a context-thread step leaves: the transaction and maybe a task.
FinishContextStep(t, outcome) ==
  /\ txn' = [txn EXCEPT ![t] = outcome.txn]
  /\ dbQueue' = dbQueue \o (IF outcome.schedule = "step" THEN <<TransactionTask(t)>> ELSE << >>)

\* DeliverPendingCallbackTask -> performPendingCallback.
PerformPendingCallback ==
  /\ ContextIsFree /\ ctxThread = NoTransaction /\ ctxQueue # << >>
  /\ ctxQueue' = Tail(ctxQueue)
  /\ LET t == Head(ctxQueue) IN
     \/ /\ Stopped(HandleOf(t))
        /\ txn' = [txn EXCEPT ![t] = CancelOnContextThread(@)]
        /\ UNCHANGED <<dbQueue, ctxThread>>
     \/ /\ ~Stopped(HandleOf(t)) /\ EntersScript(txn[t])
        /\ txn' = [txn EXCEPT ![t] = BeforeScript(@)]
        /\ ctxThread' = t
        /\ UNCHANGED dbQueue
     \/ /\ ~Stopped(HandleOf(t)) /\ ~EntersScript(txn[t])
        /\ \E outcome \in ContextStep(txn[t]) : FinishContextStep(t, outcome)
        /\ UNCHANGED ctxThread
  /\ UNCHANGED <<handle, killed, dbThread, openDatabaseSet, openSetCopy, coordinationInfoMap,
                 sync, requests, deletion, executed>>

\* SQLTransaction::executeSQL of the transaction whose callback runs; it throws
\* when the database is not open any more.  Whether the database still has the
\* version that the handle expects (versionMatchesExpected) is open here.
ScriptExecutesSQL ==
  /\ ContextIsFree /\ ctxThread # NoTransaction
  /\ handle[HandleOf(ctxThread)].opened
  /\ executed[ctxThread] < MaxStatements(ctxThread)
  /\ \E kind \in StatementKinds, mismatch \in BOOLEAN :
       txn' = [txn EXCEPT ![ctxThread] =
                 ExecuteSQL(@, kind, handle[HandleOf(ctxThread)].deleted, mismatch)]
  /\ executed' = [executed EXCEPT ![ctxThread] = @ + 1]
  /\ UNCHANGED <<handle, dbQueue, killed, dbThread, openDatabaseSet, openSetCopy,
                 coordinationInfoMap, ctxQueue, ctxThread, sync, requests, deletion>>

ScriptReturns ==
  /\ ContextIsFree /\ ctxThread # NoTransaction
  /\ \E failed \in BOOLEAN : FinishContextStep(ctxThread, AfterScript(txn[ctxThread], failed))
  /\ ctxThread' = NoTransaction
  /\ UNCHANGED <<handle, killed, dbThread, openDatabaseSet, openSetCopy, coordinationInfoMap,
                 ctxQueue, sync, requests, deletion, executed>>

-----------------------------------------------------------------------------
(* Requests of the main thread, and of the inspector on the context thread. *)

Takes(request) ==
  /\ request \in requests
  /\ requests' = requests \ {request}

MainThreadIsFree ==
  /\ sync[MainThread] = "none" /\ deletion = NoDeletion
  /\ MainThread = "context" => ContextIsFree /\ ctxThread = NoTransaction

\* The user deletes a database: deleteDatabase up to the loop of
\* deleteDatabaseFile, with the handles the tracker knows.
DeleteDatabase(n) ==
  /\ MainThreadIsFree
  /\ Takes(<<"deleteDatabase", n>>)
  /\ deletion' = [name |-> n,
                  handles |-> {h \in DOMAIN handle : handle[h].registered /\ NameOf(h) = n},
                  checked |-> {}]
  /\ UNCHANGED <<handle, txn, dbQueue, killed, dbThread, openDatabaseSet, openSetCopy,
                 coordinationInfoMap, ctxQueue, ctxThread, sync, executed>>

\* One turn of that loop marks a handle and asks whether the database thread
\* runs; in a worker the context thread may stop it right after that ...
MarkAsDeletedAndClose(h) ==
  /\ sync[MainThread] = "none" /\ deletion.checked = {} /\ h \in deletion.handles
  /\ deletion' = [deletion EXCEPT !.handles = @ \ {h},
                                  !.checked = IF handle[h].deleted \/ killed THEN {} ELSE {h}]
  /\ handle' = [handle EXCEPT ![h].deleted = TRUE]
  /\ UNCHANGED <<txn, dbQueue, killed, dbThread, openDatabaseSet, openSetCopy,
                 coordinationInfoMap, ctxQueue, ctxThread, sync, requests, executed>>

\* ... and goes on to schedule the close task and to wait for it.
ScheduleCloseTask(h) ==
  /\ h \in deletion.checked
  /\ deletion' = [deletion EXCEPT !.checked = {}]
  /\ ScheduleAndWait("close", h, MainThread)
  /\ UNCHANGED <<handle, txn, killed, dbThread, openDatabaseSet, openSetCopy, coordinationInfoMap,
                 ctxQueue, ctxThread, requests, executed>>

\* The rest of deleteDatabase.
DoneDeletingDatabase ==
  /\ sync[MainThread] = "none" /\ deletion # NoDeletion
  /\ deletion.handles = {} /\ deletion.checked = {}
  /\ deletion' = NoDeletion
  /\ UNCHANGED <<handle, txn, dbQueue, killed, dbThread, openDatabaseSet, openSetCopy,
                 coordinationInfoMap, ctxQueue, ctxThread, sync, requests, executed>>

CloseImmediately(h) ==
  /\ MainThreadIsFree /\ h \in DOMAIN handle /\ handle[h].registered
  /\ ~killed /\ handle[h].opened
  /\ Takes(<<"closeImmediately", h>>)
  /\ dbQueue' = <<Task("close", h, "none")>> \o dbQueue
  /\ UNCHANGED <<handle, txn, killed, dbThread, openDatabaseSet, openSetCopy, coordinationInfoMap,
                 ctxQueue, ctxThread, sync, deletion, executed>>

\* A worker is being terminated (interruptAllDatabasesForContext).
Interrupt(h) ==
  /\ MainThreadIsFree /\ h \in DOMAIN handle /\ handle[h].registered
  /\ Takes(<<"interrupt", h>>)
  /\ handle' = [handle EXCEPT ![h].interrupted = TRUE]
  /\ UNCHANGED <<txn, dbQueue, killed, dbThread, openDatabaseSet, openSetCopy,
                 coordinationInfoMap, ctxQueue, ctxThread, sync, deletion, executed>>

\* The inspector lists the tables of a database.
TableNames(h) ==
  /\ ContextIsFree /\ ctxThread = NoTransaction /\ Visible(h)
  /\ Takes(<<"tableNames", h>>)
  /\ ~killed
  /\ ScheduleAndWait("tableNames", h, "context")
  /\ UNCHANGED <<handle, txn, killed, dbThread, openDatabaseSet, openSetCopy, coordinationInfoMap,
                 ctxQueue, ctxThread, deletion, executed>>

\* ScriptExecutionContext::stopDatabases: a document's loading is stopped, maybe
\* by a script; a worker is shut down by a task of its run loop, and waits for
\* the thread's end.
RequestTermination ==
  /\ ContextIsFree
  /\ MainThread = "main" => ctxThread = NoTransaction
  /\ Takes(<<"requestTermination", "thread">>)
  /\ ~killed
  /\ killed' = TRUE
  /\ sync' = IF MainThread = "main" THEN [sync EXCEPT !["context"] = "waiting"] ELSE sync
  /\ UNCHANGED <<handle, txn, dbQueue, dbThread, openDatabaseSet, openSetCopy,
                 coordinationInfoMap, ctxQueue, ctxThread, deletion, executed>>

-----------------------------------------------------------------------------
(* The database thread.                                                    *)

\* The next task, while the queue is not killed: waitForMessage returns null
\* after that, whatever is queued.
Takable(kind) ==
  /\ dbThread = Loop /\ ~killed /\ dbQueue # << >>
  /\ Head(dbQueue).kind = kind

\* Mutant: recordDatabaseOpen is missing.
PerformOpenTaskUnrecorded ==
  LET task == Head(dbQueue) IN
  /\ Takable("open")
  /\ \E success \in BOOLEAN :
       handle' = [handle EXCEPT ![task.handle].opened = success, ![task.handle].returned = success]
  /\ dbQueue' = Tail(dbQueue)
  /\ Complete(task.synchronizer)
  /\ UNCHANGED <<openDatabaseSet, openSetCopy, txn, killed, dbThread, coordinationInfoMap,
                 ctxQueue, ctxThread, requests, deletion, executed>>

\* DatabaseOpenTask: opening the file or verifying the version may fail.
PerformOpenTask ==
  LET task == Head(dbQueue) IN
  /\ Takable("open")
  /\ \E success \in BOOLEAN :
       /\ handle' = [handle EXCEPT ![task.handle].opened = success, ![task.handle].returned = success]
       /\ openDatabaseSet' = IF success THEN openDatabaseSet \cup {task.handle} ELSE openDatabaseSet
  /\ dbQueue' = Tail(dbQueue)
  /\ Complete(task.synchronizer)
  /\ UNCHANGED <<txn, killed, dbThread, openSetCopy, coordinationInfoMap, ctxQueue, ctxThread,
                 requests, deletion, executed>>

PerformTableNamesTask ==
  /\ Takable("tableNames")
  /\ dbQueue' = Tail(dbQueue)
  /\ Complete(Head(dbQueue).synchronizer)
  /\ UNCHANGED <<handle, txn, killed, dbThread, openDatabaseSet, openSetCopy, coordinationInfoMap,
                 ctxQueue, ctxThread, requests, deletion, executed>>

\* Database::close in three parts that other threads can tell apart; then
\* names where the database thread goes on afterwards.
Close(h, synchronizer, then) ==
  /\ handle' = [handle EXCEPT ![h].transactionQueueEnabled = FALSE,
                              ![h].transactionInProgress = FALSE, ![h].opened = FALSE]
  /\ dbThread' = [at |-> "unschedule", handle |-> h, synchronizer |-> synchronizer, then |-> then]

\* MessageQueue::removeIf(SameDatabasePredicate): what it leaves, in its order.
TasksOfOthers(queue, h) ==
  LET kept == {i \in DOMAIN queue : queue[i].handle # h}
      Rank(i) == Cardinality({j \in kept : j <= i})
  IN  [k \in 1..Cardinality(kept) |-> queue[CHOOSE i \in kept : Rank(i) = k]]

\* recordDatabaseClosed and unscheduleDatabaseTasks.
UnscheduleDatabaseTasks ==
  /\ dbThread.at = "unschedule"
  /\ openDatabaseSet' = openDatabaseSet \ {dbThread.handle}
  /\ dbQueue' = TasksOfOthers(dbQueue, dbThread.handle)
  /\ dbThread' = [dbThread EXCEPT !.at = "unregister"]
  /\ UNCHANGED <<handle, txn, killed, openSetCopy, coordinationInfoMap, ctxQueue, ctxThread, sync,
                 requests, deletion, executed>>

\* DatabaseTracker::removeOpenDatabase, and the task is complete.
RemoveOpenDatabase ==
  /\ dbThread.at = "unregister"
  /\ handle' = [handle EXCEPT ![dbThread.handle].registered = FALSE]
  /\ Complete(dbThread.synchronizer)
  /\ dbThread' = [at |-> dbThread.then]
  /\ UNCHANGED <<txn, dbQueue, killed, openDatabaseSet, openSetCopy, coordinationInfoMap,
                 ctxQueue, ctxThread, requests, deletion, executed>>

PerformCloseTask ==
  LET task == Head(dbQueue) IN
  /\ Takable("close")
  /\ Close(task.handle, task.synchronizer, "loop")
  /\ dbQueue' = Tail(dbQueue)
  /\ UNCHANGED <<txn, killed, openDatabaseSet, openSetCopy, coordinationInfoMap, ctxQueue,
                 ctxThread, sync, requests, deletion, executed>>

InfoFor(n) ==
  IF n \in DOMAIN coordinationInfoMap THEN coordinationInfoMap[n] ELSE NewCoordinationInfo

\* processPendingTransactions(info) for name n; each granted transaction's
\* lockAcquired() puts its next step in front of the queue.
ProcessPending(n, info, transactions, queue) ==
  /\ coordinationInfoMap' =
       [m \in DOMAIN coordinationInfoMap \cup {n} |->
          IF m = n THEN ProcessPendingTransactions(info) ELSE coordinationInfoMap[m]]
  /\ txn' = [t \in DOMAIN txn |-> IF t \in GrantedSet(info) THEN LockAcquired(transactions[t])
                                                            ELSE transactions[t]]
  /\ dbQueue' = [i \in DOMAIN Granted(info) |-> TransactionTask(Reverse(Granted(info))[i])] \o queue

\* What a database-thread step of t leaves.
FinishDatabaseStep(t, outcome, queue) ==
  LET n == NameOf(HandleOf(t))
      after == [txn EXCEPT ![t] = outcome.txn]
  IN
  /\ IF outcome.release
     THEN ProcessPending(n, Deactivate(InfoFor(n), t), after, queue)
     ELSE /\ txn' = after
          /\ dbQueue' = queue
          /\ UNCHANGED coordinationInfoMap
  /\ ctxQueue' = ctxQueue \o (IF outcome.schedule = "callback" THEN <<t>> ELSE << >>)
  /\ dbThread' = [at |-> IF outcome.schedule = "again" THEN "runStatements" ELSE "return",
                  transaction |-> t]

\* Mutant: opened() and interrupted() are not asked.
PerformTransactionTaskUnasked ==
  LET task == Head(dbQueue)
      t == task.transaction
      n == NameOf(task.handle)
  IN
  /\ Takable("transaction")
  /\ IF txn[t].nextStep = "acquireLock"
     THEN /\ ProcessPending(n, Enqueue(InfoFor(n), t), txn, Tail(dbQueue))
          /\ dbThread' = [at |-> "return", transaction |-> t]
          /\ UNCHANGED ctxQueue
     ELSE \E outcome \in DatabaseStep(txn[t], handle[task.handle].deleted) :
            FinishDatabaseStep(t, outcome, Tail(dbQueue))
  /\ UNCHANGED <<handle, killed, openDatabaseSet, openSetCopy, ctxThread, sync, requests,
                 deletion, executed>>

\* DatabaseTransactionTask -> performNextStep.
PerformTransactionTask ==
  LET task == Head(dbQueue)
      t == task.transaction
      h == task.handle
  IN
  /\ Takable("transaction")
  /\ \/ /\ Stopped(h)
        /\ FinishDatabaseStep(t, CancelOnDatabaseThread(txn[t]), Tail(dbQueue))
     \/ /\ ~Stopped(h) /\ txn[t].nextStep = "acquireLock"
        /\ ProcessPending(NameOf(h), Enqueue(InfoFor(NameOf(h)), t), txn, Tail(dbQueue))
        /\ dbThread' = [at |-> "return", transaction |-> t]
        /\ UNCHANGED ctxQueue
     \/ /\ ~Stopped(h) /\ txn[t].nextStep # "acquireLock"
        /\ \E outcome \in DatabaseStep(txn[t], handle[h].deleted) :
             FinishDatabaseStep(t, outcome, Tail(dbQueue))
  /\ UNCHANGED <<handle, killed, openDatabaseSet, openSetCopy, ctxThread, sync, requests,
                 deletion, executed>>

\* The loop of runStatements goes on to the next statement.
ContinueStatements ==
  /\ dbThread.at = "runStatements"
  /\ \E outcome \in RunStatements(txn[dbThread.transaction]) :
       FinishDatabaseStep(dbThread.transaction, outcome, dbQueue)
  /\ UNCHANGED <<handle, killed, openDatabaseSet, openSetCopy, ctxThread, sync, requests,
                 deletion, executed>>

\* Mutant: inProgressTransactionCompleted is never called.
ReturnWithoutCompletion ==
  /\ dbThread.at = "return"
  /\ dbThread' = Loop
  /\ UNCHANGED <<handle, txn, dbQueue, killed, openDatabaseSet, openSetCopy, coordinationInfoMap,
                 ctxQueue, ctxThread, sync, requests, deletion, executed>>

\* performNextStep reads m_nextStep once more: when it is null the task calls
\* inProgressTransactionCompleted.
ReturnFromStep ==
  LET h == HandleOf(dbThread.transaction)
      scheduled == ScheduleTransaction(handle[h])
  IN
  /\ dbThread.at = "return"
  /\ IF txn[dbThread.transaction].nextStep = "none"
     THEN /\ handle' = [handle EXCEPT ![h] = scheduled[1]]
          /\ dbQueue' = dbQueue \o scheduled[2]
     ELSE UNCHANGED <<handle, dbQueue>>
  /\ dbThread' = Loop
  /\ UNCHANGED <<txn, killed, openDatabaseSet, openSetCopy, coordinationInfoMap, ctxQueue,
                 ctxThread, sync, requests, deletion, executed>>

ActiveTransactions == UNION {Active(coordinationInfoMap[n]) : n \in DOMAIN coordinationInfoMap}

\* The databases that are recorded as open are put aside, to be closed.
SwapOpenDatabaseSet ==
  /\ openSetCopy' = openDatabaseSet
  /\ openDatabaseSet' = {}

\* Mutant: the thread goes on until it has performed every task.
ShutdownAfterDraining ==
  /\ dbThread = Loop /\ killed /\ dbQueue = << >>
  /\ txn' = [t \in DOMAIN txn |-> IF t \in ActiveTransactions THEN [txn[t] EXCEPT !.sqlite = "none"]
                                                             ELSE txn[t]]
  /\ coordinationInfoMap' = [n \in {} |-> NewCoordinationInfo]
  /\ SwapOpenDatabaseSet
  /\ dbThread' = [at |-> "exit"]
  /\ UNCHANGED <<handle, dbQueue, killed, ctxQueue, ctxThread, sync, requests, deletion,
                 executed>>

\* The loop has ended: SQLTransactionCoordinator::shutdown, and the swap.
ShutdownCoordinator ==
  /\ dbThread = Loop /\ killed
  /\ txn' = [t \in DOMAIN txn |-> IF t \in ActiveTransactions THEN [txn[t] EXCEPT !.sqlite = "none"]
                                                             ELSE txn[t]]
  /\ coordinationInfoMap' = [n \in {} |-> NewCoordinationInfo]
  /\ SwapOpenDatabaseSet
  /\ dbThread' = [at |-> "exit"]
  /\ UNCHANGED <<handle, dbQueue, killed, ctxQueue, ctxThread, sync, requests, deletion,
                 executed>>

\* close() of the databases in the copy.
CloseAtExit(h) ==
  /\ dbThread.at = "exit" /\ h \in openSetCopy
  /\ openSetCopy' = openSetCopy \ {h}
  /\ Close(h, "none", "exit")
  /\ UNCHANGED <<txn, dbQueue, killed, openDatabaseSet, coordinationInfoMap, ctxQueue, ctxThread,
                 sync, requests, deletion, executed>>

\* Mutant: the databases are not closed.
EndThreadBeforeClosing ==
  /\ dbThread.at = "exit"
  /\ dbThread' = [at |-> "ended"]
  /\ sync' = IF MainThread = "main" THEN [sync EXCEPT !["context"] = "completed"] ELSE sync
  /\ UNCHANGED <<handle, txn, dbQueue, killed, openDatabaseSet, openSetCopy, coordinationInfoMap,
                 ctxQueue, ctxThread, requests, deletion, executed>>

\* Mutant: cleanupSync is not signalled.
EndThreadUnsignalled ==
  /\ dbThread.at = "exit" /\ openSetCopy = {}
  /\ dbThread' = [at |-> "ended"]
  /\ UNCHANGED <<sync, handle, txn, dbQueue, killed, openDatabaseSet, openSetCopy,
                 coordinationInfoMap, ctxQueue, ctxThread, requests, deletion, executed>>

\* The thread ends and signals cleanupSync, if there is one.
EndThread ==
  /\ dbThread.at = "exit" /\ openSetCopy = {}
  /\ dbThread' = [at |-> "ended"]
  /\ sync' = IF MainThread = "main" THEN [sync EXCEPT !["context"] = "completed"] ELSE sync
  /\ UNCHANGED <<handle, txn, dbQueue, killed, openDatabaseSet, openSetCopy, coordinationInfoMap,
                 ctxQueue, ctxThread, requests, deletion, executed>>

-----------------------------------------------------------------------------

ContextThread ==
  \/ \E h \in Handles : OpenDatabase(h) \/ OpenAndVerifyVersion(h) \/ TableNames(h)
  \/ RequestTermination
  \/ \E t \in Transactions : RunTransaction(t)
  \/ PerformPendingCallback \/ ScriptExecutesSQL \/ ScriptReturns
  \/ WaitForTaskCompletion("context")

MainThreadRequests ==
  \/ \E h \in Handles : MarkAsDeletedAndClose(h) \/ ScheduleCloseTask(h)
  \/ \E h \in Handles : CloseImmediately(h) \/ Interrupt(h)
  \/ \E n \in {NameOf(h) : h \in Handles} : DeleteDatabase(n)
  \/ DoneDeletingDatabase
  \/ WaitForTaskCompletion("main")

DatabaseThread ==
  \/ PerformOpenTask \/ PerformTableNamesTask \/ PerformCloseTask
  \/ UnscheduleDatabaseTasks \/ RemoveOpenDatabase
  \/ PerformTransactionTask \/ ContinueStatements \/ ReturnFromStep
  \/ ShutdownCoordinator \/ EndThread
  \/ \E h \in Handles : CloseAtExit(h)

Next == ContextThread \/ MainThreadRequests \/ DatabaseThread

Spec == Init /\ [][Next]_vars

\* The database thread runs, the context's task queue is served, the scripts
\* it calls return, openDatabase and deleteDatabase go on, and so does a thread
\* whose synchronizer was signalled.
Fairness ==
  /\ WF_vars(DatabaseThread)
  /\ WF_vars(PerformPendingCallback) /\ WF_vars(ScriptReturns)
  /\ \A p \in Threads : WF_vars(WaitForTaskCompletion(p))
  /\ WF_vars(\E h \in Handles : OpenAndVerifyVersion(h))
  /\ WF_vars(\/ \E h \in Handles : MarkAsDeletedAndClose(h) \/ ScheduleCloseTask(h)
             \/ DoneDeletingDatabase)

FairSpec == Spec /\ Fairness

-----------------------------------------------------------------------------
(* Safety                                                                  *)

Created == DOMAIN txn

\* The places that will make t go on: a queued task, a posted callback, the
\* script that runs, the statement loop, the coordinator's queue and the
\* handle's queue.
Tickets(t) ==
    Cardinality({i \in DOMAIN dbQueue : dbQueue[i].transaction = t})
  + Cardinality({i \in DOMAIN ctxQueue : ctxQueue[i] = t})
  + Cardinality({t} \cap {ctxThread})
  + Cardinality({t} \cap (IF dbThread.at = "runStatements" THEN {dbThread.transaction} ELSE {}))
  + Cardinality({t} \cap Pending(InfoFor(NameOf(HandleOf(t)))))
  + Cardinality({t} \cap ToSet(handle[HandleOf(t)].transactionQueue))

\* Queues refer to existing objects only, m_nextStep names a step or is null,
\* and a synchronizer belongs to a thread.
TypeOK ==
  /\ DOMAIN handle \subseteq Handles /\ Created \subseteq Transactions
  /\ \A t \in Created : txn[t].nextStep \in DatabaseSteps \cup ContextSteps \cup {"none"}
  /\ ToSet(ctxQueue) \subseteq Created
  /\ \A i \in DOMAIN dbQueue : dbQueue[i].handle \in DOMAIN handle
  /\ \A n \in DOMAIN coordinationInfoMap : coordinationInfoMap[n] \in CoordinationInfos
  /\ sync \in [Threads -> {"none", "waiting", "completed"}]

\* The state is well typed, a transaction is never in two places at once, and
\* a task or callback finds m_nextStep naming a step of its thread: the ASSERTs
\* of performNextStep and performPendingCallback.
StepsTakeTurns ==
  /\ TypeOK
  /\ \A t \in Created : Tickets(t) <= 1
  /\ \A i \in DOMAIN dbQueue :
       dbQueue[i].kind = "transaction" => txn[dbQueue[i].transaction].nextStep \in DatabaseSteps
  /\ \A i \in DOMAIN ctxQueue : txn[ctxQueue[i]].nextStep \in ContextSteps

\* An SQLite transaction exists only under the coordinator's lock and one
\* connection has at most one: the ASSERTs on transactionInProgress() in
\* openTransactionAndPreflight, which m_transactionInProgress must guarantee.
SqliteTransactionsIsolated ==
  LET open == {t \in Created : txn[t].sqlite # "none"} IN
  /\ open \subseteq ActiveTransactions
  /\ \A t, u \in open : t # u => HandleOf(t) # HandleOf(u)
  /\ \A t, u \in open : t # u /\ NameOf(HandleOf(t)) = NameOf(HandleOf(u)) =>
                          t \in ReadOnly /\ u \in ReadOnly

\* The script learns of a transaction's end once and truthfully: success only
\* after COMMIT, an error only when nothing was committed.
CallbacksTellTheTruth ==
  \A t \in Created :
    /\ "successCallback" \in txn[t].happened => "committed" \in txn[t].happened
    /\ "errorCallback" \in txn[t].happened => "committed" \notin txn[t].happened

\* No statement runs after SQLite has rolled the transaction back: it would
\* commit by itself, outside of any transaction.
StatementsInsideTransaction ==
  \A t \in Created : "ranOutsideTransaction" \notin txn[t].happened

\* The lock is kept for good only by transactions of a handle that was closed
\* or interrupted: a transaction of a running handle always has somewhere to go.
LocksReturned ==
  \A t \in ActiveTransactions : Tickets(t) = 0 => Stopped(HandleOf(t))

\* When the thread has ended, every SQLite transaction is gone and every
\* database is closed (~SQLTransaction asserts the first).
NothingOpenAtEnd ==
  dbThread.at = "ended" => /\ \A t \in Created : txn[t].sqlite = "none"
                           /\ \A h \in DOMAIN handle : ~handle[h].opened

\* The task that thread p waits for is queued or running, or p waits for the end
\* of the thread.
TaskSurvives(p) ==
  sync[p] = "waiting" =>
    \/ ~killed /\ \E i \in DOMAIN dbQueue : dbQueue[i].synchronizer = p
    \/ dbThread.at \in {"unschedule", "unregister"} /\ dbThread.synchronizer = p
    \/ killed /\ p = "context" /\ dbThread.at # "ended"

\* No thread waits for a task that is never performed: ~DatabaseTask asserts
\* that a task with a synchronizer is not destroyed before it is complete.
SynchronousTasksSurvive == \A p \in Threads : TaskSurvives(p)

\* The same for the main thread alone: the close task of a database that the
\* user deletes is performed, although the database belongs to a worker whose
\* context thread may ask the database thread to terminate.
DeletionIsAnswered == TaskSurvives("main")

\* close() finds the database recorded as open, unless the thread is being
\* terminated: the ASSERT of recordDatabaseClosed.
ClosesOnlyOpenDatabases ==
  dbThread.at = "unschedule" => killed \/ dbThread.handle \in openDatabaseSet

\* A statement whose error callback ran and returned false does not fail the
\* transaction: the comment of deliverStatementCallback.  The exception is a
\* quota error: runStatements finds the current statement still marked with
\* it, and the transaction fails although the script handled the error.
HandledErrorsContinue ==
  \A t \in Created :
    txn[t].error = "statement" /\ txn[t].current.handled => txn[t].current.error = "quota"

-----------------------------------------------------------------------------
(* The abstract specification                                              *)

\* The steps before SQLite is asked for a transaction.
FirstSteps == {"acquireLock", "openTransactionAndPreflight"}

\* Handles that were interrupted, or closed after scripts got them.
StoppedHandles ==
  {h \in DOMAIN handle : handle[h].interrupted \/ (handle[h].returned /\ ~handle[h].opened)}

\* The transactions of h that were taken off its queue and not opened yet: the
\* one in progress, if it has not come that far.
Begun(h) ==
  {t \in Created : /\ HandleOf(t) = h /\ txn[t].nextStep \in FirstSteps
                   /\ t \notin ToSet(handle[h].transactionQueue)}

\* Who waits on h, in order.
WaitingOn(h) ==
  IF h \in DOMAIN handle \ StoppedHandles
  THEN (IF Begun(h) = {} THEN << >> ELSE <<CHOOSE t \in Begun(h) : TRUE>>) \o handle[h].transactionQueue
  ELSE << >>

StatusOf(t) ==
  IF t \notin Created THEN "new"
  ELSE IF "committed" \in txn[t].happened THEN "committed"
  ELSE IF txn[t].sqlite = "inProgress" THEN "open"
  ELSE IF txn[t].nextStep \in FirstSteps /\ HandleOf(t) \notin StoppedHandles THEN "waiting"
  ELSE "undone"

ToldOf(t) ==
  IF t \in Created /\ "successCallback" \in txn[t].happened THEN "success"
  ELSE IF t \in Created /\ "errorCallback" \in txn[t].happened THEN "error"
  ELSE "nothing"

Service == INSTANCE TransactionService WITH
  stopped <- StoppedHandles,
  waiting <- [h \in Handles |-> WaitingOn(h)],
  status <- [t \in Transactions |-> StatusOf(t)],
  told <- [t \in Transactions |-> ToldOf(t)]

\* What scripts see of transaction(), readTransaction() and their callbacks is
\* TransactionService: a handle's transactions are opened one at a time, in the
\* order of the calls, isolated on their database, and ended once; their
\* callbacks tell the truth, once; and none is opened after its handle was
\* closed or interrupted (checkAndHandleClosedOrInterruptedDatabase), whatever
\* tasks, locks and steps do on the threads.
RefinesTransactionService == Service!Spec

-----------------------------------------------------------------------------
(* Liveness                                                                *)

\* Every transaction ends, whatever is queued on other handles, unless its
\* handle is closed or interrupted or the thread is asked to terminate.
TransactionsFinish ==
  \A t \in Transactions :
    t \in Created ~> t \in Created /\ (txn[t].nextStep = "none" \/ Stopped(HandleOf(t)) \/ killed)

\* A thread that waits for a synchronous task, or for the end of the database
\* thread, goes on.
WaitsEnd == \A p \in Threads : (sync[p] = "waiting") ~> (sync[p] = "none")

\* Once asked to, the database thread ends, whatever is queued, open or running,
\* and the worker that waits for that (cleanupSync) goes on.
TerminationCompletes == killed ~> (dbThread.at = "ended" /\ sync["context"] = "none")
=============================================================================
