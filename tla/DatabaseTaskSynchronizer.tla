---------------------- MODULE DatabaseTaskSynchronizer ----------------------
(***************************************************************************)
(* Tasks somebody waits for.  The caller makes a synchronizer on its stack *)
(* hands the task to the queue of the database thread, at either end, and  *)
(* blocks in waitForTaskCompletion; the thread performs the task and calls *)
(* taskCompleted.  Each synchronizer has its own mutex and condition, apart *)
(* from the queue's.  This composes them with MessageQueue.                 *)
(***************************************************************************)
EXTENDS MessageQueue

CONSTANT Synchronous   \* the messages with a synchronizer, each with its caller

ASSUME SynchronousAssumption ==
  Synchronous \subseteq Messages /\ \A m \in Synchronous : ModeOf(m) = "default"

VARIABLES
  caller,            \* where the caller of a synchronous task is
  m_taskCompleted,   \* of its synchronizer
  performed,         \* the tasks whose doPerformTask has returned
  spurious           \* history: the callers that woke for no reason

syncVars == <<caller, m_taskCompleted, performed, spurious>>

SyncInit ==
  /\ Init
  /\ caller = [m \in Synchronous |-> "idle"]
  /\ m_taskCompleted = [m \in Synchronous |-> FALSE]
  /\ performed = {}
  /\ spurious = {}

-----------------------------------------------------------------------------
(* The callers                                                             *)

\* scheduleTask or scheduleImmediateTask.
ScheduleTask(m) ==
  /\ AppendMessage(m) \/ Prepend(m)
  /\ caller' = [t \in Synchronous |-> IF t = m THEN "scheduled" ELSE caller[t]]
  /\ UNCHANGED <<m_taskCompleted, performed, spurious>>

\* Mutant: the caller waits without a look at the flag.
WaitForTaskCompletionUntested(m) ==
  /\ caller[m] = "scheduled"
  /\ caller' = [caller EXCEPT ![m] = "blocked"]
  /\ UNCHANGED <<vars, m_taskCompleted, performed, spurious>>

\* waitForTaskCompletion up to its wait, or to its return.
WaitForTaskCompletion(m) ==
  /\ caller[m] = "scheduled"
  /\ caller' = [caller EXCEPT ![m] = IF m_taskCompleted[m] THEN "returned" ELSE "blocked"]
  /\ UNCHANGED <<vars, m_taskCompleted, performed, spurious>>

\* The wait ends for no reason.
CallerWakesSpuriously(m) ==
  /\ caller[m] = "blocked"
  /\ caller' = [caller EXCEPT ![m] = "awake"]
  /\ spurious' = spurious \cup {m}
  /\ UNCHANGED <<vars, m_taskCompleted, performed>>

\* After its wait the caller returns: the flag is not tested a second time.
ReturnFromWait(m) ==
  /\ caller[m] = "awake"
  /\ caller' = [caller EXCEPT ![m] = "returned"]
  /\ UNCHANGED <<vars, m_taskCompleted, performed, spurious>>

-----------------------------------------------------------------------------
(* The database thread: DatabaseTask::performTask                          *)

CurrentTasks == IF received = <<>> THEN {} ELSE {received[Len(received)]}

\* The thread is done with what it has received last.
Idle ==
  \A m \in CurrentTasks : m \in performed /\ (m \in Synchronous => m_taskCompleted[m])

DoPerformTask ==
  /\ \E m \in CurrentTasks \ performed : performed' = performed \cup {m}
  /\ UNCHANGED <<vars, caller, m_taskCompleted, spurious>>

\* Mutant: the task is reported before it is performed.
TaskCompletedFirst ==
  \E m \in CurrentTasks \cap Synchronous :
    /\ ~m_taskCompleted[m]
    /\ m_taskCompleted' = [m_taskCompleted EXCEPT ![m] = TRUE]
    /\ caller' = [caller EXCEPT ![m] = IF @ = "blocked" THEN "awake" ELSE @]
    /\ UNCHANGED <<vars, performed, spurious>>

TaskCompleted ==
  \E m \in CurrentTasks \cap Synchronous \cap performed :
    /\ ~m_taskCompleted[m]
    /\ m_taskCompleted' = [m_taskCompleted EXCEPT ![m] = TRUE]
    /\ caller' = [caller EXCEPT ![m] = IF @ = "blocked" THEN "awake" ELSE @]
    /\ UNCHANGED <<vars, performed, spurious>>

\* The thread goes back to its queue.
NextMessage ==
  /\ Idle
  /\ \/ \E mode \in Modes \cup {"default"}, deadline \in BOOLEAN : WaitForMessage(mode, deadline)
     \/ TryGetMessage
  /\ UNCHANGED syncVars

CallerStep(m) ==
  \/ WaitForTaskCompletion(m) \/ CallerWakesSpuriously(m) \/ ReturnFromWait(m)

\* What others do to the queue, and the thread inside its wait.
QueueStep ==
  /\ \/ \E removed \in SUBSET Contents : removed # {} /\ RemoveIf(removed)
     \/ Kill
     \/ Recheck \/ SpuriousWakeup \/ Timeout
  /\ UNCHANGED syncVars

SyncNext ==
  \/ \E m \in Messages : ScheduleTask(m)
  \/ \E m \in Synchronous : CallerStep(m)
  \/ DoPerformTask \/ TaskCompleted \/ NextMessage
  \/ QueueStep

SyncSpec == SyncInit /\ [][SyncNext]_<<vars, syncVars>>

\* The thread keeps running (a wait without a deadline may be its next call,
\* so no timeout is relied on), callers go on after a signal, and the messages
\* that a nested run waits for are sent (the loader completes).
FairSyncSpec ==
  /\ SyncSpec
  /\ WF_<<vars, syncVars>>(DoPerformTask)
  /\ WF_<<vars, syncVars>>(TaskCompleted)
  /\ WF_<<vars, syncVars>>(NextMessage)
  /\ WF_<<vars, syncVars>>(Recheck /\ UNCHANGED syncVars)
  /\ \A m \in Synchronous :
       WF_<<vars, syncVars>>(WaitForTaskCompletion(m)) /\ WF_<<vars, syncVars>>(ReturnFromWait(m))
  /\ \A m \in Messages : ModeOf(m) # "default" => WF_<<vars, syncVars>>(ScheduleTask(m))

-----------------------------------------------------------------------------
(* Properties                                                              *)

\* A caller that comes back from waitForTaskCompletion finds the result of its
\* task (openAndVerifyVersion, tableNames) and may let the stack frame go that
\* the task refers to: a return before the task is performed needs a spurious
\* wakeup.
ReturnsAfterPerforming ==
  \A m \in Synchronous : caller[m] = "returned" => m \in performed \/ m \in spurious

\* A caller is not left waiting, whichever of taskCompleted and the wait comes
\* first, unless its task was removed or the queue killed: every purge and kill
\* must therefore look after the callers (see WebDatabase).
Dropped(m) == m \in sent /\ m \notin Contents /\ \A i \in DOMAIN received : received[i] # m

WaitsReturn ==
  \A m \in Synchronous :
    caller[m] = "scheduled" ~> (caller[m] = "returned" \/ m_killed \/ Dropped(m))
=============================================================================
