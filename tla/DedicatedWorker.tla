--------------------------- MODULE DedicatedWorker ---------------------------
(***************************************************************************)
(* A dedicated worker: the Worker object and its WorkerMessagingProxy on    *)
(* the context thread, WorkerThread with its run loop and context on the    *)
(* other side.                                                              *)
(*                                                                         *)
(* Each side posts tasks to the other.  The proxy is deleted by the last    *)
(* task of the worker or with the Worker object, whichever comes later;     *)
(* tasks and the worker thread refer to it by plain pointers.  The garbage  *)
(* collector may take a Worker object that no script refers to once the     *)
(* proxy knows of no activity of the worker.                                *)
(*                                                                         *)
(* createThread is taken to succeed.  The wait for the database thread in   *)
(* WorkerThreadShutdownStartTask is in module WebDatabase.                  *)
(***************************************************************************)
EXTENDS Integers, Sequences, FiniteSets

CONSTANTS MaxMessages,  \* bound on the messages that the page posts
          MaxEvents     \* bound on the tasks that scripts of the worker cause

ASSUME WorkerAssumption == MaxMessages \in Nat /\ MaxEvents \in Nat

VARIABLES
  object,        \* the Worker object: "loading" its script, "alive" or "gone"
  proxy,         \* WorkerMessagingProxy
  contextTasks,  \* tasks of the context thread that refer to the proxy
  thread,        \* WorkerThread and its WorkerContext
  loop,          \* tasks of the WorkerRunLoop
  killed,        \* the run loop was terminated
  messages, events,   \* numbers of messages and events so far
  imported       \* history: the worker has called importScripts

vars == <<object, proxy, contextTasks, thread, loop, killed, messages, events, imported>>

Init ==
  /\ object = "loading"
  /\ proxy = [deleted |-> FALSE, hasThread |-> FALSE, askedToTerminate |-> FALSE,
              unconfirmed |-> 0, hadPendingActivity |-> FALSE, earlyTasks |-> 0]
  /\ contextTasks = <<>>
  /\ thread = [at |-> "none", script |-> "none", context |-> FALSE, terminating |-> FALSE,
               forbidden |-> FALSE, closing |-> FALSE, active |-> FALSE]
  /\ loop = <<>> /\ killed = FALSE
  /\ messages = 0 /\ events = 0 /\ imported = FALSE

Task(kind) == [kind |-> kind, active |-> FALSE]
Report(kind, active) == [kind |-> kind, active |-> active]

-----------------------------------------------------------------------------
(* The context thread                                                      *)

\* WorkerThread::stop: script is interrupted and the shutdown is queued, or
\* the run loop is terminated when the context is not there yet.
Stop ==
  IF thread.context
  THEN /\ thread' = [thread EXCEPT !.terminating = TRUE]
       /\ loop' = Append(loop, "shutdownStart")
       /\ UNCHANGED killed
  ELSE /\ killed' = TRUE
       /\ UNCHANGED <<thread, loop>>

\* Mutant: the start of the worker is not counted as activity.
StartWorkerContextIdle ==
  /\ thread' = [thread EXCEPT !.at = "starting"]
  /\ IF proxy.askedToTerminate
     THEN /\ proxy' = [proxy EXCEPT !.hasThread = TRUE]
          /\ killed' = TRUE
          /\ UNCHANGED loop
     ELSE /\ proxy' = [proxy EXCEPT !.hasThread = TRUE, !.unconfirmed = proxy.earlyTasks, !.earlyTasks = 0]
          /\ loop' = [i \in 1..proxy.earlyTasks |-> "message"]
          /\ UNCHANGED killed

\* startWorkerContext, workerThreadCreated and WorkerThread::start: early
\* messages are handed over, or the thread is stopped before it runs.
StartWorkerContext ==
  /\ thread' = [thread EXCEPT !.at = "starting"]
  /\ IF proxy.askedToTerminate
     THEN /\ proxy' = [proxy EXCEPT !.hasThread = TRUE]
          /\ killed' = TRUE
          /\ UNCHANGED loop
     ELSE /\ proxy' = [proxy EXCEPT !.hasThread = TRUE, !.unconfirmed = proxy.earlyTasks,
                                    !.hadPendingActivity = TRUE, !.earlyTasks = 0]
          /\ loop' = [i \in 1..proxy.earlyTasks |-> "message"]
          /\ UNCHANGED killed

\* notifyFinished: the script of the worker was loaded, or not.
NotifyFinished ==
  /\ object = "loading" /\ object' = "alive"
  /\ \/ UNCHANGED <<proxy, thread, loop, killed>>
     \/ StartWorkerContext
  /\ UNCHANGED <<contextTasks, messages, events, imported>>

\* postMessage of the page; ignored after terminate().
PostMessage ==
  /\ object # "gone" /\ messages < MaxMessages /\ ~proxy.askedToTerminate
  /\ messages' = messages + 1
  /\ IF proxy.hasThread
     THEN /\ proxy' = [proxy EXCEPT !.unconfirmed = @ + 1]
          /\ loop' = Append(loop, "message")
     ELSE /\ proxy' = [proxy EXCEPT !.earlyTasks = @ + 1]
          /\ UNCHANGED loop
  /\ UNCHANGED <<object, contextTasks, thread, killed, events, imported>>

\* terminateWorkerContext, of the page, the document or the worker's close().
TerminateWorkerContext ==
  /\ proxy' = [proxy EXCEPT !.askedToTerminate = TRUE]
  /\ IF ~proxy.askedToTerminate /\ proxy.hasThread THEN Stop
     ELSE UNCHANGED <<thread, loop, killed>>

\* Worker::terminate and stop.
Terminate ==
  /\ object # "gone" /\ ~proxy.askedToTerminate
  /\ TerminateWorkerContext
  /\ UNCHANGED <<object, contextTasks, messages, events, imported>>

HasPendingActivity ==
  (proxy.unconfirmed > 0 \/ proxy.hadPendingActivity) /\ ~proxy.askedToTerminate

\* workerContextDestroyedInternal: the proxy goes unless the object needs it.
WorkerContextDestroyedInternal(objectGone) ==
  proxy' = [proxy EXCEPT !.askedToTerminate = TRUE, !.hasThread = FALSE, !.deleted = objectGone]

\* Mutant: the proxy goes with the object although the thread is there.
WorkerObjectDestroyedAtOnce ==
  /\ object = "alive" /\ ~HasPendingActivity
  /\ object' = "gone"
  /\ WorkerContextDestroyedInternal(TRUE)
  /\ UNCHANGED <<contextTasks, thread, loop, killed, messages, events, imported>>

\* The Worker object is collected: workerObjectDestroyed.
WorkerObjectDestroyed ==
  /\ object = "alive" /\ ~HasPendingActivity
  /\ object' = "gone"
  /\ IF proxy.hasThread THEN TerminateWorkerContext
     ELSE /\ WorkerContextDestroyedInternal(TRUE)
          /\ UNCHANGED <<thread, loop, killed>>
  /\ UNCHANGED <<contextTasks, messages, events, imported>>

\* reportPendingActivityInternal.
ReportPendingActivityInternal(confirming, active) ==
  proxy' = [proxy EXCEPT !.unconfirmed = IF confirming /\ ~proxy.askedToTerminate THEN @ - 1 ELSE @,
                         !.hadPendingActivity = active]

\* The context thread performs a task of the worker.  Messages and exceptions
\* are dispatched to the object, which changes nothing here.
PerformContextTask ==
  /\ contextTasks # <<>>
  /\ contextTasks' = Tail(contextTasks)
  /\ LET task == Head(contextTasks)
     IN  \/ task.kind \in {"message", "exception"} /\ UNCHANGED <<proxy, thread, loop, killed>>
         \/ /\ task.kind \in {"confirm", "report"}
            /\ ReportPendingActivityInternal(task.kind = "confirm", task.active)
            /\ UNCHANGED <<thread, loop, killed>>
         \/ task.kind = "terminate" /\ TerminateWorkerContext
         \/ /\ task.kind = "destroyed"
            /\ WorkerContextDestroyedInternal(object = "gone")
            /\ UNCHANGED <<thread, loop, killed>>
  /\ UNCHANGED <<object, messages, events, imported>>

-----------------------------------------------------------------------------
(* The worker thread                                                       *)

Post(task) == contextTasks' = Append(contextTasks, task)

\* Mutant: the new context does not look whether it was terminated before.
CreateContextUnaware ==
  /\ thread.at = "starting"
  /\ thread' = [thread EXCEPT !.at = "script", !.script = "evaluate", !.context = TRUE]
  /\ UNCHANGED <<object, proxy, contextTasks, loop, killed, messages, events, imported>>

\* workerThread: the context is created, and may not run script when the
\* worker was terminated before.
CreateContext ==
  /\ thread.at = "starting"
  /\ thread' = [thread EXCEPT !.at = "script", !.script = "evaluate", !.context = TRUE,
                              !.forbidden = killed]
  /\ UNCHANGED <<object, proxy, contextTasks, loop, killed, messages, events, imported>>

\* Script runs in the worker: it posts messages, throws, or changes what is
\* pending (timers, requests, ports).
ScriptActs ==
  /\ thread.at = "script" /\ ~thread.forbidden /\ events < MaxEvents
  /\ events' = events + 1
  /\ \/ Post(Task("message")) /\ UNCHANGED thread
     \/ Post(Task("exception")) /\ UNCHANGED thread
     \/ thread' = [thread EXCEPT !.active = ~thread.active] /\ UNCHANGED contextTasks
  /\ UNCHANGED <<object, proxy, loop, killed, messages, imported>>

\* importScripts reports the activity in the middle of a script.
ImportScripts ==
  /\ thread.at = "script" /\ ~thread.forbidden /\ events < MaxEvents
  /\ events' = events + 1
  /\ Post(Report("report", thread.active))
  /\ imported' = TRUE
  /\ UNCHANGED <<object, proxy, thread, loop, killed, messages>>

\* close() of the worker.
CloseContext ==
  /\ thread.at = "script" /\ ~thread.forbidden /\ ~thread.closing
  /\ thread' = [thread EXCEPT !.closing = TRUE]
  /\ loop' = Append(loop, "close")
  /\ UNCHANGED <<object, proxy, contextTasks, killed, messages, events, imported>>

\* The script returns.  After the first one the activity is reported and the
\* run loop entered, after a message the message is confirmed.
EndScript ==
  /\ thread.at = "script"
  /\ thread' = [thread EXCEPT !.at = "loop", !.script = "none"]
  /\ \/ thread.script = "evaluate" /\ Post(Report("report", thread.active))
     \/ thread.script = "message" /\ Post(Report("confirm", thread.active))
     \/ thread.script = "timer" /\ UNCHANGED contextTasks
  /\ UNCHANGED <<object, proxy, loop, killed, messages, events, imported>>

\* Tasks of the run loop.  A closing context performs cleanup tasks only: all
\* but messages.
MessageWorkerContextTask ==
  /\ thread' = IF thread.closing THEN thread
               ELSE [thread EXCEPT !.at = "script", !.script = "message"]
  /\ loop' = Tail(loop)
  /\ UNCHANGED <<contextTasks, killed>>

CloseWorkerContextTask ==
  /\ Post(Task("terminate"))
  /\ loop' = Tail(loop)
  /\ UNCHANGED <<thread, killed>>

\* What is pending is stopped and the listeners are removed, so that no script
\* runs any more.
WorkerThreadShutdownStartTask ==
  /\ thread' = [thread EXCEPT !.active = FALSE, !.forbidden = TRUE]
  /\ loop' = Append(Tail(loop), "shutdownFinish")
  /\ UNCHANGED <<contextTasks, killed>>

WorkerThreadShutdownFinishTask ==
  /\ killed' = TRUE
  /\ loop' = Tail(loop)
  /\ UNCHANGED <<thread, contextTasks>>

\* One turn of the run loop with a task.
PerformLoopTask ==
  /\ thread.at = "loop" /\ ~killed /\ loop # <<>>
  /\ \/ Head(loop) = "message" /\ MessageWorkerContextTask
     \/ Head(loop) = "close" /\ CloseWorkerContextTask
     \/ Head(loop) = "shutdownStart" /\ WorkerThreadShutdownStartTask
     \/ Head(loop) = "shutdownFinish" /\ WorkerThreadShutdownFinishTask
  /\ UNCHANGED <<object, proxy, messages, events, imported>>

\* One turn of the run loop with the timer.  A timer that fires once is gone
\* before its action runs.
TimerFires ==
  /\ thread.at = "loop" /\ ~killed /\ loop = <<>>
  /\ thread.active /\ ~thread.closing
  /\ \E active \in BOOLEAN :
       thread' = [thread EXCEPT !.at = "script", !.script = "timer", !.active = active]
  /\ UNCHANGED <<object, proxy, contextTasks, loop, killed, messages, events, imported>>

\* The run loop returns, and the context is destroyed: workerContextDestroyed.
EndThread ==
  /\ thread.at = "loop" /\ killed
  /\ thread' = [thread EXCEPT !.at = "ended", !.context = FALSE]
  /\ Post(Task("destroyed"))
  /\ UNCHANGED <<object, proxy, loop, killed, messages, events, imported>>

-----------------------------------------------------------------------------
WorkerStep ==
  CreateContext \/ ScriptActs \/ ImportScripts \/ CloseContext \/ EndScript
    \/ PerformLoopTask \/ TimerFires \/ EndThread

Next ==
  \/ NotifyFinished \/ PostMessage \/ Terminate \/ WorkerObjectDestroyed \/ PerformContextTask
  \/ WorkerStep

Spec == Init /\ [][Next]_vars

\* Both threads perform their tasks.  A script of the worker may run for ever
\* until it is interrupted by stop() or never starts.
FairSpec ==
  /\ Spec
  /\ WF_vars(PerformContextTask)
  /\ WF_vars(CreateContext) /\ WF_vars(PerformLoopTask) /\ WF_vars(EndThread)
  /\ WF_vars(EndScript /\ (thread.terminating \/ thread.forbidden))

-----------------------------------------------------------------------------
(* Properties                                                              *)

ContextTask ==
  [kind : {"message", "exception", "confirm", "report", "terminate", "destroyed"}, active : BOOLEAN]
LoopTask == {"message", "close", "shutdownStart", "shutdownFinish"}

ProxyOK ==
  /\ object \in {"loading", "alive", "gone"}
  /\ proxy \in [deleted : BOOLEAN, hasThread : BOOLEAN, askedToTerminate : BOOLEAN,
                unconfirmed : Nat, hadPendingActivity : BOOLEAN, earlyTasks : Nat]
ThreadOK ==
  /\ thread \in [at : {"none", "starting", "script", "loop", "ended"},
                 script : {"none", "evaluate", "message", "timer"},
                 context : BOOLEAN, terminating : BOOLEAN, forbidden : BOOLEAN,
                 closing : BOOLEAN, active : BOOLEAN]
  /\ killed \in BOOLEAN /\ imported \in BOOLEAN
QueuesOK == contextTasks \in Seq(ContextTask) /\ loop \in Seq(LoopTask)
TypeOK == ProxyOK /\ ThreadOK /\ QueuesOK /\ messages \in Nat /\ events \in Nat

\* How many elements of a sequence are in a set.
Count(s, elements) == Cardinality({i \in DOMAIN s : s[i] \in elements})
Confirmations == {Report("confirm", TRUE), Report("confirm", FALSE)}

\* Nobody uses a proxy that was deleted: neither tasks nor the thread are left,
\* and the WorkerContextDestroyedTask is the last one, as the comment of
\* workerContextDestroyedInternal says.
ProxyOutlivesUsers ==
  /\ proxy.deleted => object = "gone" /\ contextTasks = <<>> /\ thread.at \in {"none", "ended"}
  /\ \A i \in DOMAIN contextTasks :
       contextTasks[i].kind = "destroyed" => i = Len(contextTasks) /\ thread.at = "ended"

\* The messages on their way to the worker, the one that it handles, and the
\* confirmations on their way back.
OnTheWay ==
  Count(loop, {"message"}) + Count(contextTasks, Confirmations)
    + (IF thread.script = "message" THEN 1 ELSE 0)

\* m_unconfirmedMessageCount counts them; a closing worker does not confirm.
UnconfirmedCounted ==
  proxy.hasThread /\ ~proxy.askedToTerminate =>
    /\ proxy.unconfirmed >= OnTheWay
    /\ ~thread.closing => proxy.unconfirmed = OnTheWay

ProxyInvariant == TypeOK /\ ProxyOutlivesUsers /\ UnconfirmedCounted

\* A Worker object is collected only when its worker is idle for good: no
\* script runs or is to run, nothing is pending, and no message or exception
\* is on its way to the object.  Excepted is a worker that called
\* importScripts, which reports no activity while its script still runs.
CollectedOnlyWhenIdle ==
  proxy.hasThread /\ ~proxy.askedToTerminate /\ ~HasPendingActivity /\ ~imported =>
    /\ thread.at = "loop" /\ ~thread.active
    /\ \A i \in DOMAIN loop : loop[i] # "message"
    /\ \A i \in DOMAIN contextTasks : contextTasks[i].kind \notin {"message", "exception"}

\* A worker that is told to terminate ends, whatever its script does, and the
\* proxy of an object that is gone is deleted.
TerminatedWorkersEnd ==
  /\ proxy.hasThread /\ proxy.askedToTerminate ~> thread.at = "ended"
  /\ object = "gone" ~> proxy.deleted
=============================================================================
