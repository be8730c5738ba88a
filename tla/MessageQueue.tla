---------------------------- MODULE MessageQueue ----------------------------
(***************************************************************************)
(* WTF::MessageQueue with the one thread that waits on it, at the level of *)
(* its mutex and condition variable.  A critical section of m_mutex is one *)
(* step; timedWait gives the mutex up, so waiting is two steps with the    *)
(* other threads in between.  A signal reaches the thread only if it is    *)
(* blocked at that moment, a blocked thread may also wake for no reason    *)
(* and, when its wait has a deadline, by a timeout that races the signals. *)
(*                                                                         *)
(* The waiting thread is DatabaseThread, whose messages have one kind, or  *)
(* a worker with its WorkerRunLoop, which waits with a deadline while its  *)
(* shared timer is active, and only for messages of one mode in a nested   *)
(* run of a synchronous load.                                              *)
(***************************************************************************)
EXTENDS Naturals, Sequences

CONSTANTS
  Messages,    \* each is sent once
  Modes,       \* modes of nested runs
  ModeOf(_)    \* the mode a message was posted for, or "default"

VARIABLES
  m_queue,
  m_killed,
  sent,        \* the messages that were handed to the queue
  thread,      \* the waiting thread: where it is and what it waits with
  received     \* history: what waitForMessage returned, in order

vars == <<m_queue, m_killed, sent, thread, received>>

Contents == {m_queue[i] : i \in DOMAIN m_queue}

\* ModePredicate: the default mode accepts every message.
Accepts(mode, m) == mode = "default" \/ ModeOf(m) = mode

\* found = m_queue.findIf(predicate): the position of the first match.
Matches(mode) == {i \in DOMAIN m_queue : Accepts(mode, m_queue[i])}
Found(mode, i) == i \in Matches(mode) /\ \A j \in Matches(mode) : i <= j

Init ==
  /\ m_queue = <<>>
  /\ m_killed = FALSE
  /\ sent = {}
  /\ thread = [state |-> "running", mode |-> "default", deadline |-> FALSE]
  /\ received = <<>>

-----------------------------------------------------------------------------
(* The senders                                                             *)

\* m_condition.signal() or broadcast(): lost unless the thread is blocked.
Wake == thread' = IF thread.state = "blocked" THEN [thread EXCEPT !.state = "awake"] ELSE thread

\* Mutant: the sender signals only when the queue was empty.
EnqueueSignallingFirst(m, queue) ==
  /\ m \notin sent
  /\ sent' = sent \cup {m}
  /\ m_queue' = queue
  /\ IF m_queue = <<>> THEN Wake ELSE UNCHANGED thread
  /\ UNCHANGED <<m_killed, received>>

Enqueue(m, queue) ==
  /\ m \notin sent
  /\ sent' = sent \cup {m}
  /\ m_queue' = queue
  /\ Wake
  /\ UNCHANGED <<m_killed, received>>

\* append, and appendAndCheckEmpty, which also tells whether the queue was empty.
AppendMessage(m) == Enqueue(m, Append(m_queue, m))

Prepend(m) == Enqueue(m, <<m>> \o m_queue)

\* removeIf deletes the matching messages; it is called by DatabaseThread and
\* FileThread, whose messages all have the default mode.
RemoveIf(removed) ==
  /\ removed \subseteq {m \in Contents : ModeOf(m) = "default"}
  /\ \E n \in 0..Len(m_queue) : \E at \in [1..n -> DOMAIN m_queue] :
       /\ \A j, k \in 1..n : j < k => at[j] < at[k]
       /\ {at[k] : k \in 1..n} = {i \in DOMAIN m_queue : m_queue[i] \notin removed}
       /\ m_queue' = [k \in 1..n |-> m_queue[at[k]]]
  /\ UNCHANGED <<m_killed, sent, thread, received>>

Kill ==
  /\ m_killed' = TRUE
  /\ Wake
  /\ UNCHANGED <<m_queue, sent, received>>

-----------------------------------------------------------------------------
(* The waiting thread: waitForMessageFilteredWithTimeout                   *)

Return == thread' = [state |-> "running", mode |-> "default", deadline |-> FALSE]

\* Mutant: findIf returns the last match.
TakeLastMessage(mode) ==
  \E i \in DOMAIN m_queue :
    /\ i \in Matches(mode) /\ \A j \in Matches(mode) : j <= i
    /\ received' = Append(received, m_queue[i])
    /\ m_queue' = [j \in 1..(Len(m_queue) - 1) |-> IF j < i THEN m_queue[j] ELSE m_queue[j + 1]]
    /\ Return

\* MessageQueueMessageReceived.
TakeMessage(mode) ==
  \E i \in DOMAIN m_queue :
    /\ Found(mode, i)
    /\ received' = Append(received, m_queue[i])
    /\ m_queue' = [j \in 1..(Len(m_queue) - 1) |-> IF j < i THEN m_queue[j] ELSE m_queue[j + 1]]
    /\ Return

\* One turn of the loop, with the mutex held: killed, found, or wait (again).
Test(mode, deadline) ==
  \/ m_killed /\ Return /\ UNCHANGED <<m_queue, received>>
  \/ ~m_killed /\ TakeMessage(mode)
  \/ /\ ~m_killed
     /\ Matches(mode) = {}
     /\ thread' = [state |-> "blocked", mode |-> mode, deadline |-> deadline]
     /\ UNCHANGED <<m_queue, received>>

\* The call.  A nested run is started to wait for messages that will come
\* (the loader's), with no deadline; after a kill run() ends.
WaitForMessage(mode, deadline) ==
  /\ thread.state = "running"
  /\ mode = "default" \/ (~deadline /\ \E m \in Messages \ sent : ModeOf(m) = mode)
  /\ Test(mode, deadline)
  /\ UNCHANGED <<m_killed, sent>>

\* timedWait returned true: go round the loop.
Recheck ==
  /\ thread.state = "awake"
  /\ Test(thread.mode, thread.deadline)
  /\ UNCHANGED <<m_killed, sent>>

\* tryGetMessage: the receiver of a message port polls instead of waiting.
TryGetMessage ==
  /\ thread.state = "running" /\ ~m_killed /\ m_queue # <<>>
  /\ received' = Append(received, Head(m_queue))
  /\ m_queue' = Tail(m_queue)
  /\ UNCHANGED <<m_killed, sent, thread>>

SpuriousWakeup ==
  /\ thread.state = "blocked"
  /\ thread' = [thread EXCEPT !.state = "awake"]
  /\ UNCHANGED <<m_queue, m_killed, sent, received>>

\* timedWait returned false.  The mutex is taken again some time after the
\* deadline: the loop ends without a look at the queue.
Timeout ==
  /\ thread.state \in {"blocked", "awake"} /\ thread.deadline
  /\ Return
  /\ UNCHANGED <<m_queue, m_killed, sent, received>>

Next ==
  \/ \E m \in Messages : AppendMessage(m) \/ Prepend(m)
  \/ \E removed \in SUBSET Contents : removed # {} /\ RemoveIf(removed)
  \/ Kill
  \/ \E mode \in Modes \cup {"default"}, deadline \in BOOLEAN : WaitForMessage(mode, deadline)
  \/ TryGetMessage \/ Recheck \/ SpuriousWakeup \/ Timeout

Spec == Init /\ [][Next]_vars

-----------------------------------------------------------------------------
(* Properties                                                              *)

\* The thread's record and the queue are well-typed; a message is in the queue
\* once at most and only after it was sent.
TypeOK ==
  /\ m_queue \in Seq(sent) /\ received \in Seq(sent)
  /\ \A i, j \in DOMAIN m_queue : i # j => m_queue[i] # m_queue[j]
  /\ m_killed \in BOOLEAN
  /\ sent \subseteq Messages
  /\ thread \in [state : {"running", "blocked", "awake"},
                 mode : Modes \cup {"default"}, deadline : BOOLEAN]

\* No wakeup is lost: a thread that is asleep in timedWait, with no signal on
\* its way, has nothing to do.  Every operation that makes the loop's condition
\* false signals under the mutex, also when the queue was not empty: the
\* messages in it may be of another mode than the one waited for.
NoLostWakeup ==
  thread.state = "blocked" => ~m_killed /\ Matches(thread.mode) = {}

QueueInvariant == TypeOK /\ NoLostWakeup

\* With the wait loop hidden, the queue is a sequence with atomic operations.
Abstract ==
  INSTANCE TaskQueue
    WITH queue <- m_queue, killed <- m_killed, received <- received,
         Messages <- Messages, KindOf <- ModeOf
RefinesTaskQueue == Abstract!Spec
=============================================================================
