------------------- MODULE DatabaseTaskSynchronizerProofs -------------------
(***************************************************************************)
(* Proofs about MessageQueue and DatabaseTaskSynchronizer, for every set of *)
(* messages, of modes and of tasks that somebody waits for.                 *)
(***************************************************************************)
EXTENDS DatabaseTaskSynchronizer, SequenceTheorems, TLAPS

ThreadStates ==
  [state : {"running", "blocked", "awake"}, mode : Modes \cup {"default"}, deadline : BOOLEAN]

NoDuplicates(s) == \A i, j \in DOMAIN s : i # j => s[i] # s[j]

-----------------------------------------------------------------------------
(* The deque.                                                              *)

\* append and prepend of a message that is not in the queue keep it free of
\* duplicates.
LEMMA EnqueueKeepsType ==
  ASSUME NEW S, NEW s \in Seq(S), NEW m, m \notin S, NoDuplicates(s)
  PROVE  /\ Append(s, m) \in Seq(S \cup {m}) /\ NoDuplicates(Append(s, m))
         /\ <<m>> \o s \in Seq(S \cup {m}) /\ NoDuplicates(<<m>> \o s)
<1>1. s \in Seq(S \cup {m}) /\ \A i \in 1..Len(s) : s[i] # m
  OBVIOUS
<1>2. Append(s, m) \in Seq(S \cup {m}) /\ NoDuplicates(Append(s, m))
  BY <1>1 DEF NoDuplicates
<1>3. <<m>> \o s \in Seq(S \cup {m}) /\ NoDuplicates(<<m>> \o s)
  BY <1>1 DEF NoDuplicates
<1> QED BY <1>2, <1>3

\* remove(found) keeps the rest of the queue: every message of it was there.
LEMMA TakeKeepsType ==
  ASSUME NEW S, NEW s \in Seq(S), NEW i \in DOMAIN s, NoDuplicates(s)
  PROVE  LET t == [j \in 1..(Len(s) - 1) |-> IF j < i THEN s[j] ELSE s[j + 1]]
         IN  t \in Seq(S) /\ NoDuplicates(t) /\ s[i] \in S
<1> DEFINE t == [j \in 1..(Len(s) - 1) |-> IF j < i THEN s[j] ELSE s[j + 1]]
<1>1. Len(s) \in Nat /\ i \in 1..Len(s) /\ Len(s) - 1 \in Nat
  OBVIOUS
<1>2. t \in Seq(S) /\ DOMAIN t = 1..(Len(s) - 1)
  BY <1>1
<1>3. NoDuplicates(t)
  BY <1>1, <1>2 DEF NoDuplicates
<1> QED BY <1>2, <1>3

\* removeIf keeps the messages that do not match, in their order.
LEMMA RemoveKeepsType ==
  ASSUME NEW S, NEW s \in Seq(S), NEW n \in 0..Len(s), NEW at \in [1..n -> DOMAIN s],
         NoDuplicates(s), \A j, k \in 1..n : j < k => at[j] < at[k]
  PROVE  LET t == [k \in 1..n |-> s[at[k]]]
         IN  t \in Seq(S) /\ NoDuplicates(t)
<1> DEFINE t == [k \in 1..n |-> s[at[k]]]
<1>1. n \in Nat /\ \A k \in 1..n : at[k] \in 1..Len(s)
  OBVIOUS
<1>2. t \in Seq(S) /\ DOMAIN t = 1..n
  BY <1>1
<1>3. ASSUME NEW j \in 1..n, NEW k \in 1..n, j # k PROVE t[j] # t[k]
  <2>1. at[j] # at[k]
    BY <1>1, <1>3
  <2> QED BY <1>1, <2>1 DEF NoDuplicates
<1> QED BY <1>2, <1>3 DEF NoDuplicates

-----------------------------------------------------------------------------
(* The queue.                                                              *)

\* A signal leaves nobody asleep.
LEMMA WakeAwakes ==
  ASSUME thread \in ThreadStates, Wake
  PROVE  thread' \in ThreadStates /\ thread'.state # "blocked"
BY DEF Wake, ThreadStates

\* The turn of the wait loop that receives a message.
LEMMA TakeMessageKeepsType ==
  ASSUME TypeOK, NEW mode, TakeMessage(mode), UNCHANGED <<m_killed, sent>>
  PROVE  TypeOK' /\ thread'.state = "running"
<1>1. PICK i \in DOMAIN m_queue :
        /\ received' = Append(received, m_queue[i])
        /\ m_queue' = [j \in 1..(Len(m_queue) - 1) |-> IF j < i THEN m_queue[j] ELSE m_queue[j + 1]]
        /\ Return
  BY DEF TakeMessage
<1>2. m_queue \in Seq(sent) /\ NoDuplicates(m_queue)
  BY DEF TypeOK, NoDuplicates
<1>3. m_queue' \in Seq(sent) /\ NoDuplicates(m_queue') /\ m_queue[i] \in sent
  BY <1>1, <1>2, TakeKeepsType
<1>4. received' \in Seq(sent)
  BY <1>1, <1>3 DEF TypeOK
<1>5. thread' \in ThreadStates /\ thread'.state = "running"
  BY <1>1 DEF Return, ThreadStates
<1> QED BY <1>3, <1>4, <1>5 DEF TypeOK, NoDuplicates, ThreadStates

\* One turn of the wait loop: whoever goes to sleep has found nothing.
LEMMA TestKeepsInvariant ==
  ASSUME TypeOK, NEW mode \in Modes \cup {"default"}, NEW deadline \in BOOLEAN,
         Test(mode, deadline), UNCHANGED <<m_killed, sent>>
  PROVE  QueueInvariant'
<1>1. CASE m_killed /\ Return /\ UNCHANGED <<m_queue, received>>
  <2>1. thread' \in ThreadStates /\ thread'.state = "running"
    BY <1>1 DEF Return, ThreadStates
  <2> QED BY <1>1, <2>1 DEF QueueInvariant, TypeOK, NoLostWakeup, ThreadStates
<1>2. CASE ~m_killed /\ TakeMessage(mode)
  BY <1>2, TakeMessageKeepsType DEF QueueInvariant, NoLostWakeup
<1>3. CASE /\ ~m_killed
           /\ Matches(mode) = {}
           /\ thread' = [state |-> "blocked", mode |-> mode, deadline |-> deadline]
           /\ UNCHANGED <<m_queue, received>>
  <2>1. thread' \in ThreadStates /\ thread'.mode = mode
    BY <1>3 DEF ThreadStates
  <2>2. ~m_killed' /\ Matches(mode)' = {}
    BY <1>3 DEF Matches, Accepts
  <2>3. TypeOK'
    BY <1>3, <2>1 DEF TypeOK, ThreadStates
  <2> QED BY <2>1, <2>2, <2>3 DEF QueueInvariant, NoLostWakeup, Matches
<1> QED BY <1>1, <1>2, <1>3 DEF Test

\* append and prepend: the message is there and the thread is awake.
LEMMA EnqueueKeepsInvariant ==
  ASSUME QueueInvariant, NEW m \in Messages, AppendMessage(m) \/ Prepend(m)
  PROVE  QueueInvariant'
<1>1. m_queue \in Seq(sent) /\ NoDuplicates(m_queue) /\ m \notin sent
  BY DEF QueueInvariant, TypeOK, NoDuplicates, AppendMessage, Prepend, Enqueue
<1>2. m_queue' \in Seq(sent \cup {m}) /\ NoDuplicates(m_queue')
  <2>1. /\ Append(m_queue, m) \in Seq(sent \cup {m}) /\ NoDuplicates(Append(m_queue, m))
        /\ <<m>> \o m_queue \in Seq(sent \cup {m}) /\ NoDuplicates(<<m>> \o m_queue)
    BY <1>1, EnqueueKeepsType, Zenon
  <2>2. m_queue' = Append(m_queue, m) \/ m_queue' = <<m>> \o m_queue
    BY DEF AppendMessage, Prepend, Enqueue
  <2> QED BY <2>1, <2>2, Zenon
<1>3. thread' \in ThreadStates /\ thread'.state # "blocked"
  BY WakeAwakes DEF AppendMessage, Prepend, Enqueue, QueueInvariant, TypeOK, ThreadStates
<1>4. sent' = sent \cup {m} /\ UNCHANGED <<m_killed, received>>
  BY DEF AppendMessage, Prepend, Enqueue
<1>5. received' \in Seq(sent')
  BY <1>4 DEF QueueInvariant, TypeOK
<1>6. TypeOK'
  BY <1>2, <1>3, <1>4, <1>5 DEF QueueInvariant, TypeOK, NoDuplicates, ThreadStates
<1> QED BY <1>3, <1>6 DEF QueueInvariant, NoLostWakeup

\* removeIf: a thread that sleeps keeps sleeping, and finds no more than before.
LEMMA RemoveIfKeepsInvariant ==
  ASSUME QueueInvariant, NEW removed, RemoveIf(removed)
  PROVE  QueueInvariant'
<1>0. PICK n \in 0..Len(m_queue) : \E at \in [1..n -> DOMAIN m_queue] :
        /\ \A j, k \in 1..n : j < k => at[j] < at[k]
        /\ m_queue' = [k \in 1..n |-> m_queue[at[k]]]
  BY DEF RemoveIf
<1>1. PICK at \in [1..n -> DOMAIN m_queue] :
        /\ \A j, k \in 1..n : j < k => at[j] < at[k]
        /\ m_queue' = [k \in 1..n |-> m_queue[at[k]]]
  BY <1>0
<1>2. m_queue \in Seq(sent) /\ NoDuplicates(m_queue)
  BY DEF QueueInvariant, TypeOK, NoDuplicates
<1>3. m_queue' \in Seq(sent) /\ NoDuplicates(m_queue')
  BY <1>1, <1>2, RemoveKeepsType
<1>4. UNCHANGED <<m_killed, sent, thread, received>>
  BY DEF RemoveIf
<1>5. TypeOK'
  BY <1>3, <1>4 DEF QueueInvariant, TypeOK, NoDuplicates
<1>6. ASSUME thread.state = "blocked" PROVE Matches(thread.mode)' = {}
  <2>1. \A i \in DOMAIN m_queue : ~Accepts(thread.mode, m_queue[i])
    BY <1>6 DEF QueueInvariant, NoLostWakeup, Matches
  <2>2. DOMAIN m_queue' = 1..n /\ \A k \in 1..n : at[k] \in DOMAIN m_queue /\ m_queue'[k] = m_queue[at[k]]
    BY <1>1
  <2>3. \A k \in DOMAIN m_queue' : ~Accepts(thread.mode, m_queue'[k])
    BY <2>1, <2>2
  <2> QED BY <2>3, <1>4 DEF Matches, Accepts
<1> QED BY <1>4, <1>5, <1>6 DEF QueueInvariant, NoLostWakeup

\* Every other step of the queue.
LEMMA OthersKeepInvariant ==
  ASSUME QueueInvariant, Kill \/ TryGetMessage \/ SpuriousWakeup \/ Timeout \/ UNCHANGED vars
  PROVE  QueueInvariant'
<1>1. CASE Kill
  <2>1. thread' \in ThreadStates /\ thread'.state # "blocked"
    BY <1>1, WakeAwakes DEF Kill, QueueInvariant, TypeOK, ThreadStates
  <2> QED BY <1>1, <2>1 DEF Kill, QueueInvariant, TypeOK, NoLostWakeup, ThreadStates
<1>2. CASE TryGetMessage
  <2>1. m_queue \in Seq(sent) /\ m_queue # <<>>
    BY <1>2 DEF TryGetMessage, QueueInvariant, TypeOK
  <2>2. /\ Tail(m_queue) \in Seq(sent) /\ Head(m_queue) \in sent
        /\ \A i, j \in DOMAIN Tail(m_queue) : i # j => Tail(m_queue)[i] # Tail(m_queue)[j]
    BY <2>1 DEF QueueInvariant, TypeOK
  <2>3. TypeOK'
    BY <1>2, <2>2 DEF TryGetMessage, QueueInvariant, TypeOK
  <2> QED BY <1>2, <2>3 DEF TryGetMessage, QueueInvariant, NoLostWakeup
<1>3. CASE SpuriousWakeup
  <2>1. thread' \in ThreadStates /\ thread'.state = "awake"
    BY <1>3 DEF SpuriousWakeup, QueueInvariant, TypeOK, ThreadStates
  <2> QED BY <1>3, <2>1 DEF SpuriousWakeup, QueueInvariant, TypeOK, NoLostWakeup, ThreadStates
<1>4. CASE Timeout
  <2>1. thread' \in ThreadStates /\ thread'.state = "running"
    BY <1>4 DEF Timeout, Return, ThreadStates
  <2> QED BY <1>4, <2>1 DEF Timeout, QueueInvariant, TypeOK, NoLostWakeup, ThreadStates
<1>5. CASE UNCHANGED vars
  BY <1>5 DEF vars, QueueInvariant, TypeOK, NoLostWakeup, Matches, Accepts
<1> QED BY <1>1, <1>2, <1>3, <1>4, <1>5

\* Every step of the queue keeps its invariant.
LEMMA QueueInvariantStep ==
  ASSUME QueueInvariant, [Next]_vars
  PROVE  QueueInvariant'
<1>1. ASSUME NEW mode \in Modes \cup {"default"}, NEW deadline \in BOOLEAN,
             WaitForMessage(mode, deadline)
      PROVE  QueueInvariant'
  BY <1>1, TestKeepsInvariant DEF WaitForMessage, QueueInvariant
<1>2. CASE Recheck
  <2>1. thread.mode \in Modes \cup {"default"} /\ thread.deadline \in BOOLEAN
    BY DEF QueueInvariant, TypeOK
  <2> QED BY <1>2, <2>1, TestKeepsInvariant DEF Recheck, QueueInvariant
<1> QED BY <1>1, <1>2, EnqueueKeepsInvariant, RemoveIfKeepsInvariant, OthersKeepInvariant DEF Next

-----------------------------------------------------------------------------
(* The queue with the tasks that are waited for.                           *)

\* Seen from the queue, every step of the callers and of the thread is a step
\* of the queue, or none.
LEMMA SyncStepIsQueueStep ==
  ASSUME [SyncNext]_<<vars, syncVars>>
  PROVE  [Next]_vars
<1>1. ASSUME NEW m \in Messages, ScheduleTask(m) PROVE Next
  BY <1>1 DEF ScheduleTask, Next
<1>2. ASSUME NEW m \in Synchronous, CallerStep(m) PROVE UNCHANGED vars
  BY <1>2 DEF CallerStep, WaitForTaskCompletion, CallerWakesSpuriously, ReturnFromWait
<1>3. CASE DoPerformTask \/ TaskCompleted
  BY <1>3 DEF DoPerformTask, TaskCompleted
<1>4. CASE NextMessage \/ QueueStep
  BY <1>4 DEF NextMessage, QueueStep, Next
<1> QED BY <1>1, <1>2, <1>3, <1>4 DEF SyncNext

\* The queue never lets its thread sleep over a message it waits for, nor over
\* a kill, and holds every message at most once: MessageQueue.h, with senders at
\* both ends, removal, deadlines and spurious wakeups.
THEOREM QueueInvariantHolds == SyncSpec => []QueueInvariant
<1>1. SyncInit => QueueInvariant
  <2> SUFFICES ASSUME Init PROVE QueueInvariant
    BY DEF SyncInit
  <2>1. thread \in ThreadStates /\ thread.state = "running"
    BY DEF Init, ThreadStates
  <2>2. m_queue \in Seq(sent) /\ received \in Seq(sent) /\ DOMAIN m_queue = {}
    BY DEF Init
  <2> QED BY <2>1, <2>2 DEF Init, QueueInvariant, TypeOK, NoLostWakeup, ThreadStates
<1>2. QueueInvariant /\ [SyncNext]_<<vars, syncVars>> => QueueInvariant'
  BY SyncStepIsQueueStep, QueueInvariantStep
<1> QED BY <1>1, <1>2, PTL DEF SyncSpec

-----------------------------------------------------------------------------
(* The queue implements TaskQueue.                                         *)

\* The message that TakeMessage receives is one that the abstract queue may
\* give: none in front of it has its mode, or it is the first.
LEMMA TakeMessageIsTake ==
  ASSUME TypeOK, ~m_killed, NEW mode, TakeMessage(mode), UNCHANGED m_killed
  PROVE  Abstract!Next
<1>1. PICK i \in DOMAIN m_queue :
        /\ Found(mode, i)
        /\ received' = Append(received, m_queue[i])
        /\ m_queue' = [j \in 1..(Len(m_queue) - 1) |-> IF j < i THEN m_queue[j] ELSE m_queue[j + 1]]
  BY DEF TakeMessage
<1>2. DOMAIN m_queue = 1..Len(m_queue) /\ Len(m_queue) \in Nat
  BY DEF TypeOK
<1>3. i = 1 \/ \A j \in 1..(i - 1) : ModeOf(m_queue[j]) # ModeOf(m_queue[i])
  BY <1>1, <1>2 DEF Found, Matches, Accepts
<1>4. Abstract!Take(i)
  BY <1>1, <1>3 DEF Abstract!Take
<1> QED BY <1>1, <1>4 DEF Abstract!Next

\* Every step of the queue is a step of the sequence, or a stutter: falling
\* asleep, waking up and giving up change nothing.
LEMMA StepRefinesTaskQueue ==
  ASSUME QueueInvariant, [Next]_vars
  PROVE  Abstract!Next \/ UNCHANGED <<m_queue, m_killed, received>>
<1> USE DEF QueueInvariant
<1>1. ASSUME NEW m \in Messages, AppendMessage(m) \/ Prepend(m) PROVE Abstract!Next
  <2>1. Abstract!Put(m)
    BY <1>1 DEF AppendMessage, Prepend, Enqueue, Abstract!Put
  <2> QED BY <2>1 DEF Abstract!Next
<1>2. ASSUME NEW removed, RemoveIf(removed) PROVE Abstract!Next
  <2>1. Abstract!Purge
    BY <1>2 DEF RemoveIf, Abstract!Purge
  <2> QED BY <2>1 DEF Abstract!Next
<1>3. CASE Kill
  BY <1>3 DEF Kill, Abstract!Kill, Abstract!Next
<1>4. ASSUME NEW mode, NEW deadline, Test(mode, deadline), UNCHANGED <<m_killed, sent>>
      PROVE  Abstract!Next \/ UNCHANGED <<m_queue, m_killed, received>>
  BY <1>4, TakeMessageIsTake DEF Test
<1>5. CASE TryGetMessage
  <2>1. m_queue \in Seq(sent) /\ m_queue # <<>>
    BY <1>5 DEF TryGetMessage, TypeOK
  <2> DEFINE rest == [j \in 1..(Len(m_queue) - 1) |-> IF j < 1 THEN m_queue[j] ELSE m_queue[j + 1]]
  <2>2. 1 \in DOMAIN m_queue /\ Head(m_queue) = m_queue[1] /\ Tail(m_queue) = rest
    <3>1. 1 \in DOMAIN m_queue /\ Head(m_queue) = m_queue[1] /\ Len(m_queue) - 1 \in Nat
      BY <2>1
    <3>2. Tail(m_queue) \in Seq(sent) /\ Len(Tail(m_queue)) = Len(m_queue) - 1
      BY <2>1
    <3>3. \A j \in 1..(Len(m_queue) - 1) : Tail(m_queue)[j] = m_queue[j + 1]
      BY <2>1
    <3>4. rest \in Seq(sent) /\ Len(rest) = Len(m_queue) - 1
      BY <2>1, <3>1
    <3>5. \A j \in 1..(Len(m_queue) - 1) : rest[j] = m_queue[j + 1]
      BY <3>1
    <3> HIDE DEF rest
    <3>6. Tail(m_queue) = rest
      BY <3>2, <3>3, <3>4, <3>5, SeqEqual
    <3> QED BY <3>1, <3>6
  <2>3. Abstract!Take(1)
    BY <1>5, <2>2 DEF TryGetMessage, Abstract!Take
  <2> QED BY <2>2, <2>3 DEF Abstract!Next
<1>6. CASE SpuriousWakeup \/ Timeout \/ UNCHANGED vars
  BY <1>6 DEF SpuriousWakeup, Timeout, vars
<1>7. ASSUME NEW mode, NEW deadline, WaitForMessage(mode, deadline)
      PROVE  Abstract!Next \/ UNCHANGED <<m_queue, m_killed, received>>
  BY <1>7, <1>4 DEF WaitForMessage
<1>8. CASE Recheck
  BY <1>8, <1>4 DEF Recheck
<1> QED BY <1>1, <1>2, <1>3, <1>5, <1>6, <1>7, <1>8 DEF Next

\* WTF::MessageQueue, with its mutex, its condition and its wait loop, is a
\* sequence with atomic operations, as WebDatabase takes it to be.
THEOREM RefinesTaskQueueHolds == SyncSpec => RefinesTaskQueue
<1>1. SyncInit => Abstract!Init
  BY DEF SyncInit, Init, Abstract!Init
<1>2. QueueInvariant /\ [SyncNext]_<<vars, syncVars>> => [Abstract!Next]_<<m_queue, m_killed, received>>
  BY SyncStepIsQueueStep, StepRefinesTaskQueue
<1> QED BY <1>1, <1>2, QueueInvariantHolds, PTL DEF SyncSpec, RefinesTaskQueue, Abstract!Spec

-----------------------------------------------------------------------------
(* Synchronous tasks.                                                      *)

\* The flag of a synchronizer and its condition variable tell the same: only a
\* performed task has its flag set, nobody sleeps on a flag that is set, and
\* who has come out of the wait has a performed task or a spurious wakeup.
SynchronizerInv ==
  /\ caller \in [Synchronous -> {"idle", "scheduled", "blocked", "awake", "returned"}]
  /\ m_taskCompleted \in [Synchronous -> BOOLEAN]
  /\ \A m \in Synchronous :
       /\ m_taskCompleted[m] => m \in performed /\ caller[m] # "blocked"
       /\ caller[m] \in {"awake", "returned"} => m \in performed \/ m \in spurious

\* Every step of a caller or of the thread keeps it.
LEMMA SynchronizerStep ==
  ASSUME SynchronizerInv, [SyncNext]_<<vars, syncVars>>
  PROVE  SynchronizerInv'
<1> USE DEF SynchronizerInv
<1>1. ASSUME NEW m \in Messages, ScheduleTask(m) PROVE SynchronizerInv'
  BY <1>1 DEF ScheduleTask
<1>2. ASSUME NEW m \in Synchronous, CallerStep(m) PROVE SynchronizerInv'
  <2>1. CASE WaitForTaskCompletion(m)
    BY <2>1 DEF WaitForTaskCompletion
  <2>2. CASE CallerWakesSpuriously(m)
    BY <2>2 DEF CallerWakesSpuriously
  <2>3. CASE ReturnFromWait(m)
    BY <2>3 DEF ReturnFromWait
  <2> QED BY <1>2, <2>1, <2>2, <2>3 DEF CallerStep
<1>3. CASE DoPerformTask
  BY <1>3 DEF DoPerformTask
<1>4. CASE TaskCompleted
  BY <1>4 DEF TaskCompleted
<1>5. CASE UNCHANGED syncVars
  BY <1>5 DEF syncVars
<1>6. CASE NextMessage \/ QueueStep
  BY <1>5, <1>6 DEF NextMessage, QueueStep
<1> QED BY <1>1, <1>2, <1>3, <1>4, <1>5, <1>6 DEF SyncNext

\* A caller of waitForTaskCompletion comes back after its task was performed,
\* with taskCompleted before or after the wait, unless the condition variable
\* wakes it for no reason.
THEOREM ReturnsAfterPerformingHolds == SyncSpec => []ReturnsAfterPerforming
<1>1. SyncInit => SynchronizerInv
  BY DEF SyncInit, SynchronizerInv
<1>2. SynchronizerInv /\ [SyncNext]_<<vars, syncVars>> => SynchronizerInv'
  BY SynchronizerStep
<1>3. SynchronizerInv => ReturnsAfterPerforming
  BY DEF SynchronizerInv, ReturnsAfterPerforming
<1> QED BY <1>1, <1>2, <1>3, PTL DEF SyncSpec
=============================================================================
