------------------------- MODULE DedicatedWorkerProofs -------------------------
(***************************************************************************)
(* Proofs about DedicatedWorker, for every number of messages and events.   *)
(***************************************************************************)
EXTENDS DedicatedWorker, SequenceTheorems, FunctionTheorems, FiniteSetTheorems, TLAPS

-----------------------------------------------------------------------------
(* Counting the elements of a queue.                                       *)

\* A queue has finitely many positions.
LEMMA PositionsFinite ==
  ASSUME NEW S, NEW s \in Seq(S), NEW elements
  PROVE  /\ IsFiniteSet({i \in DOMAIN s : s[i] \in elements})
         /\ Cardinality({i \in DOMAIN s : s[i] \in elements}) \in Nat
<1> DEFINE positions == {i \in DOMAIN s : s[i] \in elements}
<1>0. Len(s) \in Nat /\ DOMAIN s = 1..Len(s)
  BY LenProperties
<1>1. IsFiniteSet(1..Len(s)) /\ positions \in SUBSET (1..Len(s))
  BY <1>0, FS_Interval
<1> HIDE DEF positions
<1>2. IsFiniteSet(positions)
  BY <1>1, FS_Subset
<1>3. Cardinality(positions) \in Nat
  BY <1>2, FS_CardinalityType
<1> QED BY <1>2, <1>3 DEF positions

\* A count is a natural number, and positive when the queue has an element.
LEMMA CountNat ==
  ASSUME NEW S, NEW s \in Seq(S), NEW elements
  PROVE  /\ Count(s, elements) \in Nat
         /\ \A i \in 1..Len(s) : s[i] \in elements => Count(s, elements) > 0
<1> DEFINE positions == {i \in DOMAIN s : s[i] \in elements}
<1>1. IsFiniteSet(positions) /\ Cardinality(positions) \in Nat
  BY PositionsFinite
<1>2. \A i \in 1..Len(s) : s[i] \in elements => positions # {}
  BY LenProperties
<1>3. Count(s, elements) = Cardinality(positions)
  BY DEF Count
<1> HIDE DEF positions
<1>4. positions # {} => Cardinality(positions) # 0
  BY <1>1, FS_EmptySet
<1> QED BY <1>1, <1>2, <1>3, <1>4

\* The empty queue.
LEMMA CountEmpty ==
  ASSUME NEW elements  PROVE Count(<<>>, elements) = 0
<1>1. {i \in DOMAIN <<>> : <<>>[i] \in elements} = {}
  OBVIOUS
<1> QED BY <1>1, FS_EmptySet DEF Count

\* A queue of n messages.
LEMMA CountConstant ==
  ASSUME NEW n \in Nat, NEW e
  PROVE  /\ [i \in 1..n |-> e] \in Seq({e})
         /\ Count([i \in 1..n |-> e], {e}) = n
<1> DEFINE s == [i \in 1..n |-> e]
<1>1. {i \in DOMAIN s : s[i] \in {e}} = 1..n
  OBVIOUS
<1>2. Cardinality(1..n) = n
  BY FS_Interval
<1>3. Count(s, {e}) = Cardinality({i \in DOMAIN s : s[i] \in {e}})
  BY DEF Count
<1>4. s \in Seq({e})
  OBVIOUS
<1> QED BY <1>1, <1>2, <1>3, <1>4

\* A task is posted.
LEMMA CountAppend ==
  ASSUME NEW S, NEW s \in Seq(S), NEW e \in S, NEW elements
  PROVE  Count(Append(s, e), elements) = Count(s, elements) + (IF e \in elements THEN 1 ELSE 0)
<1> DEFINE t == Append(s, e)
           old == {i \in DOMAIN s : s[i] \in elements}
           new == {i \in DOMAIN t : t[i] \in elements}
<1>1. /\ DOMAIN s = 1..Len(s) /\ DOMAIN t = 1..Len(s) + 1 /\ Len(s) \in Nat
      /\ \A i \in 1..Len(s) : t[i] = s[i]
      /\ t[Len(s) + 1] = e
  BY AppendProperties, LenProperties
<1>2. IsFiniteSet(old) /\ Cardinality(old) \in Nat
  BY PositionsFinite
<1>a. Count(s, elements) = Cardinality(old) /\ Count(t, elements) = Cardinality(new)
  BY DEF Count
<1>3. CASE e \in elements
  <2>1. new = old \cup {Len(s) + 1} /\ Len(s) + 1 \notin old
    BY <1>1, <1>3
  <2> HIDE DEF old, new
  <2> QED BY <1>2, <1>a, <1>3, <2>1, FS_AddElement
<1>4. CASE e \notin elements
  <2>1. new = old
    BY <1>1, <1>4
  <2> HIDE DEF old, new
  <2> QED BY <1>2, <1>a, <1>4, <2>1
<1> QED BY <1>3, <1>4

\* A task is taken from the queue.
LEMMA CountTail ==
  ASSUME NEW S, NEW s \in Seq(S), s # <<>>, NEW elements
  PROVE  Count(s, elements) = Count(Tail(s), elements) + (IF Head(s) \in elements THEN 1 ELSE 0)
<1> DEFINE t == Tail(s)
           old == {i \in DOMAIN s : s[i] \in elements}
           new == {i \in DOMAIN t : t[i] \in elements}
           rest == old \ {1}
           shift == [i \in new |-> i + 1]
<1>1. /\ DOMAIN s = 1..Len(s) /\ Len(s) \in Nat \ {0} /\ DOMAIN t = 1..Len(s) - 1
      /\ \A i \in 1..Len(s) - 1 : t[i] = s[i + 1]
      /\ s[1] = Head(s)
  BY HeadTailProperties, LenProperties, EmptySeq
<1>2. /\ IsFiniteSet(old) /\ Cardinality(old) \in Nat
      /\ IsFiniteSet(new) /\ Cardinality(new) \in Nat
  <2>1. t \in Seq(S)
    BY HeadTailProperties
  <2> QED BY <2>1, PositionsFinite
<1>a. Count(s, elements) = Cardinality(old) /\ Count(t, elements) = Cardinality(new)
  BY DEF Count
<1>3. shift \in Bijection(new, rest)
  <2>1. shift \in [new -> rest]
    BY <1>1
  <2>2. \A i, j \in new : shift[i] = shift[j] => i = j
    BY <1>1
  <2>3. \A j \in rest : j - 1 \in new /\ shift[j - 1] = j
    BY <1>1
  <2> HIDE DEF shift, new, rest
  <2>4. \A j \in rest : \E i \in new : shift[i] = j
    BY <2>3
  <2>5. shift \in Injection(new, rest) /\ shift \in Surjection(new, rest)
    BY <2>1, <2>2, <2>4, Fun_IsInj, Fun_IsSurj
  <2> QED BY <2>5 DEF Bijection
<1>4. Cardinality(rest) = Cardinality(new)
  BY <1>2, <1>3, FS_Bijection, ZenonT(60) DEF ExistsBijection
<1>5. 1 \in old <=> Head(s) \in elements
  BY <1>1
<1> HIDE DEF old, new
<1>6. Cardinality(rest) = IF 1 \in old THEN Cardinality(old) - 1 ELSE Cardinality(old)
  BY <1>2, FS_RemoveElement
<1> HIDE DEF rest
<1> QED BY <1>2, <1>a, <1>4, <1>5, <1>6

-----------------------------------------------------------------------------
(* What the tasks of the context thread tell the proxy.                    *)

IsReport(task) == task.kind \in {"confirm", "report"}
Speaks(task) == task.kind \in {"message", "exception"}
NoReport(queue) == \A i \in 1..Len(queue) : ~IsReport(queue[i])

\* What hadPendingActivity, now `pending`, is after the first n tasks.
Known(queue, pending, n) ==
  \/ \E j \in 1..n : /\ IsReport(queue[j]) /\ queue[j].active
                     /\ \A k \in j+1..n : ~IsReport(queue[k])
  \/ pending /\ \A k \in 1..n : ~IsReport(queue[k])

\* The report of the first script comes before every confirmation.
ReportFirst(queue, pending) ==
  \A i \in 1..Len(queue) :
    queue[i].kind = "report" => pending /\ \A j \in 1..i-1 : ~IsReport(queue[j])

\* The Worker object is kept until task i: by a confirmation that comes later,
\* or by the activity that is known when its turn comes.
Covered(queue, pending, i) ==
  \/ \E j \in i+1..Len(queue) : queue[j].kind = "confirm"
  \/ Known(queue, pending, i - 1)

\* A task is posted.
LEMMA QueueAppend ==
  ASSUME NEW queue \in Seq(ContextTask), NEW task \in ContextTask, NEW pending \in BOOLEAN
  PROVE  LET longer == Append(queue, task)
         IN  /\ longer \in Seq(ContextTask) /\ Len(longer) = Len(queue) + 1
             /\ \A i \in 1..Len(queue) : longer[i] = queue[i]
             /\ longer[Len(queue) + 1] = task
             /\ Known(longer, pending, Len(longer))
                  <=> IF IsReport(task) THEN task.active ELSE Known(queue, pending, Len(queue))
             /\ NoReport(queue) /\ ~IsReport(task) => NoReport(longer)
             /\ ReportFirst(queue, pending) /\ (task.kind = "report" => pending /\ NoReport(queue))
                  => ReportFirst(longer, pending)
             /\ \A i \in 1..Len(queue) :
                  Covered(queue, pending, i) \/ task.kind = "confirm" => Covered(longer, pending, i)
             /\ Known(queue, pending, Len(queue)) => Covered(longer, pending, Len(longer))
<1> DEFINE longer == Append(queue, task)
<1>1. /\ longer \in Seq(ContextTask) /\ Len(longer) = Len(queue) + 1 /\ Len(queue) \in Nat
      /\ \A i \in 1..Len(queue) : longer[i] = queue[i]
      /\ longer[Len(queue) + 1] = task
  BY AppendProperties, LenProperties
<1> HIDE DEF longer
<1>2. \A n \in 0..Len(queue) : Known(longer, pending, n) <=> Known(queue, pending, n)
  BY <1>1 DEF Known
<1>3. Known(longer, pending, Len(longer))
        <=> IF IsReport(task) THEN task.active ELSE Known(queue, pending, Len(queue))
  <2>1. CASE IsReport(task)
    BY <1>1, <2>1 DEF Known
  <2>2. CASE ~IsReport(task)
    BY <1>1, <2>2 DEF Known
  <2> QED BY <2>1, <2>2
<1>4. NoReport(queue) /\ ~IsReport(task) => NoReport(longer)
  BY <1>1 DEF NoReport
<1>5. ReportFirst(queue, pending) /\ (task.kind = "report" => pending /\ NoReport(queue))
        => ReportFirst(longer, pending)
  BY <1>1 DEF ReportFirst, NoReport
<1>6. ASSUME NEW i \in 1..Len(queue), Covered(queue, pending, i) \/ task.kind = "confirm"
      PROVE  Covered(longer, pending, i)
  <2>1. i - 1 \in 0..Len(queue)
    BY <1>1
  <2>2. Known(longer, pending, i - 1) <=> Known(queue, pending, i - 1)
    BY <1>2, <2>1
  <2> QED BY <1>1, <1>6, <2>2 DEF Covered
<1>7. Known(queue, pending, Len(queue)) => Covered(longer, pending, Len(longer))
  BY <1>1, <1>2 DEF Covered
<1> QED BY <1>1, <1>3, <1>4, <1>5, <1>6, <1>7 DEF longer

\* A task is performed.
LEMMA QueueTail ==
  ASSUME NEW queue \in Seq(ContextTask), queue # <<>>, NEW pending \in BOOLEAN
  PROVE  LET shorter == Tail(queue)
             after == IF IsReport(Head(queue)) THEN Head(queue).active ELSE pending
         IN  /\ shorter \in Seq(ContextTask) /\ Len(shorter) = Len(queue) - 1 /\ Len(queue) \in Nat \ {0}
             /\ shorter = <<>> <=> Len(queue) = 1
             /\ \A i \in 1..Len(shorter) : shorter[i] = queue[i + 1] /\ i + 1 \in 1..Len(queue)
             /\ Head(queue) = queue[1] /\ Head(queue) \in ContextTask
             /\ Known(queue, pending, Len(queue)) => Known(shorter, after, Len(shorter))
             /\ NoReport(queue) => NoReport(shorter) /\ ~IsReport(Head(queue))
             /\ ReportFirst(queue, pending) => ReportFirst(shorter, after)
             /\ \A i \in 1..Len(shorter) :
                  Covered(queue, pending, i + 1) => Covered(shorter, after, i)
<1> DEFINE shorter == Tail(queue)
           after == IF IsReport(Head(queue)) THEN Head(queue).active ELSE pending
<1>1. /\ shorter \in Seq(ContextTask) /\ Len(shorter) = Len(queue) - 1 /\ Len(queue) \in Nat \ {0}
      /\ \A i \in 1..Len(shorter) : shorter[i] = queue[i + 1]
      /\ Head(queue) = queue[1] /\ Head(queue) \in ContextTask
  BY HeadTailProperties, LenProperties, EmptySeq
<1> HIDE DEF shorter
<1>a. shorter = <<>> <=> Len(queue) = 1
  BY <1>1, EmptySeq
<1>2. ASSUME NEW n \in 0..Len(shorter), Known(queue, pending, n + 1)
      PROVE  Known(shorter, after, n)
  <2>1. CASE \E j \in 1..n + 1 : /\ IsReport(queue[j]) /\ queue[j].active
                                 /\ \A k \in j+1..n + 1 : ~IsReport(queue[k])
    <3>1. PICK j \in 1..n + 1 : /\ IsReport(queue[j]) /\ queue[j].active
                                /\ \A k \in j+1..n + 1 : ~IsReport(queue[k])
      BY <2>1
    <3>2. CASE j = 1
      <4>1. \A k \in 1..n : ~IsReport(shorter[k])
        BY <1>1, <3>1, <3>2
      <4>2. after
        BY <1>1, <3>1, <3>2
      <4> QED BY <4>1, <4>2 DEF Known
    <3>3. CASE j # 1
      <4>1. j - 1 \in 1..n /\ shorter[j - 1] = queue[j]
        BY <1>1, <3>3
      <4>2. ASSUME NEW k \in (j - 1) + 1..n  PROVE ~IsReport(shorter[k])
        <5>1. k + 1 \in j+1..n + 1 /\ k \in 1..Len(shorter)
          BY <1>1, <3>3
        <5> QED BY <1>1, <3>1, <5>1
      <4> QED BY <3>1, <4>1, <4>2 DEF Known
    <3> QED BY <3>2, <3>3
  <2>2. CASE pending /\ \A k \in 1..n + 1 : ~IsReport(queue[k])
    BY <1>1, <2>2 DEF Known
  <2> QED BY <1>2, <2>1, <2>2 DEF Known
<1>3. Known(queue, pending, Len(queue)) => Known(shorter, after, Len(shorter))
  BY <1>1, <1>2
<1>4. NoReport(queue) => NoReport(shorter) /\ ~IsReport(Head(queue))
  BY <1>1 DEF NoReport
<1>5. ASSUME ReportFirst(queue, pending)  PROVE ReportFirst(shorter, after)
  <2> SUFFICES ASSUME NEW i \in 1..Len(shorter), shorter[i].kind = "report"
               PROVE  after /\ \A j \in 1..i-1 : ~IsReport(shorter[j])
    BY DEF ReportFirst
  <2>1. i + 1 \in 1..Len(queue) /\ queue[i + 1].kind = "report"
    BY <1>1
  <2>2. pending /\ \A j \in 1..(i + 1)-1 : ~IsReport(queue[j])
    BY <1>5, <2>1 DEF ReportFirst
  <2>3. after
    BY <1>1, <2>2
  <2>4. \A j \in 1..i-1 : ~IsReport(shorter[j])
    BY <1>1, <2>2
  <2> QED BY <2>3, <2>4
<1>6. ASSUME NEW i \in 1..Len(shorter), Covered(queue, pending, i + 1)
      PROVE  Covered(shorter, after, i)
  <2>1. CASE \E j \in (i + 1)+1..Len(queue) : queue[j].kind = "confirm"
    <3>1. PICK j \in (i + 1)+1..Len(queue) : queue[j].kind = "confirm"
      BY <2>1
    <3>2. j - 1 \in i+1..Len(shorter) /\ shorter[j - 1].kind = "confirm"
      BY <1>1, <3>1
    <3> QED BY <3>2 DEF Covered
  <2>2. CASE Known(queue, pending, (i + 1) - 1)
    <3>1. i - 1 \in 0..Len(shorter) /\ (i - 1) + 1 = (i + 1) - 1
      BY <1>1
    <3>2. Known(shorter, after, i - 1)
      BY <1>2, <2>2, <3>1
    <3> QED BY <3>2 DEF Covered
  <2> QED BY <1>6, <2>1, <2>2 DEF Covered
<1> QED BY <1>1, <1>a, <1>3, <1>4, <1>5, <1>6 DEF shorter

\* The same for the confirmations among the tasks.
LEMMA ConfirmationsCounted ==
  ASSUME NEW queue \in Seq(ContextTask)
  PROVE  /\ Count(queue, Confirmations) \in Nat
         /\ \A i \in 1..Len(queue) : queue[i].kind = "confirm" => Count(queue, Confirmations) > 0
         /\ \A task \in ContextTask :
              Count(Append(queue, task), Confirmations)
                = Count(queue, Confirmations) + (IF task.kind = "confirm" THEN 1 ELSE 0)
         /\ queue # <<>> =>
              Count(queue, Confirmations)
                = Count(Tail(queue), Confirmations) + (IF Head(queue).kind = "confirm" THEN 1 ELSE 0)
<1>1. \A task \in ContextTask : task \in Confirmations <=> task.kind = "confirm"
  BY DEF ContextTask, Confirmations, Report
<1>2. \A i \in 1..Len(queue) : queue[i] \in ContextTask
  BY ElementOfSeq
<1>3. queue # <<>> => Head(queue) \in ContextTask
  BY HeadTailProperties
<1>4. /\ Count(queue, Confirmations) \in Nat
      /\ \A i \in 1..Len(queue) : queue[i] \in Confirmations => Count(queue, Confirmations) > 0
  BY CountNat
<1>5. \A task \in ContextTask :
        Count(Append(queue, task), Confirmations)
          = Count(queue, Confirmations) + (IF task \in Confirmations THEN 1 ELSE 0)
  BY CountAppend
<1>6. queue # <<>> =>
        Count(queue, Confirmations)
          = Count(Tail(queue), Confirmations) + (IF Head(queue) \in Confirmations THEN 1 ELSE 0)
  BY CountTail
<1> QED BY <1>1, <1>2, <1>3, <1>4, <1>5, <1>6

\* And for the tasks of the run loop.
LEMMA LoopQueue ==
  ASSUME NEW queue \in Seq(LoopTask)
  PROVE  /\ Count(queue, {"message"}) \in Nat
         /\ \A i \in 1..Len(queue) : queue[i] = "message" => Count(queue, {"message"}) > 0
         /\ \A task \in LoopTask :
              /\ Append(queue, task) \in Seq(LoopTask)
              /\ Len(Append(queue, task)) = Len(queue) + 1
              /\ \A i \in 1..Len(queue) + 1 :
                   Append(queue, task)[i] = IF i = Len(queue) + 1 THEN task ELSE queue[i]
              /\ Count(Append(queue, task), {"message"})
                   = Count(queue, {"message"}) + (IF task = "message" THEN 1 ELSE 0)
         /\ queue # <<>> =>
              /\ Tail(queue) \in Seq(LoopTask) /\ Len(Tail(queue)) = Len(queue) - 1
              /\ Head(queue) = queue[1] /\ Len(queue) > 0
              /\ \A i \in 1..Len(Tail(queue)) : Tail(queue)[i] = queue[i + 1]
              /\ Count(queue, {"message"})
                   = Count(Tail(queue), {"message"}) + (IF Head(queue) = "message" THEN 1 ELSE 0)
<1>0. Len(queue) \in Nat
  BY LenProperties
<1>1. /\ Count(queue, {"message"}) \in Nat
      /\ \A i \in 1..Len(queue) : queue[i] \in {"message"} => Count(queue, {"message"}) > 0
  BY CountNat
<1>2. ASSUME NEW task \in LoopTask
      PROVE  /\ Append(queue, task) \in Seq(LoopTask)
             /\ Len(Append(queue, task)) = Len(queue) + 1
             /\ \A i \in 1..Len(queue) + 1 :
                  Append(queue, task)[i] = IF i = Len(queue) + 1 THEN task ELSE queue[i]
  BY <1>0, AppendProperties
<1>3. \A task \in LoopTask :
        Count(Append(queue, task), {"message"})
          = Count(queue, {"message"}) + (IF task \in {"message"} THEN 1 ELSE 0)
  BY CountAppend
<1>4. ASSUME queue # <<>>
      PROVE  /\ Tail(queue) \in Seq(LoopTask) /\ Len(Tail(queue)) = Len(queue) - 1
             /\ Head(queue) = queue[1] /\ Len(queue) > 0
             /\ \A i \in 1..Len(Tail(queue)) : Tail(queue)[i] = queue[i + 1]
  BY <1>4, HeadTailProperties, EmptySeq
<1>5. queue # <<>> =>
        Count(queue, {"message"})
          = Count(Tail(queue), {"message"}) + (IF Head(queue) \in {"message"} THEN 1 ELSE 0)
  BY CountTail
<1> QED BY <1>1, <1>2, <1>3, <1>4, <1>5

-----------------------------------------------------------------------------
(* The inductive invariant.                                                *)

\* The proxy has its thread from the start of the worker until it performs the
\* last task of the worker.
ThreadAndProxy ==
  /\ object = "loading" => thread.at = "none"
  /\ thread.script = "none" <=> thread.at # "script"
  /\ thread.at = "none" => ~proxy.hasThread /\ contextTasks = <<>> /\ loop = <<>>
  /\ thread.at \in {"starting", "script", "loop"} => proxy.hasThread
  /\ thread.at = "ended" =>
       \/ ~proxy.hasThread /\ contextTasks = <<>>
       \/ /\ proxy.hasThread /\ contextTasks # <<>>
          /\ contextTasks[Len(contextTasks)].kind = "destroyed"
  /\ proxy.deleted => object = "gone" /\ ~proxy.hasThread

\* The task that may delete the proxy is the last one.
DestroyedLast ==
  \A i \in 1..Len(contextTasks) :
    contextTasks[i].kind = "destroyed" => i = Len(contextTasks) /\ thread.at = "ended"

\* The run loop ends only when the worker was asked to terminate.
KilledOnlyWhenAsked ==
  ~proxy.askedToTerminate =>
    /\ ~killed /\ thread.at # "ended"
    /\ \A i \in 1..Len(loop) : loop[i] \notin {"shutdownStart", "shutdownFinish"}

\* While the worker is not idle, the proxy knows of its activity or is told by
\* a task that comes before the last message or exception.
ActivityReported ==
  ~proxy.askedToTerminate /\ ~imported =>
    /\ thread.at = "starting" \/ thread.script = "evaluate" =>
         proxy.hadPendingActivity /\ NoReport(contextTasks)
    /\ ReportFirst(contextTasks, proxy.hadPendingActivity)
    /\ (thread.at = "loop" /\ thread.active) \/ thread.script = "timer" =>
         Known(contextTasks, proxy.hadPendingActivity, Len(contextTasks))
    /\ \A i \in 1..Len(contextTasks) : Speaks(contextTasks[i]) =>
         thread.script = "message" \/ Covered(contextTasks, proxy.hadPendingActivity, i)

IInv ==
  /\ TypeOK /\ ThreadAndProxy /\ DestroyedLast /\ UnconfirmedCounted /\ KilledOnlyWhenAsked
  /\ ActivityReported

-----------------------------------------------------------------------------
(* One lemma for each action.                                              *)

\* The script of the worker could not be loaded.
LEMMA NotStarted ==
  ASSUME IInv, NotifyFinished, UNCHANGED <<proxy, thread, loop, killed>>
  PROVE  IInv'
<1> USE DEF IInv, NotifyFinished
<1>1. TypeOK'
  <2>1. ProxyOK'
    BY DEF TypeOK, ProxyOK
  <2>2. ThreadOK'
    BY DEF TypeOK, ThreadOK
  <2>3. QueuesOK'
    BY DEF TypeOK, QueuesOK
  <2>4. (messages \in Nat /\ events \in Nat)'
    BY DEF TypeOK
  <2> QED BY <2>1, <2>2, <2>3, <2>4 DEF TypeOK
<1>2. ThreadAndProxy'
  BY DEF TypeOK, ProxyOK, ThreadOK, ThreadAndProxy
<1>3. DestroyedLast'
  BY DEF TypeOK, ThreadOK, DestroyedLast
<1>4. UnconfirmedCounted'
  BY DEF TypeOK, ProxyOK, ThreadOK, UnconfirmedCounted, OnTheWay
<1>5. KilledOnlyWhenAsked'
  BY DEF TypeOK, ProxyOK, ThreadOK, KilledOnlyWhenAsked
<1>6. ActivityReported'
  BY DEF TypeOK, ProxyOK, ThreadOK, ActivityReported
<1> QED BY <1>1, <1>2, <1>3, <1>4, <1>5, <1>6

\* The worker is started, with the messages that came before.
LEMMA StartWorkerContextStep ==
  ASSUME IInv, NotifyFinished, StartWorkerContext
  PROVE  IInv'
<1> USE DEF IInv, NotifyFinished, StartWorkerContext
<1> DEFINE early == [i \in 1..proxy.earlyTasks |-> "message"]
<1>a. /\ thread.at = "none" /\ thread.script = "none" /\ ~proxy.hasThread /\ ~proxy.deleted
      /\ contextTasks = <<>> /\ Len(contextTasks) = 0 /\ loop = <<>>
  BY DEF ThreadAndProxy
<1>b. /\ early \in Seq(LoopTask) /\ \A i \in 1..Len(early) : early[i] = "message"
      /\ Count(early, {"message"}) = proxy.earlyTasks
  <2>1. proxy.earlyTasks \in Nat
    BY DEF TypeOK, ProxyOK
  <2>2. early \in Seq({"message"}) /\ Count(early, {"message"}) = proxy.earlyTasks
    BY <2>1, CountConstant
  <2> HIDE DEF early
  <2>3. \A i \in 1..Len(early) : early[i] \in {"message"}
    BY <2>2, ElementOfSeq
  <2>4. early \in Seq(LoopTask)
    BY <2>2, SeqMonotonic DEF LoopTask
  <2> QED BY <2>2, <2>3, <2>4
<1>c. loop' = IF proxy.askedToTerminate THEN loop ELSE early
  OBVIOUS
<1> HIDE DEF early
<1>d. /\ proxy'.deleted = FALSE /\ proxy'.hasThread = TRUE
      /\ proxy'.askedToTerminate = proxy.askedToTerminate
      /\ ~proxy.askedToTerminate => /\ proxy'.unconfirmed = proxy.earlyTasks
                                    /\ proxy'.hadPendingActivity = TRUE
                                    /\ UNCHANGED killed
      /\ thread'.at = "starting" /\ thread'.script = "none"
  BY <1>a DEF TypeOK, ProxyOK, ThreadOK
<1>1. TypeOK'
  <2>1. ProxyOK'
    <3>1. CASE proxy.askedToTerminate
      BY <3>1 DEF TypeOK, ProxyOK
    <3>2. CASE ~proxy.askedToTerminate
      <4>1. proxy' = [proxy EXCEPT !.hasThread = TRUE, !.unconfirmed = proxy.earlyTasks,
                                   !.hadPendingActivity = TRUE, !.earlyTasks = 0]
        BY <3>2
      <4>2. object' = "alive"
        OBVIOUS
      <4> HIDE DEF NotifyFinished, StartWorkerContext
      <4> QED BY <4>1, <4>2 DEF TypeOK, ProxyOK
    <3> QED BY <3>1, <3>2
  <2>2. ThreadOK'
    BY DEF TypeOK, ThreadOK
  <2>3. QueuesOK'
    BY <1>b, <1>c DEF TypeOK, QueuesOK
  <2>4. (messages \in Nat /\ events \in Nat)'
    BY DEF TypeOK
  <2> QED BY <2>1, <2>2, <2>3, <2>4 DEF TypeOK
<1>2. ThreadAndProxy'
  BY <1>a, <1>d DEF TypeOK, ProxyOK, ThreadOK, ThreadAndProxy
<1>3. DestroyedLast'
  BY <1>a DEF TypeOK, ThreadOK, DestroyedLast
<1>4. UnconfirmedCounted'
  <2>1. Count(contextTasks, Confirmations) = 0
    BY <1>a, CountEmpty
  <2>2. ASSUME ~proxy.askedToTerminate  PROVE OnTheWay' = proxy.earlyTasks
    <3>1. Count(loop', {"message"}) = proxy.earlyTasks
      BY <1>b, <1>c, <2>2
    <3> QED BY <2>1, <3>1, <1>d DEF OnTheWay, TypeOK, ProxyOK
  <2>3. proxy.earlyTasks \in Nat
    BY DEF TypeOK, ProxyOK
  <2> QED BY <2>2, <2>3, <1>d DEF UnconfirmedCounted
<1>5. KilledOnlyWhenAsked'
  BY <1>a, <1>b, <1>c, <1>d DEF TypeOK, ProxyOK, ThreadOK, KilledOnlyWhenAsked
<1>6. ActivityReported'
  BY <1>a, <1>d DEF ActivityReported, NoReport, ReportFirst
<1> QED BY <1>1, <1>2, <1>3, <1>4, <1>5, <1>6

\* A message of the page is counted.
LEMMA PostMessageStep ==
  ASSUME IInv, PostMessage
  PROVE  IInv'
<1> USE DEF IInv, PostMessage
<1>a. loop \in Seq(LoopTask) /\ contextTasks \in Seq(ContextTask) /\ "message" \in LoopTask
  BY DEF TypeOK, QueuesOK, LoopTask
<1>b. proxy.hasThread => loop' = Append(loop, "message") /\ proxy'.unconfirmed = proxy.unconfirmed + 1
  BY DEF TypeOK, ProxyOK
<1>c. /\ proxy'.hasThread = proxy.hasThread /\ proxy'.askedToTerminate = proxy.askedToTerminate
      /\ proxy'.hadPendingActivity = proxy.hadPendingActivity /\ proxy'.deleted = proxy.deleted
      /\ ~proxy.hasThread => loop' = loop
  BY DEF TypeOK, ProxyOK
<1>1. TypeOK'
  <2>1. ProxyOK'
    BY DEF TypeOK, ProxyOK
  <2>2. ThreadOK'
    BY DEF TypeOK, ThreadOK
  <2>3. QueuesOK'
    BY <1>a, <1>b, <1>c, LoopQueue DEF TypeOK, QueuesOK
  <2>4. (messages \in Nat /\ events \in Nat)'
    BY DEF TypeOK
  <2> QED BY <2>1, <2>2, <2>3, <2>4 DEF TypeOK
<1>2. ThreadAndProxy'
  BY <1>c DEF TypeOK, ProxyOK, ThreadOK, ThreadAndProxy
<1>3. DestroyedLast'
  BY DEF TypeOK, ThreadOK, DestroyedLast
<1>4. UnconfirmedCounted'
  <2>1. proxy.hasThread => OnTheWay' = OnTheWay + 1 /\ OnTheWay \in Nat
    <3>1. Count(loop, {"message"}) \in Nat /\ Count(contextTasks, Confirmations) \in Nat
      BY <1>a, LoopQueue, ConfirmationsCounted
    <3>2. proxy.hasThread => Count(loop', {"message"}) = Count(loop, {"message"}) + 1
      BY <1>a, <1>b, LoopQueue
    <3> QED BY <3>1, <3>2 DEF OnTheWay
  <2>2. proxy.unconfirmed \in Nat
    BY DEF TypeOK, ProxyOK
  <2> QED BY <2>1, <2>2, <1>b, <1>c DEF UnconfirmedCounted
<1>5. KilledOnlyWhenAsked'
  BY <1>a, <1>b, <1>c, LoopQueue, SMTT(30) DEF TypeOK, ProxyOK, ThreadOK, KilledOnlyWhenAsked
<1>6. ActivityReported'
  BY <1>c DEF TypeOK, ProxyOK, ThreadOK, ActivityReported
<1> QED BY <1>1, <1>2, <1>3, <1>4, <1>5, <1>6

\* After terminateWorkerContext the worker has been asked to terminate.
LEMMA TerminateWorkerContextFacts ==
  ASSUME TypeOK, TerminateWorkerContext
  PROVE  /\ proxy' \in [deleted : BOOLEAN, hasThread : BOOLEAN, askedToTerminate : BOOLEAN,
                        unconfirmed : Nat, hadPendingActivity : BOOLEAN, earlyTasks : Nat]
         /\ proxy'.askedToTerminate = TRUE
         /\ proxy'.hasThread = proxy.hasThread /\ proxy'.deleted = proxy.deleted
         /\ thread' \in [at : {"none", "starting", "script", "loop", "ended"},
                         script : {"none", "evaluate", "message", "timer"},
                         context : BOOLEAN, terminating : BOOLEAN, forbidden : BOOLEAN,
                         closing : BOOLEAN, active : BOOLEAN]
         /\ thread'.at = thread.at /\ thread'.script = thread.script
         /\ killed' \in BOOLEAN /\ loop' \in Seq(LoopTask)
         /\ ~proxy.hasThread => loop' = loop
<1> USE DEF TypeOK, ProxyOK, ThreadOK, QueuesOK, TerminateWorkerContext
<1>1. /\ proxy' \in [deleted : BOOLEAN, hasThread : BOOLEAN, askedToTerminate : BOOLEAN,
                     unconfirmed : Nat, hadPendingActivity : BOOLEAN, earlyTasks : Nat]
      /\ proxy'.askedToTerminate = TRUE
      /\ proxy'.hasThread = proxy.hasThread /\ proxy'.deleted = proxy.deleted
  OBVIOUS
<1>2. thread' \in {thread, [thread EXCEPT !.terminating = TRUE]}
  BY DEF Stop
<1>3. killed' \in {killed, TRUE} /\ loop' \in {loop, Append(loop, "shutdownStart")}
  BY DEF Stop
<1>4. Append(loop, "shutdownStart") \in Seq(LoopTask)
  BY LoopQueue DEF LoopTask
<1>5. ~proxy.hasThread => loop' = loop
  OBVIOUS
<1> HIDE DEF TerminateWorkerContext
<1>6. /\ thread' \in [at : {"none", "starting", "script", "loop", "ended"},
                      script : {"none", "evaluate", "message", "timer"},
                      context : BOOLEAN, terminating : BOOLEAN, forbidden : BOOLEAN,
                      closing : BOOLEAN, active : BOOLEAN]
      /\ thread'.at = thread.at /\ thread'.script = thread.script
  BY <1>2
<1> QED BY <1>1, <1>3, <1>4, <1>5, <1>6

\* terminate() of the page.
LEMMA TerminateStep ==
  ASSUME IInv, Terminate
  PROVE  IInv'
<1> USE TerminateWorkerContextFacts DEF IInv, Terminate
<1>1. TypeOK'
  <2>1. ProxyOK'
    BY DEF TypeOK, ProxyOK
  <2>2. ThreadOK'
    BY DEF TypeOK, ThreadOK
  <2>3. QueuesOK'
    BY DEF TypeOK, QueuesOK
  <2>4. (messages \in Nat /\ events \in Nat)'
    BY DEF TypeOK
  <2> QED BY <2>1, <2>2, <2>3, <2>4 DEF TypeOK
<1>2. ThreadAndProxy'
  BY DEF TypeOK, ProxyOK, ThreadOK, ThreadAndProxy
<1>3. DestroyedLast'
  BY DEF TypeOK, ThreadOK, DestroyedLast
<1>4. UnconfirmedCounted'
  BY DEF TypeOK, ProxyOK, ThreadOK, UnconfirmedCounted, OnTheWay
<1>5. KilledOnlyWhenAsked'
  BY DEF TypeOK, ProxyOK, ThreadOK, KilledOnlyWhenAsked
<1>6. ActivityReported'
  BY DEF TypeOK, ProxyOK, ThreadOK, ActivityReported
<1> QED BY <1>1, <1>2, <1>3, <1>4, <1>5, <1>6

\* The Worker object is collected while its worker is there.
LEMMA CollectedWithThread ==
  ASSUME IInv, WorkerObjectDestroyed, proxy.hasThread
  PROVE  IInv'
<1> USE TerminateWorkerContextFacts DEF IInv, WorkerObjectDestroyed
<1>1. TypeOK'
  <2>1. ProxyOK'
    BY DEF TypeOK, ProxyOK
  <2>2. ThreadOK'
    BY DEF TypeOK, ThreadOK
  <2>3. QueuesOK'
    BY DEF TypeOK, QueuesOK
  <2>4. (messages \in Nat /\ events \in Nat)'
    BY DEF TypeOK
  <2> QED BY <2>1, <2>2, <2>3, <2>4 DEF TypeOK
<1>2. ThreadAndProxy'
  BY DEF TypeOK, ProxyOK, ThreadOK, ThreadAndProxy
<1>3. DestroyedLast'
  BY DEF TypeOK, ThreadOK, DestroyedLast
<1>4. UnconfirmedCounted'
  BY DEF TypeOK, ProxyOK, ThreadOK, UnconfirmedCounted, OnTheWay
<1>5. KilledOnlyWhenAsked'
  BY DEF TypeOK, ProxyOK, ThreadOK, KilledOnlyWhenAsked
<1>6. ActivityReported'
  BY DEF TypeOK, ProxyOK, ThreadOK, ActivityReported
<1> QED BY <1>1, <1>2, <1>3, <1>4, <1>5, <1>6

\* The Worker object is collected and takes the proxy with it.
LEMMA CollectedWithoutThread ==
  ASSUME IInv, WorkerObjectDestroyed, ~proxy.hasThread
  PROVE  IInv'
<1> USE DEF IInv, WorkerObjectDestroyed, WorkerContextDestroyedInternal
<1>1. TypeOK'
  <2>1. ProxyOK'
    BY DEF TypeOK, ProxyOK
  <2>2. ThreadOK'
    BY DEF TypeOK, ThreadOK
  <2>3. QueuesOK'
    BY DEF TypeOK, QueuesOK
  <2>4. (messages \in Nat /\ events \in Nat)'
    BY DEF TypeOK
  <2> QED BY <2>1, <2>2, <2>3, <2>4 DEF TypeOK
<1>2. ThreadAndProxy'
  BY DEF TypeOK, ProxyOK, ThreadOK, ThreadAndProxy
<1>3. DestroyedLast'
  BY DEF TypeOK, ThreadOK, DestroyedLast
<1>4. UnconfirmedCounted'
  BY DEF TypeOK, ProxyOK, ThreadOK, UnconfirmedCounted, OnTheWay
<1>5. KilledOnlyWhenAsked'
  BY DEF TypeOK, ProxyOK, ThreadOK, KilledOnlyWhenAsked
<1>6. ActivityReported'
  BY DEF TypeOK, ProxyOK, ThreadOK, ActivityReported
<1> QED BY <1>1, <1>2, <1>3, <1>4, <1>5, <1>6

\* The context thread takes a task of the worker from its queue.
LEMMA TaskTaken ==
  ASSUME IInv, contextTasks # <<>>, contextTasks' = Tail(contextTasks)
  PROVE  /\ contextTasks \in Seq(ContextTask) /\ proxy.hadPendingActivity \in BOOLEAN
         /\ contextTasks' \in Seq(ContextTask) /\ Len(contextTasks') = Len(contextTasks) - 1
         /\ Len(contextTasks) \in Nat \ {0}
         /\ \A i \in 1..Len(contextTasks') :
              contextTasks'[i] = contextTasks[i + 1] /\ i + 1 \in 1..Len(contextTasks)
         /\ Head(contextTasks) = contextTasks[1] /\ Head(contextTasks) \in ContextTask
         /\ thread.at # "none" /\ proxy.hasThread
         /\ Head(contextTasks).kind = "destroyed" => thread.at = "ended" /\ contextTasks' = <<>>
         /\ Head(contextTasks).kind # "destroyed" /\ thread.at = "ended" =>
              contextTasks' # <<>> /\ contextTasks'[Len(contextTasks')].kind = "destroyed"
         /\ \A i \in 1..Len(contextTasks') :
              contextTasks'[i].kind = "destroyed" => i = Len(contextTasks') /\ thread.at = "ended"
<1> USE DEF IInv
<1>1. contextTasks \in Seq(ContextTask) /\ proxy.hadPendingActivity \in BOOLEAN
  BY DEF TypeOK, QueuesOK, ProxyOK
<1>2. /\ contextTasks' \in Seq(ContextTask) /\ Len(contextTasks') = Len(contextTasks) - 1
      /\ \A i \in 1..Len(contextTasks') :
           contextTasks'[i] = contextTasks[i + 1] /\ i + 1 \in 1..Len(contextTasks)
      /\ Head(contextTasks) = contextTasks[1] /\ Head(contextTasks) \in ContextTask
  BY <1>1, QueueTail
<1>3. Len(contextTasks) \in Nat \ {0} /\ (contextTasks' = <<>> <=> Len(contextTasks) = 1)
  BY <1>1, QueueTail
<1>4. thread.at # "none" /\ proxy.hasThread
  BY DEF ThreadAndProxy, TypeOK, ThreadOK
<1>5. ASSUME Head(contextTasks).kind = "destroyed"  PROVE thread.at = "ended" /\ contextTasks' = <<>>
  <2>1. 1 \in 1..Len(contextTasks) /\ contextTasks[1].kind = "destroyed"
    BY <1>2, <1>3, <1>5
  <2>2. 1 = Len(contextTasks) /\ thread.at = "ended"
    BY <2>1 DEF DestroyedLast
  <2> QED BY <1>2, <1>3, <2>2
<1>6. thread.at = "ended" => contextTasks[Len(contextTasks)].kind = "destroyed"
  BY DEF ThreadAndProxy
<1>7. Head(contextTasks).kind # "destroyed" /\ thread.at = "ended" =>
        contextTasks' # <<>> /\ contextTasks'[Len(contextTasks')].kind = "destroyed"
  BY <1>2, <1>3, <1>6
<1>8. ASSUME NEW i \in 1..Len(contextTasks'), contextTasks'[i].kind = "destroyed"
      PROVE  i = Len(contextTasks') /\ thread.at = "ended"
  <2>1. i + 1 \in 1..Len(contextTasks) /\ contextTasks[i + 1].kind = "destroyed"
    BY <1>2, <1>3, <1>8
  <2>2. i + 1 = Len(contextTasks) /\ thread.at = "ended"
    BY <2>1 DEF DestroyedLast
  <2> DEFINE n == Len(contextTasks)
             m == Len(contextTasks')
  <2>3. i \in Int
    BY <1>8
  <2>4. n \in Int /\ m = n - 1
    BY <1>2, <1>3
  <2>5. i + 1 = n
    BY <2>2
  <2> HIDE DEF n, m
  <2>6. i = m
    BY <2>3, <2>4, <2>5
  <2> QED BY <2>2, <2>6 DEF m
<1> QED BY <1>1, <1>2, <1>3, <1>4, <1>5, <1>7, <1>8

\* A message or an exception is dispatched.
LEMMA SpokenTask ==
  ASSUME IInv, PerformContextTask, Head(contextTasks).kind \in {"message", "exception"}
  PROVE  IInv'
<1> USE TaskTaken DEF IInv, PerformContextTask
<1>d. UNCHANGED <<proxy, thread, loop, killed>>
  OBVIOUS
<1>f. /\ Count(loop, {"message"}) \in Nat /\ Count(contextTasks', Confirmations) \in Nat
      /\ Count(contextTasks, Confirmations)
           = Count(contextTasks', Confirmations) + (IF Head(contextTasks).kind = "confirm" THEN 1 ELSE 0)
  <2>1. loop \in Seq(LoopTask)
    BY DEF TypeOK, QueuesOK
  <2> QED BY <2>1, LoopQueue, ConfirmationsCounted
<1>1. TypeOK'
  <2>1. ProxyOK'
    BY DEF TypeOK, ProxyOK
  <2>2. ThreadOK'
    BY DEF TypeOK, ThreadOK
  <2>3. QueuesOK'
    BY DEF TypeOK, QueuesOK
  <2>4. (messages \in Nat /\ events \in Nat)'
    BY DEF TypeOK
  <2> QED BY <2>1, <2>2, <2>3, <2>4 DEF TypeOK
<1>2. ThreadAndProxy'
  BY <1>d DEF TypeOK, ProxyOK, ThreadOK, ThreadAndProxy
<1>3. DestroyedLast'
  BY <1>d DEF TypeOK, ThreadOK, DestroyedLast
<1>4. UnconfirmedCounted'
  BY <1>d, <1>f, SMTT(30) DEF TypeOK, ProxyOK, ThreadOK, UnconfirmedCounted, OnTheWay
<1>5. KilledOnlyWhenAsked'
  BY DEF TypeOK, ProxyOK, ThreadOK, KilledOnlyWhenAsked
<1>6. ActivityReported'
  <2>0. proxy'.hadPendingActivity = IF IsReport(Head(contextTasks)) THEN Head(contextTasks).active
                                    ELSE proxy.hadPendingActivity
    BY <1>d DEF IsReport
  <2>1. LET pending == proxy.hadPendingActivity
            after == proxy'.hadPendingActivity
        IN  /\ Known(contextTasks, pending, Len(contextTasks)) => Known(contextTasks', after, Len(contextTasks'))
            /\ NoReport(contextTasks) => NoReport(contextTasks') /\ ~IsReport(Head(contextTasks))
            /\ ReportFirst(contextTasks, pending) => ReportFirst(contextTasks', after)
            /\ \A i \in 1..Len(contextTasks') :
                 Covered(contextTasks, pending, i + 1) => Covered(contextTasks', after, i)
    BY <2>0, QueueTail, ZenonT(60)
  <2>2. \A i \in 1..Len(contextTasks') : i + 1 \in 1..Len(contextTasks) /\ contextTasks'[i] = contextTasks[i + 1]
    OBVIOUS
  <2> QED BY <1>d, <2>1, <2>2 DEF ActivityReported
<1> QED BY <1>1, <1>2, <1>3, <1>4, <1>5, <1>6

\* The proxy is told of the activity, and of a message that was handled.
LEMMA ReportTask ==
  ASSUME IInv, PerformContextTask, Head(contextTasks).kind \in {"confirm", "report"}
  PROVE  IInv'
<1> USE TaskTaken DEF IInv, PerformContextTask, ReportPendingActivityInternal
<1>d. /\ UNCHANGED <<thread, loop, killed, imported>>
      /\ proxy'.hadPendingActivity = Head(contextTasks).active
      /\ proxy'.hasThread = proxy.hasThread /\ proxy'.deleted = proxy.deleted
      /\ proxy'.askedToTerminate = proxy.askedToTerminate
      /\ proxy'.unconfirmed = IF Head(contextTasks).kind = "confirm" /\ ~proxy.askedToTerminate
                              THEN proxy.unconfirmed - 1 ELSE proxy.unconfirmed
  BY DEF TypeOK, ProxyOK
<1>f. /\ Count(loop, {"message"}) \in Nat /\ Count(contextTasks', Confirmations) \in Nat
      /\ Count(contextTasks, Confirmations)
           = Count(contextTasks', Confirmations) + (IF Head(contextTasks).kind = "confirm" THEN 1 ELSE 0)
  <2>1. loop \in Seq(LoopTask)
    BY DEF TypeOK, QueuesOK
  <2> QED BY <2>1, LoopQueue, ConfirmationsCounted
<1>g. proxy.unconfirmed \in Nat /\ proxy'.unconfirmed \in Nat
  <2>1. Head(contextTasks).kind = "confirm" => OnTheWay > 0
    BY <1>f DEF OnTheWay
  <2>2. proxy.unconfirmed \in Nat /\ OnTheWay \in Nat
    BY <1>f, SMTT(30) DEF OnTheWay, TypeOK, ProxyOK
  <2>3. Head(contextTasks).kind = "confirm" /\ ~proxy.askedToTerminate => proxy.unconfirmed > 0
    BY <2>1, <2>2 DEF UnconfirmedCounted
  <2> QED BY <1>d, <2>2, <2>3
<1>h. Head(contextTasks).active \in BOOLEAN
  <2>1. Head(contextTasks) \in ContextTask
    BY QueueTail
  <2> QED BY <2>1 DEF ContextTask
<1>1. TypeOK'
  <2>1. ProxyOK'
    <3>1. proxy' = [proxy EXCEPT !.unconfirmed = proxy'.unconfirmed, !.hadPendingActivity = Head(contextTasks).active]
      BY <1>d DEF TypeOK, ProxyOK
    <3>2. object' = object
      OBVIOUS
    <3> HIDE DEF PerformContextTask
    <3> QED BY <3>1, <3>2, <1>g, <1>h DEF TypeOK, ProxyOK
  <2>2. ThreadOK'
    BY DEF TypeOK, ThreadOK
  <2>3. QueuesOK'
    BY DEF TypeOK, QueuesOK
  <2>4. (messages \in Nat /\ events \in Nat)'
    BY DEF TypeOK
  <2> QED BY <2>1, <2>2, <2>3, <2>4 DEF TypeOK
<1>2. ThreadAndProxy'
  BY <1>d DEF TypeOK, ProxyOK, ThreadOK, ThreadAndProxy
<1>3. DestroyedLast'
  BY <1>d DEF TypeOK, ThreadOK, DestroyedLast
<1>4. UnconfirmedCounted'
  <2>1. OnTheWay = OnTheWay' + (IF Head(contextTasks).kind = "confirm" THEN 1 ELSE 0) /\ OnTheWay' \in Nat
    BY <1>d, <1>f DEF OnTheWay
  <2> QED BY <1>d, <1>g, <2>1 DEF UnconfirmedCounted
<1>5. KilledOnlyWhenAsked'
  BY <1>d DEF TypeOK, ProxyOK, ThreadOK, KilledOnlyWhenAsked
<1>6. ActivityReported'
  <2>0. proxy'.hadPendingActivity = IF IsReport(Head(contextTasks)) THEN Head(contextTasks).active
                                    ELSE proxy.hadPendingActivity
    BY <1>d DEF IsReport
  <2>1. LET pending == proxy.hadPendingActivity
            after == proxy'.hadPendingActivity
        IN  /\ Known(contextTasks, pending, Len(contextTasks)) => Known(contextTasks', after, Len(contextTasks'))
            /\ NoReport(contextTasks) => NoReport(contextTasks') /\ ~IsReport(Head(contextTasks))
            /\ ReportFirst(contextTasks, pending) => ReportFirst(contextTasks', after)
            /\ \A i \in 1..Len(contextTasks') :
                 Covered(contextTasks, pending, i + 1) => Covered(contextTasks', after, i)
    BY <2>0, QueueTail
  <2>2. \A i \in 1..Len(contextTasks') : i + 1 \in 1..Len(contextTasks) /\ contextTasks'[i] = contextTasks[i + 1]
    OBVIOUS
  <2>3. IsReport(Head(contextTasks))
    BY DEF IsReport
  <2> HIDE DEF PerformContextTask
  <2> QED BY <1>d, <2>1, <2>2, <2>3 DEF ActivityReported
<1> QED BY <1>1, <1>2, <1>3, <1>4, <1>5, <1>6

\* The worker has called close().
LEMMA TerminateTask ==
  ASSUME IInv, PerformContextTask, Head(contextTasks).kind = "terminate"
  PROVE  IInv'
<1> USE TaskTaken, TerminateWorkerContextFacts DEF IInv, PerformContextTask
<1>d. TerminateWorkerContext
  OBVIOUS
<1>1. TypeOK'
  <2>1. ProxyOK'
    BY DEF TypeOK, ProxyOK
  <2>2. ThreadOK'
    BY DEF TypeOK, ThreadOK
  <2>3. QueuesOK'
    BY <1>d DEF TypeOK, QueuesOK
  <2>4. (messages \in Nat /\ events \in Nat)'
    BY DEF TypeOK
  <2> QED BY <2>1, <2>2, <2>3, <2>4 DEF TypeOK
<1>2. ThreadAndProxy'
  BY <1>d DEF TypeOK, ProxyOK, ThreadOK, ThreadAndProxy
<1>3. DestroyedLast'
  BY <1>d DEF TypeOK, ThreadOK, DestroyedLast
<1>4. UnconfirmedCounted'
  BY DEF TypeOK, ProxyOK, ThreadOK, UnconfirmedCounted, OnTheWay
<1>5. KilledOnlyWhenAsked'
  BY DEF TypeOK, ProxyOK, ThreadOK, KilledOnlyWhenAsked
<1>6. ActivityReported'
  BY DEF TypeOK, ProxyOK, ThreadOK, ActivityReported
<1> QED BY <1>1, <1>2, <1>3, <1>4, <1>5, <1>6

\* The last task of the worker: the proxy goes with it, or is kept for the object.
LEMMA DestroyedTask ==
  ASSUME IInv, PerformContextTask, Head(contextTasks).kind = "destroyed"
  PROVE  IInv'
<1> USE TaskTaken DEF IInv, PerformContextTask, WorkerContextDestroyedInternal
<1>1. TypeOK'
  <2>1. ProxyOK'
    BY DEF TypeOK, ProxyOK
  <2>2. ThreadOK'
    BY DEF TypeOK, ThreadOK
  <2>3. QueuesOK'
    BY DEF TypeOK, QueuesOK
  <2>4. (messages \in Nat /\ events \in Nat)'
    BY DEF TypeOK
  <2> QED BY <2>1, <2>2, <2>3, <2>4 DEF TypeOK
<1>2. ThreadAndProxy'
  BY DEF TypeOK, ProxyOK, ThreadOK, ThreadAndProxy
<1>3. DestroyedLast'
  BY DEF TypeOK, ThreadOK, DestroyedLast
<1>4. UnconfirmedCounted'
  BY DEF TypeOK, ProxyOK, ThreadOK, UnconfirmedCounted, OnTheWay
<1>5. KilledOnlyWhenAsked'
  BY DEF TypeOK, ProxyOK, ThreadOK, KilledOnlyWhenAsked
<1>6. ActivityReported'
  BY DEF TypeOK, ProxyOK, ThreadOK, ActivityReported
<1> QED BY <1>1, <1>2, <1>3, <1>4, <1>5, <1>6

\* The worker posts a task to the context thread.
LEMMA TaskPosted ==
  ASSUME IInv, NEW task \in ContextTask, contextTasks' = Append(contextTasks, task)
  PROVE  /\ contextTasks' \in Seq(ContextTask) /\ contextTasks' # <<>>
         /\ Len(contextTasks) \in Nat /\ Len(contextTasks') = Len(contextTasks) + 1
         /\ \A i \in 1..Len(contextTasks) : contextTasks'[i] = contextTasks[i]
         /\ contextTasks'[Len(contextTasks) + 1] = task
         /\ Count(contextTasks, Confirmations) \in Nat /\ Count(loop, {"message"}) \in Nat
         /\ Count(contextTasks', Confirmations)
              = Count(contextTasks, Confirmations) + (IF task.kind = "confirm" THEN 1 ELSE 0)
         /\ thread.at # "ended" => \A i \in 1..Len(contextTasks) : contextTasks[i].kind # "destroyed"
         /\ LET pending == proxy.hadPendingActivity
            IN  /\ Known(contextTasks', pending, Len(contextTasks'))
                     <=> IF IsReport(task) THEN task.active
                         ELSE Known(contextTasks, pending, Len(contextTasks))
                /\ NoReport(contextTasks) /\ ~IsReport(task) => NoReport(contextTasks')
                /\ ReportFirst(contextTasks, pending)
                     /\ (task.kind = "report" => pending /\ NoReport(contextTasks))
                     => ReportFirst(contextTasks', pending)
                /\ \A i \in 1..Len(contextTasks) :
                     Covered(contextTasks, pending, i) \/ task.kind = "confirm" => Covered(contextTasks', pending, i)
                /\ Known(contextTasks, pending, Len(contextTasks)) => Covered(contextTasks', pending, Len(contextTasks) + 1)
<1>1. /\ contextTasks \in Seq(ContextTask) /\ loop \in Seq(LoopTask)
      /\ proxy.hadPendingActivity \in BOOLEAN
  BY DEF IInv, TypeOK, QueuesOK, ProxyOK
<1>2. /\ Len(contextTasks) \in Nat
      /\ \A i \in 1..Len(contextTasks) : contextTasks'[i] = contextTasks[i]
      /\ contextTasks' \in Seq(ContextTask) /\ contextTasks' # <<>>
      /\ contextTasks'[Len(contextTasks) + 1] = task
      /\ Len(contextTasks') = Len(contextTasks) + 1
  BY <1>1, AppendProperties, LenProperties
<1>3. /\ Count(contextTasks, Confirmations) \in Nat /\ Count(loop, {"message"}) \in Nat
      /\ Count(contextTasks', Confirmations)
              = Count(contextTasks, Confirmations) + (IF task.kind = "confirm" THEN 1 ELSE 0)
  BY <1>1, ConfirmationsCounted, LoopQueue
<1>4. thread.at # "ended" => \A i \in 1..Len(contextTasks) : contextTasks[i].kind # "destroyed"
  BY DEF IInv, DestroyedLast
<1> DEFINE pending == proxy.hadPendingActivity
           longer == Append(contextTasks, task)
<1>5. /\ Known(longer, pending, Len(longer))
           <=> IF IsReport(task) THEN task.active ELSE Known(contextTasks, pending, Len(contextTasks))
      /\ NoReport(contextTasks) /\ ~IsReport(task) => NoReport(longer)
      /\ ReportFirst(contextTasks, pending) /\ (task.kind = "report" => pending /\ NoReport(contextTasks))
           => ReportFirst(longer, pending)
      /\ \A i \in 1..Len(contextTasks) :
           Covered(contextTasks, pending, i) \/ task.kind = "confirm" => Covered(longer, pending, i)
      /\ Known(contextTasks, pending, Len(contextTasks)) => Covered(longer, pending, Len(longer))
  BY <1>1, QueueAppend
<1> QED BY <1>2, <1>3, <1>4, <1>5

\* The context is created.
LEMMA CreateContextStep ==
  ASSUME IInv, CreateContext
  PROVE  IInv'
<1> USE DEF IInv, CreateContext
<1>a. /\ thread.at = "starting" /\ thread'.at = "script" /\ thread'.script = "evaluate" /\ thread.script = "none"
      /\ thread'.closing = thread.closing
  BY DEF TypeOK, ThreadOK, ThreadAndProxy
<1>1. TypeOK'
  <2>1. ProxyOK'
    BY DEF TypeOK, ProxyOK
  <2>2. ThreadOK'
    BY DEF TypeOK, ThreadOK
  <2>3. QueuesOK'
    BY DEF TypeOK, QueuesOK
  <2>4. (messages \in Nat /\ events \in Nat)'
    BY DEF TypeOK
  <2> QED BY <2>1, <2>2, <2>3, <2>4 DEF TypeOK
<1>2. ThreadAndProxy'
  BY DEF TypeOK, ProxyOK, ThreadOK, ThreadAndProxy
<1>3. DestroyedLast'
  BY DEF TypeOK, ThreadOK, DestroyedLast
<1>4. UnconfirmedCounted'
  <2>1. OnTheWay' = OnTheWay
    BY <1>a DEF OnTheWay
  <2> QED BY <1>a, <2>1 DEF UnconfirmedCounted
<1>5. KilledOnlyWhenAsked'
  BY DEF TypeOK, ProxyOK, ThreadOK, KilledOnlyWhenAsked
<1>6. ActivityReported'
  BY <1>a DEF ActivityReported
<1> QED BY <1>1, <1>2, <1>3, <1>4, <1>5, <1>6

\* A script posts a message or throws: the object is kept until that arrives.
LEMMA ScriptSpeaks ==
  ASSUME IInv, ScriptActs, NEW kind \in {"message", "exception"}, Post(Task(kind)), UNCHANGED thread
  PROVE  IInv'
<1> USE DEF IInv, ScriptActs, Post
<1>a. Task(kind) \in ContextTask /\ ~IsReport(Task(kind)) /\ Task(kind).kind = kind
  BY DEF Task, ContextTask, IsReport
<1>b. /\ thread.at = "script" /\ thread.script # "none"
      /\ contextTasks' = Append(contextTasks, Task(kind))
      /\ UNCHANGED <<thread, proxy, object, loop, killed, imported>>
  BY DEF ThreadAndProxy, TypeOK, ThreadOK
<1> HIDE DEF Post
<1> USE TaskPosted
<1>1. TypeOK'
  <2>1. ProxyOK'
    BY DEF TypeOK, ProxyOK
  <2>2. ThreadOK'
    BY DEF TypeOK, ThreadOK
  <2>3. QueuesOK'
    BY <1>a, <1>b DEF TypeOK, QueuesOK
  <2>4. (messages \in Nat /\ events \in Nat)'
    BY DEF TypeOK
  <2> QED BY <2>1, <2>2, <2>3, <2>4 DEF TypeOK
<1>2. ThreadAndProxy'
  BY <1>a, <1>b DEF TypeOK, ProxyOK, ThreadOK, ThreadAndProxy
<1>3. DestroyedLast'
  BY <1>a, <1>b DEF TypeOK, ThreadOK, DestroyedLast
<1>4. UnconfirmedCounted'
  BY <1>a, <1>b DEF TypeOK, ProxyOK, ThreadOK, UnconfirmedCounted, OnTheWay
<1>5. KilledOnlyWhenAsked'
  BY DEF TypeOK, ProxyOK, ThreadOK, KilledOnlyWhenAsked
<1>6. ActivityReported'
  <2>1. ASSUME ~proxy.askedToTerminate, ~imported
        PROVE  thread.script = "message" \/ Known(contextTasks, proxy.hadPendingActivity, Len(contextTasks))
    BY <1>b, <2>1 DEF ActivityReported, Known, NoReport, TypeOK, ThreadOK
  <2> QED BY <1>a, <1>b, <2>1 DEF ActivityReported
<1> QED BY <1>1, <1>2, <1>3, <1>4, <1>5, <1>6

\* A script changes what is pending.
LEMMA ScriptChangesActivity ==
  ASSUME IInv, ScriptActs, thread' = [thread EXCEPT !.active = ~thread.active], UNCHANGED contextTasks
  PROVE  IInv'
<1> USE DEF IInv, ScriptActs
<1>a. /\ thread'.at = thread.at /\ thread'.script = thread.script /\ thread'.closing = thread.closing
      /\ thread.at = "script"
  BY DEF TypeOK, ThreadOK
<1>1. TypeOK'
  <2>1. ProxyOK'
    BY DEF TypeOK, ProxyOK
  <2>2. ThreadOK'
    BY DEF TypeOK, ThreadOK
  <2>3. QueuesOK'
    BY DEF TypeOK, QueuesOK
  <2>4. (messages \in Nat /\ events \in Nat)'
    BY DEF TypeOK
  <2> QED BY <2>1, <2>2, <2>3, <2>4 DEF TypeOK
<1>2. ThreadAndProxy'
  BY DEF TypeOK, ProxyOK, ThreadOK, ThreadAndProxy
<1>3. DestroyedLast'
  BY DEF TypeOK, ThreadOK, DestroyedLast
<1>4. UnconfirmedCounted'
  <2>1. OnTheWay' = OnTheWay
    BY <1>a DEF OnTheWay
  <2> QED BY <1>a, <2>1 DEF UnconfirmedCounted
<1>5. KilledOnlyWhenAsked'
  BY DEF TypeOK, ProxyOK, ThreadOK, KilledOnlyWhenAsked
<1>6. ActivityReported'
  BY <1>a DEF ActivityReported
<1> QED BY <1>1, <1>2, <1>3, <1>4, <1>5, <1>6

\* importScripts.
LEMMA ImportScriptsStep ==
  ASSUME IInv, ImportScripts
  PROVE  IInv'
<1> USE DEF IInv, ImportScripts, Post
<1> DEFINE task == Report("report", thread.active)
<1>a. task \in ContextTask /\ task.kind = "report"
  BY DEF Report, ContextTask, TypeOK, ThreadOK
<1>b. /\ thread.at = "script" /\ contextTasks' = Append(contextTasks, task)
      /\ imported' = TRUE
      /\ UNCHANGED <<thread, proxy, object, loop, killed>>
  OBVIOUS
<1> HIDE DEF Post, task
<1> USE TaskPosted
<1>1. TypeOK'
  <2>1. ProxyOK'
    BY DEF TypeOK, ProxyOK
  <2>2. ThreadOK'
    BY DEF TypeOK, ThreadOK
  <2>3. QueuesOK'
    BY <1>a, <1>b DEF TypeOK, QueuesOK
  <2>4. (messages \in Nat /\ events \in Nat)'
    BY DEF TypeOK
  <2> QED BY <2>1, <2>2, <2>3, <2>4 DEF TypeOK
<1>2. ThreadAndProxy'
  BY <1>a, <1>b DEF TypeOK, ProxyOK, ThreadOK, ThreadAndProxy
<1>3. DestroyedLast'
  BY <1>a, <1>b DEF TypeOK, ThreadOK, DestroyedLast
<1>4. UnconfirmedCounted'
  BY <1>a, <1>b DEF TypeOK, ProxyOK, ThreadOK, UnconfirmedCounted, OnTheWay
<1>5. KilledOnlyWhenAsked'
  BY DEF TypeOK, ProxyOK, ThreadOK, KilledOnlyWhenAsked
<1>6. ActivityReported'
  BY <1>b DEF TypeOK, ProxyOK, ThreadOK, ActivityReported
<1> QED BY <1>1, <1>2, <1>3, <1>4, <1>5, <1>6

\* close() of the worker: from now on messages are not confirmed.
LEMMA CloseContextStep ==
  ASSUME IInv, CloseContext
  PROVE  IInv'
<1> USE DEF IInv, CloseContext
<1>a. /\ thread'.at = thread.at /\ thread'.script = thread.script /\ thread'.closing = TRUE
      /\ thread.at = "script"
  BY DEF TypeOK, ThreadOK
<1>b. loop \in Seq(LoopTask) /\ "close" \in LoopTask /\ loop' = Append(loop, "close")
  BY DEF TypeOK, QueuesOK, LoopTask
<1>1. TypeOK'
  <2>1. ProxyOK'
    BY DEF TypeOK, ProxyOK
  <2>2. ThreadOK'
    BY DEF TypeOK, ThreadOK
  <2>3. QueuesOK'
    BY <1>b, LoopQueue DEF TypeOK, QueuesOK
  <2>4. (messages \in Nat /\ events \in Nat)'
    BY DEF TypeOK
  <2> QED BY <2>1, <2>2, <2>3, <2>4 DEF TypeOK
<1>2. ThreadAndProxy'
  BY DEF TypeOK, ProxyOK, ThreadOK, ThreadAndProxy
<1>3. DestroyedLast'
  BY DEF TypeOK, ThreadOK, DestroyedLast
<1>4. UnconfirmedCounted'
  <2>1. OnTheWay' = OnTheWay
    <3>1. Count(loop', {"message"}) = Count(loop, {"message"})
      BY <1>b, LoopQueue
    <3> QED BY <1>a, <3>1 DEF OnTheWay
  <2>2. proxy.unconfirmed \in Nat /\ OnTheWay \in Nat
    <3>1. contextTasks \in Seq(ContextTask)
      BY DEF TypeOK, QueuesOK
    <3> QED BY <1>b, <3>1, LoopQueue, ConfirmationsCounted DEF OnTheWay, TypeOK, ProxyOK
  <2> QED BY <1>a, <2>1, <2>2 DEF UnconfirmedCounted
<1>5. KilledOnlyWhenAsked'
  BY <1>a, <1>b, LoopQueue DEF TypeOK, ProxyOK, ThreadOK, KilledOnlyWhenAsked
<1>6. ActivityReported'
  BY <1>a DEF ActivityReported
<1> QED BY <1>1, <1>2, <1>3, <1>4, <1>5, <1>6

\* The first script has ended: the proxy is told what is pending.
LEMMA EndEvaluate ==
  ASSUME IInv, EndScript, thread.script = "evaluate", Post(Report("report", thread.active))
  PROVE  IInv'
<1> USE DEF IInv, EndScript, Post
<1> DEFINE task == Report("report", thread.active)
<1>a. task \in ContextTask /\ task.kind = "report" /\ IsReport(task) /\ task.active = thread.active
  BY DEF Report, ContextTask, IsReport, TypeOK, ThreadOK
<1>b. /\ thread.at = "script" /\ thread'.at = "loop" /\ thread'.script = "none"
      /\ thread'.closing = thread.closing /\ thread'.active = thread.active
      /\ UNCHANGED <<proxy, object, loop, killed, imported>>
  BY DEF TypeOK, ThreadOK
<1>c. contextTasks' = Append(contextTasks, task)
  OBVIOUS
<1> HIDE DEF Post, task
<1> USE TaskPosted
<1>1. TypeOK'
  <2>1. ProxyOK'
    BY DEF TypeOK, ProxyOK
  <2>2. ThreadOK'
    BY DEF TypeOK, ThreadOK
  <2>3. QueuesOK'
    BY <1>a, <1>b, <1>c DEF TypeOK, QueuesOK
  <2>4. (messages \in Nat /\ events \in Nat)'
    BY DEF TypeOK
  <2> QED BY <2>1, <2>2, <2>3, <2>4 DEF TypeOK
<1>2. ThreadAndProxy'
  BY <1>a, <1>b, <1>c DEF TypeOK, ProxyOK, ThreadOK, ThreadAndProxy
<1>3. DestroyedLast'
  BY <1>a, <1>b, <1>c DEF TypeOK, ThreadOK, DestroyedLast
<1>4. UnconfirmedCounted'
  <2>1. OnTheWay' = OnTheWay
    BY <1>a, <1>b, <1>c DEF OnTheWay
  <2> QED BY <1>b, <2>1 DEF UnconfirmedCounted
<1>5. KilledOnlyWhenAsked'
  BY <1>b DEF TypeOK, ProxyOK, ThreadOK, KilledOnlyWhenAsked
<1>6. ActivityReported'
  BY <1>a, <1>b, <1>c DEF ActivityReported, Speaks
<1> QED BY <1>1, <1>2, <1>3, <1>4, <1>5, <1>6

\* A message was handled: it is confirmed.
LEMMA EndMessage ==
  ASSUME IInv, EndScript, thread.script = "message", Post(Report("confirm", thread.active))
  PROVE  IInv'
<1> USE DEF IInv, EndScript, Post
<1> DEFINE task == Report("confirm", thread.active)
<1>a. task \in ContextTask /\ task.kind = "confirm" /\ IsReport(task) /\ task.active = thread.active
  BY DEF Report, ContextTask, IsReport, TypeOK, ThreadOK
<1>b. /\ thread.at = "script" /\ thread'.at = "loop" /\ thread'.script = "none"
      /\ thread'.closing = thread.closing /\ thread'.active = thread.active
      /\ UNCHANGED <<proxy, object, loop, killed, imported>>
  BY DEF TypeOK, ThreadOK
<1>c. contextTasks' = Append(contextTasks, task)
  OBVIOUS
<1> HIDE DEF Post, task
<1> USE TaskPosted
<1>1. TypeOK'
  <2>1. ProxyOK'
    BY DEF TypeOK, ProxyOK
  <2>2. ThreadOK'
    BY DEF TypeOK, ThreadOK
  <2>3. QueuesOK'
    BY <1>a, <1>b, <1>c DEF TypeOK, QueuesOK
  <2>4. (messages \in Nat /\ events \in Nat)'
    BY DEF TypeOK
  <2> QED BY <2>1, <2>2, <2>3, <2>4 DEF TypeOK
<1>2. ThreadAndProxy'
  BY <1>a, <1>b, <1>c DEF TypeOK, ProxyOK, ThreadOK, ThreadAndProxy
<1>3. DestroyedLast'
  BY <1>a, <1>b, <1>c DEF TypeOK, ThreadOK, DestroyedLast
<1>4. UnconfirmedCounted'
  <2>1. OnTheWay' = OnTheWay
    BY <1>a, <1>b, <1>c DEF OnTheWay
  <2> QED BY <1>b, <2>1 DEF UnconfirmedCounted
<1>5. KilledOnlyWhenAsked'
  BY <1>b DEF TypeOK, ProxyOK, ThreadOK, KilledOnlyWhenAsked
<1>6. ActivityReported'
  BY <1>a, <1>b, <1>c DEF ActivityReported, Speaks
<1> QED BY <1>1, <1>2, <1>3, <1>4, <1>5, <1>6

\* A timer script has ended: nothing is reported.
LEMMA EndTimer ==
  ASSUME IInv, EndScript, thread.script = "timer", UNCHANGED contextTasks
  PROVE  IInv'
<1> USE DEF IInv, EndScript
<1>b. /\ thread.at = "script" /\ thread'.at = "loop" /\ thread'.script = "none"
      /\ thread'.closing = thread.closing /\ thread'.active = thread.active
      /\ UNCHANGED <<proxy, object, loop, killed, imported>>
  BY DEF TypeOK, ThreadOK
<1>1. TypeOK'
  <2>1. ProxyOK'
    BY DEF TypeOK, ProxyOK
  <2>2. ThreadOK'
    BY DEF TypeOK, ThreadOK
  <2>3. QueuesOK'
    BY DEF TypeOK, QueuesOK
  <2>4. (messages \in Nat /\ events \in Nat)'
    BY DEF TypeOK
  <2> QED BY <2>1, <2>2, <2>3, <2>4 DEF TypeOK
<1>2. ThreadAndProxy'
  BY DEF TypeOK, ProxyOK, ThreadOK, ThreadAndProxy
<1>3. DestroyedLast'
  BY DEF TypeOK, ThreadOK, DestroyedLast
<1>4. UnconfirmedCounted'
  <2>1. OnTheWay' = OnTheWay
    BY <1>b DEF OnTheWay
  <2> QED BY <1>b, <2>1 DEF UnconfirmedCounted
<1>5. KilledOnlyWhenAsked'
  BY DEF TypeOK, ProxyOK, ThreadOK, KilledOnlyWhenAsked
<1>6. ActivityReported'
  BY <1>b DEF ActivityReported
<1> QED BY <1>1, <1>2, <1>3, <1>4, <1>5, <1>6

\* The run loop takes a task.
LEMMA LoopTaskTaken ==
  ASSUME IInv, loop # <<>>, PerformLoopTask
  PROVE  /\ loop \in Seq(LoopTask) /\ Tail(loop) \in Seq(LoopTask)
         /\ thread.at = "loop" /\ thread.script = "none"
         /\ UNCHANGED <<object, proxy, messages, events, imported>>
         /\ Head(loop) \in {"shutdownStart", "shutdownFinish"} => proxy.askedToTerminate
         /\ ~proxy.askedToTerminate =>
              \A i \in 1..Len(Tail(loop)) : Tail(loop)[i] \notin {"shutdownStart", "shutdownFinish"}
         /\ Count(contextTasks, Confirmations) \in Nat /\ Count(Tail(loop), {"message"}) \in Nat
         /\ Count(loop, {"message"})
              = Count(Tail(loop), {"message"}) + (IF Head(loop) = "message" THEN 1 ELSE 0)
<1> USE DEF IInv
<1>1. loop \in Seq(LoopTask) /\ contextTasks \in Seq(ContextTask)
  BY DEF TypeOK, QueuesOK
<1>2. /\ Tail(loop) \in Seq(LoopTask) /\ Len(Tail(loop)) = Len(loop) - 1
      /\ Head(loop) = loop[1] /\ Len(loop) > 0 /\ Len(loop) \in Nat
      /\ \A i \in 1..Len(Tail(loop)) : Tail(loop)[i] = loop[i + 1]
      /\ Count(loop, {"message"})
           = Count(Tail(loop), {"message"}) + (IF Head(loop) = "message" THEN 1 ELSE 0)
  BY <1>1, LoopQueue
<1>3. thread.at = "loop" /\ thread.script = "none" /\ UNCHANGED <<object, proxy, messages, events, imported>>
  BY DEF PerformLoopTask, ThreadAndProxy
<1>4. 1 \in 1..Len(loop) /\ \A i \in 1..Len(Tail(loop)) : i + 1 \in 1..Len(loop)
  BY <1>2
<1>5. ~proxy.askedToTerminate =>
        /\ Head(loop) \notin {"shutdownStart", "shutdownFinish"}
        /\ \A i \in 1..Len(Tail(loop)) : Tail(loop)[i] \notin {"shutdownStart", "shutdownFinish"}
  BY <1>2, <1>4 DEF KilledOnlyWhenAsked
<1>6. Count(contextTasks, Confirmations) \in Nat /\ Count(Tail(loop), {"message"}) \in Nat
  BY <1>1, <1>2, LoopQueue, ConfirmationsCounted
<1> QED BY <1>1, <1>2, <1>3, <1>5, <1>6

\* A message is handled, or dropped by a closing worker.
LEMMA MessageTask ==
  ASSUME IInv, loop # <<>>, PerformLoopTask, Head(loop) = "message", MessageWorkerContextTask
  PROVE  IInv'
<1> USE LoopTaskTaken DEF IInv, MessageWorkerContextTask
<1>a. /\ thread'.closing = thread.closing /\ UNCHANGED <<contextTasks, killed>> /\ loop' = Tail(loop)
      /\ thread.closing => thread' = thread
      /\ ~thread.closing => thread'.at = "script" /\ thread'.script = "message"
  BY DEF TypeOK, ThreadOK
<1>b. thread.closing \in BOOLEAN /\ proxy.unconfirmed \in Nat
  BY DEF TypeOK, ThreadOK, ProxyOK
<1>1. TypeOK'
  <2>1. ProxyOK'
    BY DEF TypeOK, ProxyOK
  <2>2. ThreadOK'
    BY DEF TypeOK, ThreadOK
  <2>3. QueuesOK'
    BY DEF TypeOK, QueuesOK
  <2>4. (messages \in Nat /\ events \in Nat)'
    BY DEF TypeOK
  <2> QED BY <2>1, <2>2, <2>3, <2>4 DEF TypeOK
<1>2. ThreadAndProxy'
  BY <1>a, <1>b DEF TypeOK, ProxyOK, ThreadOK, ThreadAndProxy
<1>3. DestroyedLast'
  BY <1>a DEF TypeOK, ThreadOK, DestroyedLast
<1>4. UnconfirmedCounted'
  <2>1. IF thread.closing THEN OnTheWay = OnTheWay' + 1 ELSE OnTheWay' = OnTheWay
    BY <1>a, SMTT(30) DEF OnTheWay
  <2>2. OnTheWay' \in Nat
    BY <1>a DEF OnTheWay
  <2> QED BY <1>a, <1>b, <2>1, <2>2 DEF UnconfirmedCounted
<1>5. KilledOnlyWhenAsked'
  BY <1>a DEF TypeOK, ProxyOK, ThreadOK, KilledOnlyWhenAsked
<1>6. ActivityReported'
  BY <1>a DEF TypeOK, ProxyOK, ThreadOK, ActivityReported
<1> QED BY <1>1, <1>2, <1>3, <1>4, <1>5, <1>6

\* The worker asks for its termination.
LEMMA CloseTask ==
  ASSUME IInv, loop # <<>>, PerformLoopTask, Head(loop) = "close", CloseWorkerContextTask
  PROVE  IInv'
<1> USE LoopTaskTaken DEF IInv, CloseWorkerContextTask, Post
<1> DEFINE task == Task("terminate")
<1>a. task \in ContextTask /\ task.kind = "terminate" /\ ~IsReport(task) /\ ~Speaks(task)
  BY DEF Task, ContextTask, IsReport, Speaks
<1>b. contextTasks' = Append(contextTasks, task) /\ loop' = Tail(loop) /\ UNCHANGED <<thread, killed>>
  OBVIOUS
<1> HIDE DEF Post, task
<1> USE TaskPosted
<1>1. TypeOK'
  <2>1. ProxyOK'
    BY DEF TypeOK, ProxyOK
  <2>2. ThreadOK'
    BY DEF TypeOK, ThreadOK
  <2>3. QueuesOK'
    BY <1>a, <1>b DEF TypeOK, QueuesOK
  <2>4. (messages \in Nat /\ events \in Nat)'
    BY DEF TypeOK
  <2> QED BY <2>1, <2>2, <2>3, <2>4 DEF TypeOK
<1>2. ThreadAndProxy'
  BY <1>a, <1>b DEF TypeOK, ProxyOK, ThreadOK, ThreadAndProxy
<1>3. DestroyedLast'
  BY <1>a, <1>b DEF TypeOK, ThreadOK, DestroyedLast
<1>4. UnconfirmedCounted'
  <2>1. OnTheWay' = OnTheWay
    BY <1>a, <1>b DEF OnTheWay
  <2> QED BY <1>b, <2>1 DEF UnconfirmedCounted
<1>5. KilledOnlyWhenAsked'
  BY <1>b DEF TypeOK, ProxyOK, ThreadOK, KilledOnlyWhenAsked
<1>6. ActivityReported'
  BY <1>a, <1>b DEF TypeOK, ProxyOK, ThreadOK, ActivityReported
<1> QED BY <1>1, <1>2, <1>3, <1>4, <1>5, <1>6

\* The worker has been asked to terminate.
LEMMA ShutdownStartTask ==
  ASSUME IInv, loop # <<>>, PerformLoopTask, Head(loop) = "shutdownStart", WorkerThreadShutdownStartTask
  PROVE  IInv'
<1> USE LoopTaskTaken DEF IInv, WorkerThreadShutdownStartTask
<1>a. loop' \in Seq(LoopTask)
  BY LoopQueue DEF LoopTask
<1>1. TypeOK'
  <2>1. ProxyOK'
    BY DEF TypeOK, ProxyOK
  <2>2. ThreadOK'
    BY DEF TypeOK, ThreadOK
  <2>3. QueuesOK'
    BY <1>a DEF TypeOK, QueuesOK
  <2>4. (messages \in Nat /\ events \in Nat)'
    BY DEF TypeOK
  <2> QED BY <2>1, <2>2, <2>3, <2>4 DEF TypeOK
<1>2. ThreadAndProxy'
  BY DEF TypeOK, ProxyOK, ThreadOK, ThreadAndProxy
<1>3. DestroyedLast'
  BY DEF TypeOK, ThreadOK, DestroyedLast
<1>4. UnconfirmedCounted'
  BY DEF TypeOK, ProxyOK, ThreadOK, UnconfirmedCounted, OnTheWay
<1>5. KilledOnlyWhenAsked'
  BY DEF TypeOK, ProxyOK, ThreadOK, KilledOnlyWhenAsked
<1>6. ActivityReported'
  BY DEF TypeOK, ProxyOK, ThreadOK, ActivityReported
<1> QED BY <1>1, <1>2, <1>3, <1>4, <1>5, <1>6

\* The run loop is terminated.
LEMMA ShutdownFinishTask ==
  ASSUME IInv, loop # <<>>, PerformLoopTask, Head(loop) = "shutdownFinish", WorkerThreadShutdownFinishTask
  PROVE  IInv'
<1> USE LoopTaskTaken DEF IInv, WorkerThreadShutdownFinishTask
<1>1. TypeOK'
  <2>1. ProxyOK'
    BY DEF TypeOK, ProxyOK
  <2>2. ThreadOK'
    BY DEF TypeOK, ThreadOK
  <2>3. QueuesOK'
    BY DEF TypeOK, QueuesOK
  <2>4. (messages \in Nat /\ events \in Nat)'
    BY DEF TypeOK
  <2> QED BY <2>1, <2>2, <2>3, <2>4 DEF TypeOK
<1>2. ThreadAndProxy'
  BY DEF TypeOK, ProxyOK, ThreadOK, ThreadAndProxy
<1>3. DestroyedLast'
  BY DEF TypeOK, ThreadOK, DestroyedLast
<1>4. UnconfirmedCounted'
  BY DEF TypeOK, ProxyOK, ThreadOK, UnconfirmedCounted, OnTheWay
<1>5. KilledOnlyWhenAsked'
  BY DEF TypeOK, ProxyOK, ThreadOK, KilledOnlyWhenAsked
<1>6. ActivityReported'
  BY DEF TypeOK, ProxyOK, ThreadOK, ActivityReported
<1> QED BY <1>1, <1>2, <1>3, <1>4, <1>5, <1>6

\* A timer fires: its worker was known to be active.
LEMMA TimerFiresStep ==
  ASSUME IInv, TimerFires
  PROVE  IInv'
<1> USE DEF IInv, TimerFires
<1>a. /\ thread'.at = "script" /\ thread'.script = "timer" /\ thread'.closing = thread.closing
      /\ thread.at = "loop" /\ thread.script = "none" /\ thread.active
  BY DEF TypeOK, ThreadOK, ThreadAndProxy
<1>1. TypeOK'
  <2>1. ProxyOK'
    BY DEF TypeOK, ProxyOK
  <2>2. ThreadOK'
    BY DEF TypeOK, ThreadOK
  <2>3. QueuesOK'
    BY DEF TypeOK, QueuesOK
  <2>4. (messages \in Nat /\ events \in Nat)'
    BY DEF TypeOK
  <2> QED BY <2>1, <2>2, <2>3, <2>4 DEF TypeOK
<1>2. ThreadAndProxy'
  BY DEF TypeOK, ProxyOK, ThreadOK, ThreadAndProxy
<1>3. DestroyedLast'
  BY DEF TypeOK, ThreadOK, DestroyedLast
<1>4. UnconfirmedCounted'
  <2>1. OnTheWay' = OnTheWay
    BY <1>a DEF OnTheWay
  <2> QED BY <1>a, <2>1 DEF UnconfirmedCounted
<1>5. KilledOnlyWhenAsked'
  BY DEF TypeOK, ProxyOK, ThreadOK, KilledOnlyWhenAsked
<1>6. ActivityReported'
  BY <1>a DEF ActivityReported
<1> QED BY <1>1, <1>2, <1>3, <1>4, <1>5, <1>6

\* The thread ends with its last task.
LEMMA EndThreadStep ==
  ASSUME IInv, EndThread
  PROVE  IInv'
<1> USE DEF IInv, EndThread, Post
<1> DEFINE task == Task("destroyed")
<1>a. task \in ContextTask /\ task.kind = "destroyed"
  BY DEF Task, ContextTask
<1>b. /\ thread.at = "loop" /\ thread'.at = "ended" /\ thread'.script = thread.script
      /\ contextTasks' = Append(contextTasks, task) /\ UNCHANGED <<proxy, object, loop, killed, imported>>
  BY DEF TypeOK, ThreadOK
<1>c. proxy.askedToTerminate
  BY DEF KilledOnlyWhenAsked
<1> HIDE DEF Post, task
<1> USE TaskPosted
<1>1. TypeOK'
  <2>1. ProxyOK'
    BY DEF TypeOK, ProxyOK
  <2>2. ThreadOK'
    BY DEF TypeOK, ThreadOK
  <2>3. QueuesOK'
    BY <1>a, <1>b DEF TypeOK, QueuesOK
  <2>4. (messages \in Nat /\ events \in Nat)'
    BY DEF TypeOK
  <2> QED BY <2>1, <2>2, <2>3, <2>4 DEF TypeOK
<1>2. ThreadAndProxy'
  BY <1>a, <1>b DEF TypeOK, ProxyOK, ThreadOK, ThreadAndProxy
<1>3. DestroyedLast'
  BY <1>a, <1>b DEF TypeOK, ThreadOK, DestroyedLast
<1>4. UnconfirmedCounted'
  BY <1>b, <1>c DEF TypeOK, ProxyOK, ThreadOK, UnconfirmedCounted, OnTheWay
<1>5. KilledOnlyWhenAsked'
  BY <1>b, <1>c DEF TypeOK, ProxyOK, ThreadOK, KilledOnlyWhenAsked
<1>6. ActivityReported'
  BY <1>b, <1>c DEF TypeOK, ProxyOK, ThreadOK, ActivityReported
<1> QED BY <1>1, <1>2, <1>3, <1>4, <1>5, <1>6

-----------------------------------------------------------------------------
(* The theorems.                                                           *)

\* The invariant holds at the start.
LEMMA InitIInv == Init => IInv
<1> SUFFICES ASSUME Init  PROVE IInv
  OBVIOUS
<1> USE DEF Init
<1>1. /\ proxy.hasThread = FALSE /\ proxy.deleted = FALSE /\ thread.at = "none"
      /\ thread.script = "none" /\ Len(contextTasks) = 0 /\ Len(loop) = 0
  OBVIOUS
<1>2. ProxyOK /\ ThreadOK
  BY DEF ProxyOK, ThreadOK
<1>3. QueuesOK /\ messages \in Nat /\ events \in Nat
  BY DEF QueuesOK
<1>4. ThreadAndProxy /\ DestroyedLast /\ UnconfirmedCounted
  BY <1>1 DEF ThreadAndProxy, DestroyedLast, UnconfirmedCounted
<1>5. KilledOnlyWhenAsked /\ ActivityReported
  BY <1>1 DEF KilledOnlyWhenAsked, ActivityReported, ReportFirst
<1> QED BY <1>2, <1>3, <1>4, <1>5 DEF IInv, TypeOK

\* Every step keeps it.
LEMMA NextIInv == IInv /\ [Next]_vars => IInv'
<1> SUFFICES ASSUME IInv, [Next]_vars  PROVE IInv'
  OBVIOUS
<1>1. CASE NotifyFinished
  BY <1>1, NotStarted, StartWorkerContextStep DEF NotifyFinished
<1>2. CASE PostMessage \/ Terminate \/ WorkerObjectDestroyed
  BY <1>2, PostMessageStep, TerminateStep, CollectedWithThread, CollectedWithoutThread
<1>3. CASE PerformContextTask
  <2>1. \/ Head(contextTasks).kind \in {"message", "exception"}
        \/ Head(contextTasks).kind \in {"confirm", "report"}
        \/ Head(contextTasks).kind = "terminate"
        \/ Head(contextTasks).kind = "destroyed"
    BY <1>3 DEF PerformContextTask
  <2> QED BY <1>3, <2>1, SpokenTask, ReportTask, TerminateTask, DestroyedTask
<1>4. CASE CreateContext \/ ImportScripts \/ CloseContext \/ TimerFires \/ EndThread
  BY <1>4, CreateContextStep, ImportScriptsStep, CloseContextStep, TimerFiresStep, EndThreadStep
<1>5. CASE ScriptActs
  BY <1>5, ScriptSpeaks, ScriptChangesActivity DEF ScriptActs
<1>6. CASE EndScript
  BY <1>6, EndEvaluate, EndMessage, EndTimer DEF EndScript
<1>7. CASE PerformLoopTask
  BY <1>7, MessageTask, CloseTask, ShutdownStartTask, ShutdownFinishTask DEF PerformLoopTask
<1>8. CASE UNCHANGED vars
  BY <1>8 DEF vars, IInv, TypeOK, ProxyOK, ThreadOK, QueuesOK, ThreadAndProxy, DestroyedLast,
     UnconfirmedCounted, OnTheWay, KilledOnlyWhenAsked, ActivityReported
<1> QED BY <1>1, <1>2, <1>3, <1>4, <1>5, <1>6, <1>7, <1>8 DEF Next, WorkerStep

\* The invariant of the worker and its proxy.
THEOREM Invariance == Spec => []IInv
BY InitIInv, NextIInv, PTL DEF Spec

\* No task and no thread is left that could use a deleted proxy, the task that
\* deletes it is the last one, and m_unconfirmedMessageCount is exact until the
\* worker closes, for any number of messages and tasks under way.
THEOREM ProxyInvariantHolds == Spec => []ProxyInvariant
<1>1. IInv => ProxyInvariant
  <2> SUFFICES ASSUME IInv  PROVE ProxyInvariant
    OBVIOUS
  <2> USE DEF IInv
  <2>1. proxy.deleted => object = "gone" /\ contextTasks = <<>> /\ thread.at \in {"none", "ended"}
    BY DEF ThreadAndProxy, TypeOK, ThreadOK
  <2>2. DOMAIN contextTasks = 1..Len(contextTasks)
    BY LenProperties DEF TypeOK, QueuesOK
  <2>3. ProxyOutlivesUsers
    BY <2>1, <2>2 DEF ProxyOutlivesUsers, DestroyedLast
  <2> QED BY <2>3 DEF ProxyInvariant
<1> QED BY <1>1, Invariance, PTL

\* The garbage collector takes a Worker object only when its worker is idle for
\* good and nothing is on its way to the object (importScripts excepted).
THEOREM CollectedOnlyWhenIdleHolds == Spec => []CollectedOnlyWhenIdle
<1>1. IInv => CollectedOnlyWhenIdle
  <2> SUFFICES ASSUME IInv, proxy.hasThread, ~proxy.askedToTerminate, ~HasPendingActivity, ~imported
               PROVE  /\ thread.at = "loop" /\ ~thread.active
                      /\ \A i \in DOMAIN loop : loop[i] # "message"
                      /\ \A i \in DOMAIN contextTasks : contextTasks[i].kind \notin {"message", "exception"}
    BY DEF CollectedOnlyWhenIdle
  <2> USE DEF IInv
  <2>1. contextTasks \in Seq(ContextTask) /\ loop \in Seq(LoopTask) /\ proxy.unconfirmed \in Nat
    BY DEF TypeOK, QueuesOK, ProxyOK
  <2>2. proxy.unconfirmed = 0 /\ ~proxy.hadPendingActivity
    BY <2>1 DEF HasPendingActivity
  <2>3. /\ Count(loop, {"message"}) = 0 /\ Count(contextTasks, Confirmations) = 0
        /\ thread.script # "message"
    <3>1. Count(loop, {"message"}) \in Nat /\ Count(contextTasks, Confirmations) \in Nat
      BY <2>1, LoopQueue, ConfirmationsCounted
    <3> QED BY <2>2, <3>1 DEF UnconfirmedCounted, OnTheWay
  <2>4. \A i \in 1..Len(loop) : loop[i] # "message"
    BY <2>1, <2>3, LoopQueue
  <2>5. \A i \in 1..Len(contextTasks) : ~IsReport(contextTasks[i])
    <3>1. \A i \in 1..Len(contextTasks) : contextTasks[i].kind # "confirm"
      BY <2>1, <2>3, ConfirmationsCounted
    <3>2. \A i \in 1..Len(contextTasks) : contextTasks[i].kind # "report"
      BY <2>2 DEF ActivityReported, ReportFirst
    <3> QED BY <3>1, <3>2 DEF IsReport
  <2>6. Len(contextTasks) \in Nat
    BY <2>1, LenProperties
  <2>7. \A n \in 0..Len(contextTasks) : ~Known(contextTasks, proxy.hadPendingActivity, n)
    BY <2>2, <2>5, <2>6 DEF Known
  <2>8. thread.at = "loop" /\ ~thread.active
    BY <2>2, <2>3, <2>6, <2>7 DEF ActivityReported, KilledOnlyWhenAsked, ThreadAndProxy, TypeOK, ThreadOK
  <2>9. ASSUME NEW i \in 1..Len(contextTasks)  PROVE ~Speaks(contextTasks[i])
    <3>1. ~Covered(contextTasks, proxy.hadPendingActivity, i)
      BY <2>5, <2>6, <2>7 DEF Covered, IsReport
    <3> QED BY <2>3, <3>1 DEF ActivityReported
  <2>10. DOMAIN contextTasks = 1..Len(contextTasks) /\ DOMAIN loop = 1..Len(loop)
    BY <2>1, LenProperties
  <2> QED BY <2>4, <2>8, <2>9, <2>10 DEF Speaks
<1> QED BY <1>1, Invariance, PTL
=============================================================================
