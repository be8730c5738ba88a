-------------------------- MODULE WebDatabaseProofs --------------------------
(***************************************************************************)
(* Proofs about WebDatabase, for any number of handles, transactions and   *)
(* statements, any callbacks and any requests.                             *)
(***************************************************************************)
EXTENDS WebDatabase, CoordinationInfoProofs, FiniteSetTheorems, FunctionTheorems, TLAPS

-----------------------------------------------------------------------------
(* The inductive invariant: one transaction object.                        *)

Steps == DatabaseSteps \cup ContextSteps \cup {"none"}

Statements ==
  [callback: BOOLEAN, errorCallback: BOOLEAN, error: {"null", "none", "quota", "other"}, handled: BOOLEAN]

\* Statements that have not been run.
NewStatements ==
  [callback: BOOLEAN, errorCallback: BOOLEAN, error: {"none", "other"}, handled: {FALSE}]

\* What a transaction may have done, at any time.
Histories == {{}, {"errorCallback"}, {"committed"}, {"committed", "successCallback"}}

SQLTransactions ==
  [nextStep: Steps, lockAcquired: BOOLEAN, sqlite: {"none", "inProgress", "rolledBack", "ended"},
   statements: Seq(NewStatements), current: Statements, retry: BOOLEAN, callback: BOOLEAN,
   errorCallback: BOOLEAN, successCallback: BOOLEAN,
   error: {"none", "deleted", "open", "postflight", "commit", "statement", "callback"},
   increases: Nat, happened: Histories]

\* The steps while SQLite has a transaction.
RunningSteps ==
  {"deliverTransactionCallback", "runStatements", "deliverStatementCallback", "deliverQuotaIncreaseCallback"}

\* What has happened, and how the current statement is, when m_nextStep is set.
RecordOK(x) ==
  /\ x \in SQLTransactions
  /\ x.nextStep \in FirstSteps => x.sqlite = "none" /\ x.statements = << >> /\ x.current = NoStatement /\ ~x.retry
  /\ x.nextStep \in FirstSteps \cup RunningSteps => x.happened = {} /\ x.error = "none"
  /\ x.nextStep = "deliverTransactionErrorCallback" => x.happened = {}
  /\ x.nextStep = "cleanupAfterTransactionErrorCallback" => x.happened \in {{}, {"errorCallback"}}
  /\ x.nextStep = "deliverSuccessCallback" => x.happened = {"committed"}
  /\ x.nextStep = "cleanupAfterSuccessCallback" => "committed" \in x.happened
  /\ x.nextStep \in {"deliverTransactionCallback", "deliverStatementCallback"} => ~x.retry
  /\ \/ x.nextStep = "deliverQuotaIncreaseCallback"
     \/ x.nextStep = "runStatements" /\ x.retry
     => x.current.error = "quota" /\ ~x.current.handled
  /\ x.error = "statement" /\ x.current.handled => x.current.error = "quota"

\* SQLite has the transaction that statements run in; it may have given it up
\* only together with the statement that is looked at next.
SqliteFits(x) ==
  x.nextStep \in RunningSteps =>
    \/ x.sqlite = "inProgress"
    \/ /\ x.sqlite = "rolledBack" /\ x.current.error = "quota"
       /\ x.nextStep \in {"runStatements", "deliverQuotaIncreaseCallback"}

\* The places where a transaction may be, and the steps it waits for there.
Places == {"handle", "pending", "db", "loop", "ctx", "script"}

Fits(p, step) ==
  /\ p \in {"handle", "pending"} => step = "acquireLock"
  /\ p = "db" => step \in DatabaseSteps \ {"postflightAndCommit"}
  /\ p = "loop" => step = "runStatements"
  /\ p = "ctx" => step \in ContextSteps
  /\ p = "script" => step \in {"deliverTransactionCallback", "deliverStatementCallback"}

\* A transaction x that is in the places P: it is in one place, which fits its
\* next step; it has the lock from lockAcquired() to its end, and an SQLite
\* transaction only then.  Only on a stopped handle may it get stuck.
Life(x, P, active, stopped, down) ==
  /\ RecordOK(x)
  /\ \A p, q \in P : p = q
  /\ \A p \in P : Fits(p, x.nextStep)
  /\ x.nextStep = "acquireLock" => ~x.lockAcquired /\ ~active
  /\ x.nextStep \notin {"acquireLock", "none"} =>
       x.lockAcquired /\ (active \/ down) /\ (P # {} \/ stopped)
  /\ x.nextStep = "none" => stopped \/ (x.sqlite = "none" /\ ~active)
  /\ x.sqlite # "none" => active
  /\ ~down => SqliteFits(x)
  /\ down => ~active

-----------------------------------------------------------------------------
(* The inductive invariant: handles, queues and threads.                   *)

InHandle(t) == t \in ToSet(handle[HandleOf(t)].transactionQueue)
InPending(t) == t \in Pending(InfoFor(NameOf(HandleOf(t))))
InDb(t) == \E task \in ToSet(dbQueue) : task.transaction = t
InLoop(t) == dbThread.at = "runStatements" /\ dbThread.transaction = t
InCtx(t) == t \in ToSet(ctxQueue)
InScript(t) == ctxThread = t

PlacesOf(t) ==
  {p \in Places : \/ p = "handle" /\ InHandle(t)
                  \/ p = "pending" /\ InPending(t)
                  \/ p = "db" /\ InDb(t)
                  \/ p = "loop" /\ InLoop(t)
                  \/ p = "ctx" /\ InCtx(t)
                  \/ p = "script" /\ InScript(t)}

IsActive(t) == t \in Active(InfoFor(NameOf(HandleOf(t))))

\* The coordinator has been shut down.
Closing == dbThread.at \in {"unschedule", "unregister"}
Down == dbThread.at \in {"exit", "ended"} \/ (Closing /\ dbThread.then = "exit")

LifeOf(t) == Life(txn[t], PlacesOf(t), IsActive(t), Stopped(HandleOf(t)), Down)
Lives == \A t \in Created : LifeOf(t)

\* A sequence without duplicates.
Distinct(s) == \A i, j \in DOMAIN s : s[i] = s[j] => i = j

Databases ==
  [opening: BOOLEAN, opened: BOOLEAN, returned: BOOLEAN, registered: BOOLEAN, deleted: BOOLEAN,
   interrupted: BOOLEAN, transactionInProgress: BOOLEAN, transactionQueueEnabled: BOOLEAN,
   transactionQueue: Seq(Transactions)]

\* An open database is recorded, or put aside to be closed, and scripts have
\* it; transactions wait on their own handle, once.
HandleOK(h) ==
  /\ handle[h].opened => handle[h].returned /\ h \in openDatabaseSet \cup openSetCopy
  /\ handle[h].opening => ~handle[h].returned
  /\ Distinct(handle[h].transactionQueue)
  /\ \A t \in ToSet(handle[h].transactionQueue) : t \in Created /\ HandleOf(t) = h

HandlesOK ==
  /\ DOMAIN handle \subseteq Handles /\ handle \in [DOMAIN handle -> Databases]
  /\ openDatabaseSet \subseteq DOMAIN handle /\ openSetCopy \subseteq DOMAIN handle
  /\ \A h \in DOMAIN handle : HandleOK(h)

TransactionsOK ==
  /\ Created \subseteq Transactions /\ txn \in [Created -> SQLTransactions]
  /\ \A t \in Created : HandleOf(t) \in DOMAIN handle /\ handle[HandleOf(t)].returned

Tasks ==
  [kind: {"open", "close", "tableNames", "transaction"}, handle: DOMAIN handle,
   transaction: Created \cup {NoTransaction}, synchronizer: Threads \cup {"none"}]

TaskOK(task) ==
  /\ task.kind = "transaction" => /\ task.transaction \in Created
                                  /\ task.handle = HandleOf(task.transaction)
                                  /\ task.synchronizer = "none"
  /\ task.kind # "transaction" => task.transaction = NoTransaction
  /\ task.kind = "open" => /\ ~handle[task.handle].returned /\ ~handle[task.handle].opening
                           /\ task.synchronizer = "context"

\* Two tasks that must not both be queued.
Same(a, b) ==
  a.kind \in {"open", "transaction"} /\ a.kind = b.kind /\ a.handle = b.handle /\ a.transaction = b.transaction
NoTwins(queue) == \A i, j \in DOMAIN queue : Same(queue[i], queue[j]) => i = j

QueuesOK ==
  /\ dbQueue \in Seq(Tasks) /\ NoTwins(dbQueue)
  /\ \A task \in ToSet(dbQueue) : TaskOK(task)
  /\ ctxQueue \in Seq(Created) /\ Distinct(ctxQueue)
  /\ ctxThread \in Created \cup {NoTransaction}

ThreadsOK ==
  /\ \/ dbThread \in [at: {"loop", "exit", "ended"}]
     \/ dbThread \in [at: {"runStatements", "return"}, transaction: Created]
     \/ dbThread \in [at: {"unschedule", "unregister"}, handle: DOMAIN handle,
                      synchronizer: Threads \cup {"none"}, then: {"loop", "exit"}]
  /\ Closing => ~handle[dbThread.handle].opened
  /\ Down => killed /\ openDatabaseSet = {}
  /\ ~Down \/ dbThread.at = "ended" => openSetCopy = {}
  /\ killed \in BOOLEAN
  /\ sync \in [Threads -> {"none", "waiting", "completed"}]

\* The entry of a name is right and has transactions on databases of that name.
InfoOK(n, info) ==
  /\ info \in CoordinationInfos /\ ExclusiveInfo(info) /\ DistinctInfo(info)
  /\ \A t \in Pending(info) \cup Active(info) : t \in Created /\ NameOf(HandleOf(t)) = n

CoordinatorOK ==
  /\ \A n \in DOMAIN coordinationInfoMap : InfoOK(n, coordinationInfoMap[n])
  /\ Down => DOMAIN coordinationInfoMap = {}

\* deleteDatabase closes handles of this context.
DeletionOK ==
  deletion \in [name: {NameOf(h) : h \in Handles} \cup {"none"},
                handles: SUBSET DOMAIN handle, checked: SUBSET DOMAIN handle]

\* Taken off the handle's queue, and not known to have ended.
Started(t) ==
  /\ ~InHandle(t)
  /\ txn[t].nextStep # "none" \/ (dbThread.at = "return" /\ dbThread.transaction = t)

\* A handle that was not stopped has one transaction in progress, and a
\* connection has one SQLite transaction.
OneStarted ==
  \A t, u \in Created :
    HandleOf(t) = HandleOf(u) /\ ~Stopped(HandleOf(t)) /\ Started(t) /\ Started(u) => t = u
StartedInProgress ==
  \A t \in Created :
    ~Stopped(HandleOf(t)) /\ Started(t) => handle[HandleOf(t)].transactionInProgress
OneOpen ==
  \A t, u \in Created :
    HandleOf(t) = HandleOf(u) /\ txn[t].sqlite # "none" /\ txn[u].sqlite # "none" => t = u

OneAtATime == OneStarted /\ StartedInProgress /\ OneOpen

IInv ==
  /\ HandlesOK /\ TransactionsOK /\ QueuesOK /\ ThreadsOK /\ CoordinatorOK /\ DeletionOK
  /\ Lives /\ OneAtATime

-----------------------------------------------------------------------------
(* Queues                                                                  *)

\* The first element of a queue, and the queue behind it.
LEMMA TailOfQueue ==
  ASSUME NEW T, NEW q \in Seq(T), q # << >>
  PROVE  /\ Head(q) \in T /\ Head(q) \in ToSet(q) /\ Tail(q) \in Seq(T)
         /\ ToSet(q) = ToSet(Tail(q)) \cup {Head(q)}
         /\ NoTwins(q) => NoTwins(Tail(q)) /\ \A a \in ToSet(Tail(q)) : ~Same(a, Head(q))
         /\ Distinct(q) => Distinct(Tail(q)) /\ Head(q) \notin ToSet(Tail(q))
<1>1. /\ Len(q) \in Nat \ {0} /\ DOMAIN q = 1..Len(q) /\ DOMAIN Tail(q) = 1..(Len(q) - 1)
      /\ Head(q) = q[1] /\ Tail(q) \in Seq(T)
      /\ \A i \in 1..(Len(q) - 1) : Tail(q)[i] = q[i + 1]
  OBVIOUS
<1>2. Head(q) \in T
  OBVIOUS
<1>3. \A a : a \in ToSet(q) <=> \E i \in 1..Len(q) : q[i] = a
  BY <1>1 DEF ToSet
<1>4. \A a : a \in ToSet(Tail(q)) <=> \E i \in 1..(Len(q) - 1) : q[i + 1] = a
  BY <1>1 DEF ToSet
<1>5. \A i \in 1..Len(q) : i = 1 \/ (i - 1 \in 1..(Len(q) - 1) /\ (i - 1) + 1 = i)
  BY <1>1
<1>6. \A i \in 1..(Len(q) - 1) : i + 1 \in 1..Len(q) /\ i + 1 # 1
  BY <1>1
<1>7. 1 \in 1..Len(q)
  BY <1>1
<1>8. ToSet(q) = ToSet(Tail(q)) \cup {Head(q)}
  <2>1. ASSUME NEW a \in ToSet(q)  PROVE a \in ToSet(Tail(q)) \cup {Head(q)}
    <3>1. PICK i \in 1..Len(q) : q[i] = a
      BY <1>3
    <3> QED BY <3>1, <1>1, <1>4, <1>5
  <2>2. ToSet(Tail(q)) \cup {Head(q)} \subseteq ToSet(q)
    BY <1>1, <1>3, <1>4, <1>6, <1>7
  <2> QED BY <2>1, <2>2
<1>9. ASSUME NoTwins(q)  PROVE NoTwins(Tail(q)) /\ \A a \in ToSet(Tail(q)) : ~Same(a, Head(q))
  <2>1. \A i, j \in 1..Len(q) : Same(q[i], q[j]) => i = j
    BY <1>1, <1>9 DEF NoTwins
  <2>2. NoTwins(Tail(q))
    <3> SUFFICES ASSUME NEW i \in 1..(Len(q) - 1), NEW j \in 1..(Len(q) - 1), Same(Tail(q)[i], Tail(q)[j])
                 PROVE  i = j
      BY <1>1 DEF NoTwins
    <3>1. i + 1 = j + 1
      BY <2>1, <1>1, <1>6
    <3> QED BY <3>1
  <2>3. \A a \in ToSet(Tail(q)) : ~Same(a, Head(q))
    BY <2>1, <1>1, <1>4, <1>6, <1>7
  <2> QED BY <2>2, <2>3
<1>10. ASSUME Distinct(q)  PROVE Distinct(Tail(q)) /\ Head(q) \notin ToSet(Tail(q))
  <2>1. \A i, j \in 1..Len(q) : q[i] = q[j] => i = j
    BY <1>1, <1>10 DEF Distinct
  <2>2. Distinct(Tail(q))
    <3> SUFFICES ASSUME NEW i \in 1..(Len(q) - 1), NEW j \in 1..(Len(q) - 1), Tail(q)[i] = Tail(q)[j]
                 PROVE  i = j
      BY <1>1 DEF Distinct
    <3>1. i + 1 = j + 1
      BY <2>1, <1>1, <1>6
    <3> QED BY <3>1
  <2>3. Head(q) \notin ToSet(Tail(q))
    BY <2>1, <1>1, <1>4, <1>6, <1>7
  <2> QED BY <2>2, <2>3
<1> QED BY <1>1, <1>2, <1>3, <1>7, <1>8, <1>9, <1>10

\* A queue behind a queue.
LEMMA JoinedQueues ==
  ASSUME NEW T, NEW p \in Seq(T), NEW q \in Seq(T)
  PROVE  /\ p \o q \in Seq(T) /\ ToSet(p \o q) = ToSet(p) \cup ToSet(q)
         /\ NoTwins(p) /\ NoTwins(q) /\ (\A a \in ToSet(p), b \in ToSet(q) : ~Same(a, b) /\ ~Same(b, a))
              => NoTwins(p \o q)
         /\ Distinct(p) /\ Distinct(q) /\ ToSet(p) \cap ToSet(q) = {} => Distinct(p \o q)
<1> DEFINE m == Len(p)
           n == Len(q)
           r == p \o q
<1>1. /\ m \in Nat /\ n \in Nat /\ DOMAIN p = 1..m /\ DOMAIN q = 1..n /\ DOMAIN r = 1..(m + n)
      /\ r \in Seq(T)
      /\ \A i \in 1..m : r[i] = p[i]
      /\ \A i \in 1..(m + n) : i > m => r[i] = q[i - m]
  OBVIOUS
<1> HIDE DEF m, n, r
<1>2. \A i \in 1..(m + n) : i \in 1..m \/ (i > m /\ i - m \in 1..n)
  BY <1>1
<1>3. /\ \A i \in 1..m : i \in 1..(m + n)
      /\ \A i \in 1..n : i + m \in 1..(m + n) /\ i + m > m /\ (i + m) - m = i
  BY <1>1
<1>4. \A i \in 1..(m + n) : \/ i \in 1..m /\ r[i] = p[i] /\ r[i] \in ToSet(p)
                            \/ i > m /\ i - m \in 1..n /\ r[i] = q[i - m] /\ r[i] \in ToSet(q)
  BY <1>1, <1>2 DEF ToSet
<1>5. ToSet(r) = ToSet(p) \cup ToSet(q)
  <2>1. ToSet(r) \subseteq ToSet(p) \cup ToSet(q)
    BY <1>1, <1>4 DEF ToSet
  <2>2. \A i \in 1..m : p[i] \in ToSet(r)
    BY <1>1, <1>3 DEF ToSet
  <2>3. ASSUME NEW i \in 1..n  PROVE q[i] \in ToSet(r)
    <3>1. i + m \in DOMAIN r /\ r[i + m] = q[i]
      BY <1>1, <1>3
    <3> QED BY <3>1 DEF ToSet
  <2>4. ToSet(p) \subseteq ToSet(r) /\ ToSet(q) \subseteq ToSet(r)
    BY <1>1, <2>2, <2>3 DEF ToSet
  <2> QED BY <2>1, <2>4
<1>6. ASSUME NoTwins(p), NoTwins(q), \A a \in ToSet(p), b \in ToSet(q) : ~Same(a, b) /\ ~Same(b, a)
      PROVE  NoTwins(r)
  <2> SUFFICES ASSUME NEW i \in 1..(m + n), NEW j \in 1..(m + n), Same(r[i], r[j])  PROVE i = j
    BY <1>1 DEF NoTwins
  <2>1. CASE i \in 1..m /\ j \in 1..m
    BY <2>1, <1>1, <1>6 DEF NoTwins
  <2>2. CASE i > m /\ j > m
    <3>1. i - m \in DOMAIN q /\ j - m \in DOMAIN q /\ Same(q[i - m], q[j - m])
      BY <2>2, <1>1, <1>2
    <3>2. i - m = j - m
      BY <3>1, <1>6 DEF NoTwins
    <3> QED BY <3>2, <1>1
  <2>3. ~(i \in 1..m /\ j > m) /\ ~(i > m /\ j \in 1..m)
    BY <1>1, <1>4, <1>6
  <2> QED BY <2>1, <2>2, <2>3, <1>2
<1>7. ASSUME Distinct(p), Distinct(q), ToSet(p) \cap ToSet(q) = {}
      PROVE  Distinct(r)
  <2> SUFFICES ASSUME NEW i \in 1..(m + n), NEW j \in 1..(m + n), r[i] = r[j]  PROVE i = j
    BY <1>1 DEF Distinct
  <2>1. CASE i \in 1..m /\ j \in 1..m
    BY <2>1, <1>1, <1>7 DEF Distinct
  <2>2. CASE i > m /\ j > m
    <3>1. i - m \in DOMAIN q /\ j - m \in DOMAIN q /\ q[i - m] = q[j - m]
      BY <2>2, <1>1, <1>2
    <3>2. i - m = j - m
      BY <3>1, <1>7 DEF Distinct
    <3> QED BY <3>2, <1>1
  <2>3. ~(i \in 1..m /\ j > m) /\ ~(i > m /\ j \in 1..m)
    BY <1>1, <1>4, <1>7
  <2> QED BY <2>1, <2>2, <2>3, <1>2
<1> QED BY <1>1, <1>5, <1>6, <1>7 DEF r

\* A queue of one element, and an empty one.
LEMMA SingleQueue ==
  ASSUME NEW T, NEW a \in T
  PROVE  /\ <<a>> \in Seq(T) /\ ToSet(<<a>>) = {a} /\ NoTwins(<<a>>) /\ Distinct(<<a>>)
         /\ << >> \in Seq(T) /\ ToSet(<< >>) = {} /\ NoTwins(<< >>) /\ Distinct(<< >>)
<1>1. <<a>> \in Seq(T) /\ DOMAIN <<a>> = {1} /\ <<a>>[1] = a
  OBVIOUS
<1>2. << >> \in Seq(T) /\ DOMAIN << >> = {}
  OBVIOUS
<1> QED BY <1>1, <1>2 DEF ToSet, NoTwins, Distinct

\* unscheduleDatabaseTasks leaves the tasks of other databases.
LEMMA TasksOfOthersProperties ==
  ASSUME NEW T, NEW q \in Seq(T), NEW h
  PROVE  LET rest == TasksOfOthers(q, h) IN
         /\ rest \in Seq(T)
         /\ ToSet(rest) = {a \in ToSet(q) : a.handle # h}
         /\ NoTwins(q) => NoTwins(rest)
<1> DEFINE kept == {i \in DOMAIN q : q[i].handle # h}
           Upto(i) == {j \in kept : j <= i}
           Rank(i) == Cardinality(Upto(i))
           n == Cardinality(kept)
           rest == TasksOfOthers(q, h)
           At(k) == CHOOSE i \in kept : Rank(i) = k
<1>1. Len(q) \in Nat /\ DOMAIN q = 1..Len(q) /\ \A i \in DOMAIN q : q[i] \in T
  OBVIOUS
<1>2. IsFiniteSet(kept) /\ n \in Nat
  <2>1. kept \in SUBSET (1..Len(q)) /\ IsFiniteSet(1..Len(q))
    BY <1>1, FS_Interval
  <2> HIDE DEF kept
  <2>2. IsFiniteSet(kept)
    BY <2>1, FS_Subset
  <2> QED BY <2>2, FS_CardinalityType
<1>3. kept \subseteq Nat
  BY <1>1
<1>r. rest = [k \in 1..n |-> q[At(k)]]
  BY DEF TasksOfOthers
<1>k. \A i : i \in kept <=> i \in DOMAIN q /\ q[i].handle # h
  OBVIOUS
<1> HIDE DEF kept, rest
<1>4. ASSUME NEW i \in kept  PROVE /\ IsFiniteSet(Upto(i)) /\ Rank(i) \in 1..n /\ Upto(i) \subseteq kept
  <2>1. Upto(i) \in SUBSET kept /\ i \in Upto(i)
    BY <1>3
  <2> HIDE DEF Upto
  <2>2. IsFiniteSet(Upto(i)) /\ Cardinality(Upto(i)) <= n
    BY <1>2, <2>1, FS_Subset
  <2>3. Cardinality(Upto(i)) \in Nat /\ Cardinality(Upto(i)) # 0
    BY <2>1, <2>2, FS_CardinalityType, FS_EmptySet
  <2> QED BY <2>1, <2>2, <2>3, <1>2
<1>5. ASSUME NEW i \in kept, NEW j \in kept, i < j  PROVE Rank(i) < Rank(j)
  <2>1. Upto(i) \in SUBSET Upto(j) /\ j \in Upto(j) /\ j \notin Upto(i)
    <3>1. i \in Nat /\ j \in Nat /\ \A k \in kept : k \in Nat
      BY <1>3
    <3>2. \A k \in kept : k <= i => k <= j
      BY <3>1, <1>5
    <3>3. j <= j /\ ~(j <= i)
      BY <3>1, <1>5
    <3> QED BY <3>2, <3>3
  <2>2. IsFiniteSet(Upto(j)) /\ Rank(i) \in Nat /\ Rank(j) \in Nat
    <3> HIDE DEF Upto, Rank, n
    <3> QED BY <1>2, <1>4
  <2> HIDE DEF Upto
  <2>3. Cardinality(Upto(i)) <= Cardinality(Upto(j)) /\ Cardinality(Upto(i)) # Cardinality(Upto(j))
    BY <2>1, <2>2, FS_Subset
  <2> QED BY <2>2, <2>3
<1>6. \A i, j \in kept : Rank(i) = Rank(j) => i = j
  <2> SUFFICES ASSUME NEW i \in kept, NEW j \in kept, Rank(i) = Rank(j), i # j  PROVE FALSE
    OBVIOUS
  <2>1. i < j \/ j < i
    BY <1>3
  <2>2. Rank(i) \in Nat /\ Rank(j) \in Nat
    <3> HIDE DEF Upto, Rank, n
    <3>1. Rank(i) \in 1..n /\ Rank(j) \in 1..n
      BY <1>4
    <3> QED BY <3>1, <1>2
  <2> HIDE DEF Rank
  <2> QED BY <1>5, <2>1, <2>2
<1>7. \A k \in 1..n : \E i \in kept : Rank(i) = k
  <2> DEFINE f == [i \in kept |-> Rank(i)]
  <2>1. f \in [kept -> 1..n]
    BY <1>4
  <2>2. \A i, j \in kept : f[i] = f[j] => i = j
    BY <1>6
  <2>5. \A i \in kept : f[i] = Rank(i)
    OBVIOUS
  <2> HIDE DEF f, Rank
  <2>3. f \in Injection(kept, 1..n)
    BY <2>1, <2>2, Fun_IsInj
  <2>4. IsFiniteSet(1..n) /\ Cardinality(1..n) = n
    BY <1>2, FS_Interval
  <2>6. f \in Surjection(kept, 1..n)
    BY <2>3, <2>4, FS_Injection DEF n
  <2> QED BY <2>5, <2>6 DEF Surjection
<1>8. \A k \in 1..n : At(k) \in kept /\ Rank(At(k)) = k
  <2> HIDE DEF Rank
  <2> QED BY <1>7
<1>9. \A i \in kept : Rank(i) \in 1..n /\ At(Rank(i)) = i
  <2>1. \A i \in kept : Rank(i) \in 1..n
    BY <1>4
  <2>2. \A i \in kept : At(Rank(i)) \in kept /\ Rank(At(Rank(i))) = Rank(i)
    <3> HIDE DEF Rank, At
    <3> QED BY <2>1, <1>8
  <2> HIDE DEF Rank, At
  <2> QED BY <1>6, <2>1, <2>2
<1> HIDE DEF At, Rank
<1>10. DOMAIN rest = 1..n /\ \A k \in 1..n : rest[k] = q[At(k)] /\ At(k) \in kept
  BY <1>r, <1>8
<1>11. rest \in Seq(T)
  <2>1. rest \in [1..n -> T]
    BY <1>r, <1>8, <1>k, <1>1
  <2> HIDE DEF n
  <2> QED BY <2>1, <1>2
<1>12. ToSet(rest) = {a \in ToSet(q) : a.handle # h}
  <2>1. \A k \in 1..n : rest[k] \in ToSet(q) /\ rest[k].handle # h
    BY <1>10, <1>k DEF ToSet
  <2>2. ToSet(rest) \subseteq {a \in ToSet(q) : a.handle # h}
    BY <2>1, <1>10 DEF ToSet
  <2>3. ASSUME NEW i \in DOMAIN q, q[i].handle # h  PROVE q[i] \in ToSet(rest)
    <3>1. i \in kept
      BY <1>k, <2>3
    <3>2. Rank(i) \in 1..n /\ rest[Rank(i)] = q[i]
      BY <3>1, <1>9, <1>10
    <3> QED BY <3>2, <1>10 DEF ToSet
  <2>4. {a \in ToSet(q) : a.handle # h} \subseteq ToSet(rest)
    BY <2>3 DEF ToSet
  <2> QED BY <2>2, <2>4
<1>13. ASSUME NoTwins(q)  PROVE NoTwins(rest)
  <2> SUFFICES ASSUME NEW k \in 1..n, NEW l \in 1..n, Same(rest[k], rest[l])  PROVE k = l
    BY <1>10 DEF NoTwins
  <2>1. At(k) = At(l)
    BY <1>10, <1>13, <1>k DEF NoTwins
  <2> QED BY <2>1, <1>8
<1> QED BY <1>11, <1>12, <1>13 DEF rest

-----------------------------------------------------------------------------
(* Steps of one transaction                                                *)

Errors == {"deleted", "open", "postflight", "commit", "statement", "callback"}

\* Where a transaction is after a step.
PlaceAfter(schedule) ==
  {p \in Places : \/ schedule = "callback" /\ p = "ctx"
                  \/ schedule = "step" /\ p = "db"
                  \/ schedule = "again" /\ p = "loop"}

\* What a step leaves, unless the handle is stopped, is a transaction with a
\* place to go, or one that has ended and gives back its lock.
OutcomeOK(o) ==
  /\ o.schedule \in {"callback", "step", "again", "none"} /\ o.release \in BOOLEAN
  /\ Life(o.txn, PlaceAfter(o.schedule), ~o.release, FALSE, FALSE)

\* An ended transaction.
LEMMA EndedLife ==
  ASSUME NEW x \in SQLTransactions, x.nextStep = "none", x.sqlite = "none",
         x.error = "statement" /\ x.current.handled => x.current.error = "quota"
  PROVE  /\ Life(x, {}, FALSE, FALSE, FALSE)
         /\ OutcomeOK([txn |-> x, schedule |-> "none", release |-> TRUE])
<1>1. Life(x, {}, FALSE, FALSE, FALSE)
  BY DEF Life, RecordOK, SqliteFits, FirstSteps, RunningSteps
<1>2. PlaceAfter("none") = {}
  BY DEF PlaceAfter
<1> QED BY <1>1, <1>2 DEF OutcomeOK

\* A transaction that is handed to a thread.
LEMMA ScheduledLife ==
  ASSUME NEW x \in SQLTransactions, RecordOK(x), SqliteFits(x), x.lockAcquired,
         NEW schedule \in {"callback", "step", "again"},
         schedule = "callback" => x.nextStep \in ContextSteps,
         schedule = "step" => x.nextStep \in DatabaseSteps \ {"acquireLock", "postflightAndCommit"},
         schedule = "again" => x.nextStep = "runStatements"
  PROVE  OutcomeOK([txn |-> x, schedule |-> schedule, release |-> FALSE])
<1>1. \A p : p \in PlaceAfter(schedule) <=> \/ schedule = "callback" /\ p = "ctx"
                                            \/ schedule = "step" /\ p = "db"
                                            \/ schedule = "again" /\ p = "loop"
  BY DEF PlaceAfter, Places
<1>2. PlaceAfter(schedule) # {} /\ \A p, q \in PlaceAfter(schedule) : p = q
  BY <1>1
<1>3. \A p \in PlaceAfter(schedule) : Fits(p, x.nextStep)
  BY <1>1 DEF Fits
<1>4. x.nextStep \notin {"acquireLock", "none"}
  BY DEF ContextSteps, DatabaseSteps
<1>5. Life(x, PlaceAfter(schedule), TRUE, FALSE, FALSE)
  BY <1>2, <1>3, <1>4 DEF Life
<1> QED BY <1>5 DEF OutcomeOK

\* cleanupAfterTransactionErrorCallback ends the transaction and releases the lock.
LEMMA CleanupAfterError ==
  ASSUME NEW x \in SQLTransactions,
         x.error = "statement" /\ x.current.handled => x.current.error = "quota"
  PROVE  OutcomeOK(CleanupAfterTransactionErrorCallback(x))
<1> DEFINE y == [x EXCEPT !.sqlite = "none", !.statements = << >>, !.nextStep = "none"]
<1>0. << >> \in Seq(NewStatements) /\ "none" \in Steps
  BY DEF Steps
<1>1. y \in SQLTransactions
  BY <1>0 DEF SQLTransactions
<1>2. y.nextStep = "none" /\ y.sqlite = "none" /\ y.error = x.error /\ y.current = x.current
  BY DEF SQLTransactions
<1> HIDE DEF y
<1>3. OutcomeOK([txn |-> y, schedule |-> "none", release |-> TRUE])
  BY <1>1, <1>2, EndedLife
<1> QED BY <1>3 DEF CleanupAfterTransactionErrorCallback, y

\* cleanupAfterSuccessCallback ends the transaction and releases the lock.
LEMMA CleanupAfterSuccess ==
  ASSUME NEW x \in SQLTransactions,
         x.error = "statement" /\ x.current.handled => x.current.error = "quota"
  PROVE  OutcomeOK(CleanupAfterSuccessCallback(x))
<1> DEFINE y == [x EXCEPT !.sqlite = "none", !.nextStep = "none"]
<1>1. y \in SQLTransactions
  BY DEF SQLTransactions, Steps
<1>2. y.nextStep = "none" /\ y.sqlite = "none" /\ y.error = x.error /\ y.current = x.current
  BY DEF SQLTransactions
<1> HIDE DEF y
<1>3. OutcomeOK([txn |-> y, schedule |-> "none", release |-> TRUE])
  BY <1>1, <1>2, EndedLife
<1> QED BY <1>3 DEF CleanupAfterSuccessCallback, y

\* The error is reported on its thread, or the transaction ends at once.
LEMMA ErrorReported ==
  ASSUME NEW x \in SQLTransactions, x.lockAcquired, x.happened = {},
         x.error = "statement" /\ x.current.handled => x.current.error = "quota"
  PROVE  /\ OutcomeOK(DeliverTransactionErrorCallback(x))
         /\ DeliverTransactionErrorCallback(x).schedule = "step"
         /\ ~DeliverTransactionErrorCallback(x).release
         /\ DeliverTransactionErrorCallback(x).txn.sqlite = x.sqlite
<1> DEFINE step == "cleanupAfterTransactionErrorCallback"
           y == [x EXCEPT !.nextStep = step]
           z == [Record([x EXCEPT !.errorCallback = FALSE], "errorCallback") EXCEPT !.nextStep = step]
<1>1. y \in SQLTransactions
  BY DEF SQLTransactions, Steps, DatabaseSteps
<1>2. z \in SQLTransactions
  <2>1. [x EXCEPT !.errorCallback = FALSE] \in SQLTransactions /\ [x EXCEPT !.errorCallback = FALSE].happened = {}
    BY DEF SQLTransactions
  <2>2. \A w \in SQLTransactions : w.happened = {} => Record(w, "errorCallback") \in SQLTransactions
    <3> SUFFICES ASSUME NEW w \in SQLTransactions, w.happened = {}
                 PROVE  [w EXCEPT !.happened = @ \cup {"errorCallback"}] \in SQLTransactions
      BY DEF Record
    <3>1. w.happened \cup {"errorCallback"} \in Histories
      BY DEF Histories
    <3> QED BY <3>1 DEF SQLTransactions
  <2>3. \A w \in SQLTransactions : [w EXCEPT !.nextStep = step] \in SQLTransactions
    BY DEF SQLTransactions, Steps, DatabaseSteps
  <2> QED BY <2>1, <2>2, <2>3
<1>3. /\ y.nextStep = step /\ y.lockAcquired /\ y.happened = {} /\ y.error = x.error /\ y.current = x.current
      /\ y.sqlite = x.sqlite
  BY DEF SQLTransactions
<1>4. /\ z.nextStep = step /\ z.lockAcquired /\ z.happened = {"errorCallback"} /\ z.error = x.error
      /\ z.current = x.current /\ z.sqlite = x.sqlite
  BY DEF SQLTransactions, Record
<1> HIDE DEF y, z
<1>5. RecordOK(y) /\ SqliteFits(y)
  BY <1>1, <1>3 DEF RecordOK, SqliteFits, FirstSteps, RunningSteps
<1>6. RecordOK(z) /\ SqliteFits(z)
  BY <1>2, <1>4 DEF RecordOK, SqliteFits, FirstSteps, RunningSteps
<1>7. OutcomeOK([txn |-> y, schedule |-> "step", release |-> FALSE])
  BY <1>1, <1>3, <1>5, ScheduledLife DEF DatabaseSteps
<1>8. OutcomeOK([txn |-> z, schedule |-> "step", release |-> FALSE])
  BY <1>2, <1>4, <1>6, ScheduledLife DEF DatabaseSteps
<1>9. DeliverTransactionErrorCallback(x) = IF x.errorCallback THEN [txn |-> z, schedule |-> "step", release |-> FALSE]
                                                              ELSE [txn |-> y, schedule |-> "step", release |-> FALSE]
  BY DEF DeliverTransactionErrorCallback, ToDatabase, Outcome, y, z
<1> QED BY <1>3, <1>4, <1>7, <1>8, <1>9

\* handleTransactionError posts the error callback, or cleans up at once.
LEMMA ErrorHandled ==
  ASSUME NEW x \in SQLTransactions, x.lockAcquired, x.happened = {}, NEW why \in Errors, NEW inCallback \in BOOLEAN,
         why = "statement" /\ x.current.handled => x.current.error = "quota"
  PROVE  LET o == HandleTransactionError(x, why, inCallback) IN
         /\ OutcomeOK(o)
         /\ inCallback => o.schedule = "step" /\ ~o.release
         /\ o.txn.sqlite \in {x.sqlite, "none"}
<1> DEFINE y == [x EXCEPT !.error = why]
           context == [y EXCEPT !.nextStep = "deliverTransactionErrorCallback"]
           cleanup == [y EXCEPT !.nextStep = "cleanupAfterTransactionErrorCallback"]
<1>1. y \in SQLTransactions
  BY DEF SQLTransactions, Errors
<1>2. /\ y.lockAcquired /\ y.happened = {} /\ y.error = why /\ y.current = x.current /\ y.sqlite = x.sqlite
      /\ y.errorCallback = x.errorCallback
  BY DEF SQLTransactions
<1>3. HandleTransactionError(x, why, inCallback) =
        IF x.errorCallback
        THEN IF inCallback THEN DeliverTransactionErrorCallback(y)
             ELSE [txn |-> context, schedule |-> "callback", release |-> FALSE]
        ELSE IF inCallback THEN [txn |-> cleanup, schedule |-> "step", release |-> FALSE]
             ELSE CleanupAfterTransactionErrorCallback(y)
  BY DEF HandleTransactionError, ToContext, ToDatabase, Outcome
<1>4. context \in SQLTransactions /\ cleanup \in SQLTransactions
  <2> HIDE DEF y
  <2> QED BY <1>1 DEF SQLTransactions, Steps, DatabaseSteps, ContextSteps
<1>5. /\ context.nextStep = "deliverTransactionErrorCallback" /\ context.lockAcquired /\ context.happened = {}
      /\ context.error = why /\ context.current = x.current /\ context.sqlite = x.sqlite
      /\ cleanup.nextStep = "cleanupAfterTransactionErrorCallback" /\ cleanup.lockAcquired
      /\ cleanup.happened = {} /\ cleanup.error = why /\ cleanup.current = x.current /\ cleanup.sqlite = x.sqlite
  <2> HIDE DEF y
  <2> QED BY <1>1, <1>2 DEF SQLTransactions
<1> HIDE DEF context, cleanup
<1>6. RecordOK(context) /\ SqliteFits(context) /\ RecordOK(cleanup) /\ SqliteFits(cleanup)
  BY <1>4, <1>5 DEF RecordOK, SqliteFits, FirstSteps, RunningSteps
<1>7. OutcomeOK([txn |-> context, schedule |-> "callback", release |-> FALSE])
  BY <1>4, <1>5, <1>6, ScheduledLife DEF ContextSteps
<1>8. OutcomeOK([txn |-> cleanup, schedule |-> "step", release |-> FALSE])
  BY <1>4, <1>5, <1>6, ScheduledLife DEF DatabaseSteps
<1> HIDE DEF y
<1>9. OutcomeOK(CleanupAfterTransactionErrorCallback(y)) /\ CleanupAfterTransactionErrorCallback(y).txn.sqlite = "none"
  <2>1. CleanupAfterTransactionErrorCallback(y).txn.sqlite = "none"
    BY <1>1 DEF CleanupAfterTransactionErrorCallback, SQLTransactions
  <2> QED BY <2>1, <1>1, <1>2, CleanupAfterError
<1>10. /\ OutcomeOK(DeliverTransactionErrorCallback(y)) /\ DeliverTransactionErrorCallback(y).schedule = "step"
       /\ ~DeliverTransactionErrorCallback(y).release /\ DeliverTransactionErrorCallback(y).txn.sqlite = x.sqlite
  BY <1>1, <1>2, ErrorReported
<1> QED BY <1>3, <1>5, <1>7, <1>8, <1>9, <1>10

\* A transaction between two statements, on the database thread.
Running(x) ==
  /\ x \in SQLTransactions /\ x.lockAcquired /\ x.happened = {} /\ x.error = "none"
  /\ x.nextStep = "runStatements"

\* handleCurrentStatementError calls the statement back or fails the transaction.
LEMMA StatementErrorHandled ==
  ASSUME NEW x, Running(x), x.sqlite \in {"inProgress", "rolledBack"}, x.retry => x.sqlite = "rolledBack",
         x.current.handled => x.current.error = "quota"
  PROVE  OutcomeOK(HandleCurrentStatementError(x))
<1> USE DEF Running
<1>1. CASE x.current.errorCallback /\ x.sqlite # "rolledBack"
  <2> DEFINE y == [x EXCEPT !.nextStep = "deliverStatementCallback"]
  <2>1. y \in SQLTransactions
    BY DEF SQLTransactions, Steps, ContextSteps
  <2>2. /\ y.nextStep = "deliverStatementCallback" /\ y.lockAcquired /\ y.happened = {} /\ y.error = "none"
        /\ y.sqlite = "inProgress" /\ ~y.retry
    BY <1>1 DEF SQLTransactions
  <2> HIDE DEF y
  <2>3. RecordOK(y) /\ SqliteFits(y)
    BY <2>1, <2>2 DEF RecordOK, SqliteFits, FirstSteps, RunningSteps
  <2>4. OutcomeOK([txn |-> y, schedule |-> "callback", release |-> FALSE])
    BY <2>1, <2>2, <2>3, ScheduledLife DEF ContextSteps
  <2> QED BY <1>1, <2>4 DEF HandleCurrentStatementError, ToContext, Outcome, y
<1>2. CASE ~(x.current.errorCallback /\ x.sqlite # "rolledBack")
  <2>1. OutcomeOK(HandleTransactionError(x, "statement", FALSE))
    BY ErrorHandled DEF Errors
  <2> QED BY <1>2, <2>1 DEF HandleCurrentStatementError
<1> QED BY <1>1, <1>2

\* postflightAndCommit commits, or fails the transaction.
LEMMA Committed ==
  ASSUME NEW x, Running(x), NEW o \in PostflightAndCommit(x)
  PROVE  OutcomeOK(o)
<1> USE DEF Running
<1> DEFINE quiet == [x EXCEPT !.successCallback = FALSE]
           done == Record([x EXCEPT !.sqlite = "ended", !.errorCallback = FALSE], "committed")
           deliver == [done EXCEPT !.nextStep = "deliverSuccessCallback"]
<1>1. \/ o = HandleTransactionError(x, "postflight", FALSE)
      \/ o = HandleTransactionError(quiet, "commit", FALSE)
      \/ o = [txn |-> deliver, schedule |-> "callback", release |-> FALSE]
      \/ o = CleanupAfterSuccessCallback(done)
  BY DEF PostflightAndCommit, ToContext, Outcome
<1>2. OutcomeOK(HandleTransactionError(x, "postflight", FALSE))
  BY ErrorHandled DEF Errors
<1>3. quiet \in SQLTransactions /\ quiet.lockAcquired /\ quiet.happened = {}
  BY DEF SQLTransactions
<1>4. OutcomeOK(HandleTransactionError(quiet, "commit", FALSE))
  <2> HIDE DEF quiet
  <2> QED BY <1>3, ErrorHandled DEF Errors
<1>5. /\ done \in SQLTransactions /\ done.lockAcquired /\ done.happened = {"committed"} /\ done.error = "none"
      /\ done.current = x.current /\ done.sqlite = "ended"
  <2> DEFINE y == [x EXCEPT !.sqlite = "ended", !.errorCallback = FALSE]
  <2>1. /\ y \in SQLTransactions /\ y.lockAcquired /\ y.happened = {} /\ y.error = "none"
        /\ y.current = x.current /\ y.sqlite = "ended"
    BY DEF SQLTransactions
  <2>2. done = [y EXCEPT !.happened = {"committed"}]
    BY <2>1 DEF Record
  <2> HIDE DEF y, done
  <2>3. {"committed"} \in Histories
    BY DEF Histories
  <2> QED BY <2>1, <2>2, <2>3 DEF SQLTransactions
<1> HIDE DEF done
<1>6. OutcomeOK(CleanupAfterSuccessCallback(done))
  BY <1>5, CleanupAfterSuccess
<1>7. OutcomeOK([txn |-> deliver, schedule |-> "callback", release |-> FALSE])
  <2>1. deliver \in SQLTransactions
    BY <1>5 DEF SQLTransactions, Steps, ContextSteps
  <2>2. /\ deliver.nextStep = "deliverSuccessCallback" /\ deliver.lockAcquired
        /\ deliver.happened = {"committed"} /\ deliver.error = "none"
    BY <1>5 DEF SQLTransactions
  <2> HIDE DEF deliver
  <2>3. RecordOK(deliver) /\ SqliteFits(deliver)
    BY <2>1, <2>2 DEF RecordOK, SqliteFits, FirstSteps, RunningSteps
  <2> QED BY <2>1, <2>2, <2>3, ScheduledLife DEF ContextSteps
<1> QED BY <1>1, <1>2, <1>4, <1>6, <1>7

\* runCurrentStatement, whatever SQLite answers.
LEMMA StatementRun ==
  ASSUME NEW x, Running(x), x.sqlite = "inProgress", ~x.retry, ~x.current.handled,
         NEW o \in RunCurrentStatement(x)
  PROVE  OutcomeOK(o)
<1> DEFINE After(error, s) == [x EXCEPT !.current.error = error, !.sqlite = s]
           Deliver(error, s, step) == [After(error, s) EXCEPT !.nextStep = step]
<1>1. \A error \in {"none", "quota", "other"}, s \in {"inProgress", "rolledBack"} :
        LET y == After(error, s) IN
        Running(y) /\ y.current.error = error /\ y.sqlite = s /\ ~y.current.handled /\ ~y.retry
  <2> SUFFICES ASSUME NEW error \in {"none", "quota", "other"}, NEW s \in {"inProgress", "rolledBack"}
               PROVE  LET y == After(error, s) IN
                      Running(y) /\ y.current.error = error /\ y.sqlite = s /\ ~y.current.handled /\ ~y.retry
    OBVIOUS
  <2>a. PICK c : c = [x.current EXCEPT !.error = error]
    OBVIOUS
  <2>b. PICK y : y = [x EXCEPT !.current = c, !.sqlite = s]
    OBVIOUS
  <2>0. y = After(error, s)
    BY <2>a, <2>b
  <2> HIDE DEF After
  <2>1. Running(y) /\ y.current.error = error /\ y.sqlite = s /\ ~y.current.handled /\ ~y.retry
    <3>1. c \in Statements /\ c.error = error /\ c.handled = x.current.handled
      BY <2>a DEF Running, SQLTransactions, Statements
    <3>3. y \in SQLTransactions /\ y.current = c /\ y.sqlite = s /\ y.retry = x.retry
      BY <3>1, <2>b DEF Running, SQLTransactions
    <3>4. y.lockAcquired = x.lockAcquired /\ y.happened = x.happened /\ y.error = x.error /\ y.nextStep = x.nextStep
      BY <3>1, <2>b DEF Running, SQLTransactions
    <3>5. Running(y)
      BY <3>3, <3>4 DEF Running
    <3> QED BY <3>1, <3>3, <3>5
  <2> QED BY <2>0, <2>1, Zenon
<1>2. \/ o = HandleCurrentStatementError(x)
      \/ o = [txn |-> Deliver("none", "inProgress", "deliverStatementCallback"),
              schedule |-> "callback", release |-> FALSE]
      \/ o = [txn |-> After("none", "inProgress"), schedule |-> "again", release |-> FALSE]
      \/ \E s \in {"inProgress", "rolledBack"} :
           \/ o = [txn |-> Deliver("quota", s, "deliverQuotaIncreaseCallback"),
                   schedule |-> "callback", release |-> FALSE]
           \/ o = HandleCurrentStatementError(After("other", s))
  <2>1. x.sqlite = "inProgress" /\ x \in SQLTransactions
    BY DEF Running
  <2>2. [x EXCEPT !.current.error = "none"] = After("none", "inProgress")
    BY <2>1 DEF SQLTransactions
  <2> HIDE DEF After
  <2>3. \/ o = HandleCurrentStatementError(x)
        \/ o = ToContext(After("none", "inProgress"), "deliverStatementCallback")
        \/ o = Outcome(After("none", "inProgress"), "again")
        \/ \E s \in {"inProgress", "rolledBack"} :
             \/ o = ToContext(After("quota", s), "deliverQuotaIncreaseCallback")
             \/ o = HandleCurrentStatementError(After("other", s))
    BY <2>1, <2>2, Zenon DEF RunCurrentStatement, After
  <2> QED BY <2>3 DEF ToContext, Outcome
<1> HIDE DEF After
<1>3. OutcomeOK(HandleCurrentStatementError(x))
  BY StatementErrorHandled
<1>4. \A s \in {"inProgress", "rolledBack"} : OutcomeOK(HandleCurrentStatementError(After("other", s)))
  BY <1>1, StatementErrorHandled
<1>5. ASSUME NEW error \in {"none", "quota"}, NEW s \in {"inProgress", "rolledBack"},
             NEW step \in {"deliverStatementCallback", "deliverQuotaIncreaseCallback"},
             step = "deliverStatementCallback" => s = "inProgress",
             step = "deliverQuotaIncreaseCallback" => error = "quota"
      PROVE  OutcomeOK([txn |-> Deliver(error, s, step), schedule |-> "callback", release |-> FALSE])
  <2> DEFINE y == Deliver(error, s, step)
  <2>0. PICK w : w = After(error, s)
    OBVIOUS
  <2>1. Running(w) /\ w.current.error = error /\ w.sqlite = s /\ ~w.current.handled /\ ~w.retry
    BY <2>0, <1>1
  <2>2. y \in SQLTransactions
    BY <2>0, <2>1 DEF Running, SQLTransactions, Steps, ContextSteps
  <2>3. /\ y.nextStep = step /\ y.lockAcquired /\ y.happened = {} /\ y.error = "none"
        /\ y.sqlite = s /\ y.current = w.current /\ ~y.retry
    BY <2>0, <2>1 DEF Running, SQLTransactions
  <2> HIDE DEF y
  <2>4. RecordOK(y) /\ SqliteFits(y)
    BY <2>1, <2>2, <2>3, <1>5 DEF RecordOK, SqliteFits, FirstSteps, RunningSteps
  <2>5. y.nextStep \in ContextSteps
    BY <2>3 DEF ContextSteps
  <2>6. OutcomeOK([txn |-> y, schedule |-> "callback", release |-> FALSE])
    BY <2>2, <2>3, <2>4, <2>5, ScheduledLife
  <2> QED BY <2>6 DEF y
<1>6. OutcomeOK([txn |-> After("none", "inProgress"), schedule |-> "again", release |-> FALSE])
  <2>0. PICK y : y = After("none", "inProgress")
    OBVIOUS
  <2>1. Running(y) /\ y.current.error = "none" /\ y.sqlite = "inProgress" /\ ~y.current.handled /\ ~y.retry
    BY <2>0, <1>1
  <2>2. RecordOK(y) /\ SqliteFits(y)
    BY <2>1 DEF Running, RecordOK, SqliteFits, FirstSteps, RunningSteps
  <2> QED BY <2>0, <2>1, <2>2, ScheduledLife DEF Running
<1> HIDE DEF Deliver
<1> QED BY <1>2, <1>3, <1>4, <1>5, <1>6

\* One turn of the loop of runStatements.
LEMMA StatementsRun ==
  ASSUME NEW x, RecordOK(x), SqliteFits(x), x.lockAcquired, x.nextStep = "runStatements",
         NEW o \in RunStatements(x)
  PROVE  OutcomeOK(o)
<1>1. /\ Running(x) /\ x.sqlite \in {"inProgress", "rolledBack"}
      /\ x.sqlite = "rolledBack" => x.current.error = "quota"
      /\ x.retry => x.current.error = "quota" /\ ~x.current.handled
  BY DEF RecordOK, SqliteFits, Running, FirstSteps, RunningSteps
<1>2. CASE x.retry /\ x.sqlite # "rolledBack"
  <2> DEFINE y == [x EXCEPT !.retry = FALSE]
  <2>1. y \in SQLTransactions
    BY <1>1 DEF Running, SQLTransactions
  <2>2. /\ y.lockAcquired /\ y.happened = {} /\ y.error = "none" /\ y.nextStep = "runStatements"
        /\ y.sqlite = "inProgress" /\ ~y.retry /\ ~y.current.handled
    BY <1>1, <1>2 DEF Running, SQLTransactions
  <2>3. o \in RunCurrentStatement(y)
    BY <1>2 DEF RunStatements
  <2> HIDE DEF y
  <2>4. Running(y)
    BY <2>1, <2>2 DEF Running
  <2> QED BY <2>2, <2>3, <2>4, StatementRun
<1>3. CASE ~(x.retry /\ x.sqlite # "rolledBack") /\ x.current.error = "quota"
  <2>1. o = HandleCurrentStatementError(x)
    BY <1>3 DEF RunStatements
  <2> QED BY <1>1, <1>3, <2>1, StatementErrorHandled
<1>4. CASE ~(x.retry /\ x.sqlite # "rolledBack") /\ x.current.error # "quota"
  <2>1. x.sqlite = "inProgress" /\ ~x.retry
    BY <1>1, <1>4
  <2>0. PICK y : y = GetNextStatement(x)
    OBVIOUS
  <2>2. o \in IF y.current = NoStatement THEN PostflightAndCommit(y) ELSE RunCurrentStatement(y)
    BY <1>4, <2>0 DEF RunStatements
  <2>3. CASE x.statements = << >>
    <3>1. y = [x EXCEPT !.current = NoStatement]
      BY <2>0, <2>3 DEF GetNextStatement
    <3>2. NoStatement \in Statements
      BY DEF NoStatement, Statements
    <3>3. Running(y) /\ y.current = NoStatement
      BY <1>1, <3>1, <3>2 DEF Running, SQLTransactions
    <3> QED BY <2>2, <3>3, Committed
  <2>4. CASE x.statements # << >>
    <3>1. y = [x EXCEPT !.current = Head(x.statements), !.statements = Tail(x.statements)]
      BY <2>0, <2>4 DEF GetNextStatement
    <3>2. x.statements \in Seq(NewStatements)
      BY <1>1 DEF Running, SQLTransactions
    <3>3. Head(x.statements) \in NewStatements /\ Tail(x.statements) \in Seq(NewStatements)
      BY <3>2, <2>4
    <3>4. Head(x.statements) \in Statements /\ Head(x.statements) # NoStatement /\ ~Head(x.statements).handled
      <4>1. Head(x.statements).error \in {"none", "other"} /\ NoStatement.error = "null"
        BY <3>3 DEF NewStatements, NoStatement
      <4>2. Head(x.statements) \in Statements /\ ~Head(x.statements).handled
        BY <3>3 DEF NewStatements, Statements
      <4> QED BY <4>1, <4>2
    <3>5. /\ Running(y) /\ y.current = Head(x.statements)
          /\ y.sqlite = "inProgress" /\ ~y.retry
      BY <1>1, <2>1, <3>1, <3>3, <3>4 DEF Running, SQLTransactions
    <3> QED BY <2>2, <3>4, <3>5, StatementRun
  <2> QED BY <2>3, <2>4
<1> QED BY <1>2, <1>3, <1>4

\* A step of the database thread.
LEMMA DatabaseStepDone ==
  ASSUME NEW x, RecordOK(x), SqliteFits(x), x.lockAcquired,
         x.nextStep \in DatabaseSteps \ {"acquireLock", "postflightAndCommit"},
         NEW deleted \in BOOLEAN, NEW o \in DatabaseStep(x, deleted)
  PROVE  /\ OutcomeOK(o)
         /\ o.txn.sqlite # "none" => x.sqlite # "none" \/ x.nextStep = "openTransactionAndPreflight"
<1>1. /\ x \in SQLTransactions
      /\ x.error = "statement" /\ x.current.handled => x.current.error = "quota"
  BY DEF RecordOK
<1>2. CASE x.nextStep = "openTransactionAndPreflight"
  <2>1. x.happened = {} /\ x.error = "none" /\ x.current = NoStatement /\ ~x.retry
    BY <1>2 DEF RecordOK, FirstSteps
  <2> DEFINE y == [x EXCEPT !.sqlite = "inProgress"]
             z == [y EXCEPT !.nextStep = "deliverTransactionCallback"]
  <2>2. \/ o = HandleTransactionError(x, "deleted", FALSE)
        \/ o = HandleTransactionError(x, "open", FALSE)
        \/ o = [txn |-> z, schedule |-> "callback", release |-> FALSE]
    BY <1>2 DEF DatabaseStep, OpenTransactionAndPreflight, ToContext, Outcome
  <2>3. OutcomeOK(HandleTransactionError(x, "deleted", FALSE)) /\ OutcomeOK(HandleTransactionError(x, "open", FALSE))
    BY <1>1, <2>1, ErrorHandled DEF Errors
  <2>4. z \in SQLTransactions
    BY <1>1 DEF SQLTransactions, Steps, ContextSteps
  <2>5. /\ z.nextStep = "deliverTransactionCallback" /\ z.lockAcquired /\ z.happened = {} /\ z.error = "none"
        /\ z.sqlite = "inProgress" /\ ~z.retry
    BY <1>1, <2>1 DEF SQLTransactions
  <2> HIDE DEF z
  <2>6. RecordOK(z) /\ SqliteFits(z)
    BY <2>4, <2>5 DEF RecordOK, SqliteFits, FirstSteps, RunningSteps
  <2>7. OutcomeOK([txn |-> z, schedule |-> "callback", release |-> FALSE])
    BY <2>4, <2>5, <2>6, ScheduledLife DEF ContextSteps
  <2> QED BY <1>2, <2>2, <2>3, <2>7
<1>3. CASE x.nextStep = "runStatements"
  <2>1. o \in RunStatements(x)
    BY <1>3 DEF DatabaseStep
  <2>2. x.sqlite # "none"
    BY <1>3 DEF SqliteFits, RunningSteps
  <2> QED BY <1>3, <2>1, <2>2, StatementsRun
<1>4. CASE x.nextStep = "cleanupAfterSuccessCallback"
  <2>1. o = CleanupAfterSuccessCallback(x)
    BY <1>4 DEF DatabaseStep
  <2>2. o.txn.sqlite = "none"
    BY <1>1, <2>1 DEF CleanupAfterSuccessCallback, SQLTransactions
  <2> QED BY <1>1, <2>1, <2>2, CleanupAfterSuccess
<1>5. CASE x.nextStep = "cleanupAfterTransactionErrorCallback"
  <2>1. o = CleanupAfterTransactionErrorCallback(x)
    BY <1>5 DEF DatabaseStep
  <2>2. o.txn.sqlite = "none"
    BY <1>1, <2>1 DEF CleanupAfterTransactionErrorCallback, SQLTransactions
  <2> QED BY <1>1, <2>1, <2>2, CleanupAfterError
<1> QED BY <1>2, <1>3, <1>4, <1>5 DEF DatabaseSteps

\* A step of the context thread always hands the transaction back.
HandedBack(x, o) ==
  /\ o.schedule = "step" /\ RecordOK(o.txn) /\ o.txn.lockAcquired
  /\ o.txn.nextStep \in DatabaseSteps \ {"acquireLock", "postflightAndCommit"}
  /\ o.txn.sqlite \in {x.sqlite, "none"}
  /\ SqliteFits(x) => SqliteFits(o.txn)

\* A transaction that the context thread hands back has its place in the queue.
LEMMA HandedBackLife ==
  ASSUME NEW x, NEW o, HandedBack(x, o), NEW P, NEW active \in BOOLEAN, NEW stopped \in BOOLEAN, NEW down \in BOOLEAN,
         Life(x, P, active, stopped, down), x.nextStep \in ContextSteps
  PROVE  Life(o.txn, {"db"}, active, stopped, down)
<1>1. Fits("db", o.txn.nextStep)
  BY DEF HandedBack, Fits
<1>2. x.nextStep \notin {"acquireLock", "none"}
  BY DEF ContextSteps
<1>3. o.txn.nextStep \notin {"acquireLock", "none"}
  BY DEF HandedBack, DatabaseSteps
<1> QED BY <1>1, <1>2, <1>3 DEF Life, HandedBack

\* An outcome that schedules a step hands the transaction back.
LEMMA OutcomeHandedBack ==
  ASSUME NEW x, NEW o, OutcomeOK(o), o.schedule = "step", ~o.release, o.txn.sqlite \in {x.sqlite, "none"}
  PROVE  HandedBack(x, o)
<1>1. Life(o.txn, PlaceAfter("step"), TRUE, FALSE, FALSE)
  BY DEF OutcomeOK
<1>2. "db" \in PlaceAfter("step")
  BY DEF PlaceAfter, Places
<1>3. o.txn.nextStep \in DatabaseSteps \ {"postflightAndCommit"}
  BY <1>1, <1>2 DEF Life, Fits
<1>4. o.txn.nextStep \notin {"acquireLock", "none"}
  BY <1>1, <1>3 DEF Life, DatabaseSteps
<1> QED BY <1>1, <1>3, <1>4 DEF Life, HandedBack

\* Back to runStatements.
LEMMA BackToStatements ==
  ASSUME NEW x, NEW y \in SQLTransactions, y.sqlite = x.sqlite, y.lockAcquired, y.happened = {}, y.error = "none",
         y.nextStep = "runStatements", x.nextStep \in RunningSteps,
         y.retry => y.current.error = "quota" /\ ~y.current.handled,
         x.sqlite = "rolledBack" /\ SqliteFits(x) => y.current.error = "quota"
  PROVE  HandedBack(x, [txn |-> y, schedule |-> "step", release |-> FALSE])
<1>1. RecordOK(y)
  BY DEF RecordOK, FirstSteps
<1>2. SqliteFits(x) => SqliteFits(y)
  BY DEF SqliteFits, RunningSteps
<1> QED BY <1>1, <1>2 DEF HandedBack, DatabaseSteps

\* A transaction or statement callback has returned, or thrown.
LEMMA AfterScriptDone ==
  ASSUME NEW x, RecordOK(x), x.lockAcquired, x.nextStep \in {"deliverTransactionCallback", "deliverStatementCallback"},
         NEW failed \in BOOLEAN
  PROVE  HandedBack(x, AfterScript(x, failed))
<1>1. x \in SQLTransactions /\ x.happened = {} /\ x.error = "none" /\ ~x.retry /\ x.nextStep \in RunningSteps
  BY DEF RecordOK, RunningSteps
<1>2. SqliteFits(x) => x.sqlite = "inProgress"
  BY DEF SqliteFits, RunningSteps
<1>3. CASE x.nextStep = "deliverTransactionCallback" /\ failed
  <2> DEFINE y == [x EXCEPT !.error = "callback"]
  <2>1. /\ y \in SQLTransactions /\ y.lockAcquired /\ y.happened = {} /\ y.sqlite = x.sqlite /\ y.error # "statement"
    BY <1>1 DEF SQLTransactions
  <2>2. AfterScript(x, failed) = DeliverTransactionErrorCallback(y)
    BY <1>3 DEF AfterScript
  <2> HIDE DEF y
  <2>3. /\ OutcomeOK(DeliverTransactionErrorCallback(y))
        /\ DeliverTransactionErrorCallback(y).schedule = "step"
        /\ ~DeliverTransactionErrorCallback(y).release
        /\ DeliverTransactionErrorCallback(y).txn.sqlite = y.sqlite
    BY <2>1, ErrorReported
  <2> QED BY <2>1, <2>2, <2>3, OutcomeHandedBack
<1>4. CASE x.nextStep = "deliverTransactionCallback" /\ ~failed
  <2> DEFINE y == [x EXCEPT !.nextStep = "runStatements"]
  <2>1. /\ y \in SQLTransactions /\ y.sqlite = x.sqlite /\ y.lockAcquired /\ y.happened = {} /\ y.error = "none"
        /\ y.nextStep = "runStatements" /\ ~y.retry
    BY <1>1 DEF SQLTransactions, Steps, DatabaseSteps
  <2>2. AfterScript(x, failed) = [txn |-> y, schedule |-> "step", release |-> FALSE]
    BY <1>4 DEF AfterScript, ToDatabase, Outcome
  <2> HIDE DEF y
  <2> QED BY <1>1, <1>2, <2>1, <2>2, BackToStatements
<1>5. CASE x.nextStep = "deliverStatementCallback" /\ failed
  <2>1. AfterScript(x, failed) = HandleTransactionError(x, "callback", TRUE)
    BY <1>5 DEF AfterScript
  <2>2. LET o == HandleTransactionError(x, "callback", TRUE) IN
        OutcomeOK(o) /\ o.schedule = "step" /\ ~o.release /\ o.txn.sqlite \in {x.sqlite, "none"}
    BY <1>1, ErrorHandled DEF Errors
  <2> QED BY <2>1, <2>2, OutcomeHandedBack
<1>6. CASE x.nextStep = "deliverStatementCallback" /\ ~failed
  <2>0. PICK c : c = [x.current EXCEPT !.handled = x.current.error # "none"]
    OBVIOUS
  <2>a. c \in Statements /\ c.error = x.current.error
    BY <1>1, <2>0 DEF SQLTransactions, Statements
  <2>b. PICK y : y = [x EXCEPT !.current = c, !.nextStep = "runStatements"]
    OBVIOUS
  <2>1. /\ y \in SQLTransactions /\ y.sqlite = x.sqlite /\ y.lockAcquired /\ y.happened = {} /\ y.error = "none"
        /\ y.nextStep = "runStatements" /\ ~y.retry /\ y.current = c
    BY <1>1, <2>a, <2>b DEF SQLTransactions, Steps, DatabaseSteps
  <2>2. [[x EXCEPT !.current.handled = x.current.error # "none"] EXCEPT !.nextStep = "runStatements"] = y
    BY <2>0, <2>b, <1>1 DEF SQLTransactions
  <2>3. AfterScript(x, failed) = [txn |-> y, schedule |-> "step", release |-> FALSE]
    BY <1>6, <2>2 DEF AfterScript, ToDatabase, Outcome
  <2> QED BY <1>1, <1>2, <2>1, <2>3, BackToStatements
<1> QED BY <1>3, <1>4, <1>5, <1>6

\* The steps of the context thread that call no statement script.
LEMMA ContextStepDone ==
  ASSUME NEW x, RecordOK(x), x.lockAcquired, x.nextStep \in ContextSteps, ~EntersScript(x), NEW o \in ContextStep(x)
  PROVE  HandedBack(x, o)
<1>1. x \in SQLTransactions
  BY DEF RecordOK
<1>2. CASE x.nextStep = "deliverTransactionCallback"
  <2> DEFINE y == [x EXCEPT !.nextStep = "runStatements"]
  <2>0. x.happened = {} /\ x.error = "none" /\ ~x.retry /\ x.nextStep \in RunningSteps
    BY <1>2 DEF RecordOK, RunningSteps
  <2>1. /\ y \in SQLTransactions /\ y.sqlite = x.sqlite /\ y.lockAcquired /\ y.happened = {} /\ y.error = "none"
        /\ y.nextStep = "runStatements" /\ ~y.retry
    BY <1>1, <2>0 DEF SQLTransactions, Steps, DatabaseSteps
  <2>2. o = [txn |-> y, schedule |-> "step", release |-> FALSE]
    BY <1>2 DEF ContextStep, ToDatabase, Outcome
  <2>3. SqliteFits(x) => x.sqlite = "inProgress"
    BY <1>2 DEF SqliteFits, RunningSteps
  <2> HIDE DEF y
  <2> QED BY <2>0, <2>1, <2>2, <2>3, BackToStatements
<1>3. CASE x.nextStep = "deliverQuotaIncreaseCallback"
  <2>0. /\ x.happened = {} /\ x.error = "none" /\ x.nextStep \in RunningSteps
        /\ x.current.error = "quota" /\ ~x.current.handled
    BY <1>3 DEF RecordOK, RunningSteps
  <2>1. PICK granted \in BOOLEAN :
          o = ToDatabase([x EXCEPT !.retry = granted, !.increases = IF granted THEN x.increases + 1 ELSE x.increases],
                         "runStatements")
    BY <1>3 DEF ContextStep
  <2>2. PICK n : n = IF granted THEN x.increases + 1 ELSE x.increases
    OBVIOUS
  <2>3. n \in Nat
    BY <1>1, <2>2 DEF SQLTransactions
  <2> DEFINE y == [[x EXCEPT !.retry = granted, !.increases = n] EXCEPT !.nextStep = "runStatements"]
  <2>4. /\ y \in SQLTransactions /\ y.sqlite = x.sqlite /\ y.lockAcquired /\ y.happened = {} /\ y.error = "none"
        /\ y.nextStep = "runStatements" /\ y.current = x.current
    BY <1>1, <2>0, <2>3 DEF SQLTransactions, Steps, DatabaseSteps
  <2>5. o = [txn |-> y, schedule |-> "step", release |-> FALSE]
    BY <2>1, <2>2 DEF ToDatabase, Outcome
  <2> HIDE DEF y
  <2> QED BY <2>0, <2>4, <2>5, BackToStatements
<1>4. CASE x.nextStep = "deliverSuccessCallback"
  <2>0. x.happened = {"committed"}
    BY <1>4 DEF RecordOK
  <2> DEFINE w == [x EXCEPT !.successCallback = FALSE]
             y == [Record(w, "successCallback") EXCEPT !.nextStep = "cleanupAfterSuccessCallback"]
  <2>1. {"committed"} \cup {"successCallback"} \in Histories
    BY DEF Histories
  <2>2. y = [x EXCEPT !.successCallback = FALSE, !.happened = {"committed"} \cup {"successCallback"},
                      !.nextStep = "cleanupAfterSuccessCallback"]
    BY <1>1, <2>0 DEF Record, SQLTransactions
  <2>5. o = [txn |-> y, schedule |-> "step", release |-> FALSE]
    BY <1>4 DEF ContextStep, ToDatabase, Outcome
  <2> HIDE DEF y
  <2>3. y \in SQLTransactions
    BY <1>1, <2>1, <2>2 DEF SQLTransactions, Steps, DatabaseSteps
  <2>4. /\ y.sqlite = x.sqlite /\ y.lockAcquired /\ "committed" \in y.happened /\ y.error = x.error /\ y.current = x.current
        /\ y.nextStep = "cleanupAfterSuccessCallback"
    BY <1>1, <2>2 DEF SQLTransactions
  <2>6. RecordOK(y) /\ SqliteFits(y)
    BY <2>3, <2>4 DEF RecordOK, SqliteFits, FirstSteps, RunningSteps
  <2> QED BY <2>4, <2>5, <2>6 DEF HandedBack, DatabaseSteps
<1>5. CASE x.nextStep = "deliverTransactionErrorCallback"
  <2>1. o = DeliverTransactionErrorCallback(x)
    BY <1>5 DEF ContextStep
  <2>2. x.happened = {} /\ (x.error = "statement" /\ x.current.handled => x.current.error = "quota")
    BY <1>5 DEF RecordOK
  <2>3. OutcomeOK(o) /\ o.schedule = "step" /\ ~o.release /\ o.txn.sqlite = x.sqlite
    BY <1>1, <2>1, <2>2, ErrorReported
  <2> QED BY <2>3, OutcomeHandedBack
<1> QED BY <1>2, <1>3, <1>4, <1>5 DEF ContextSteps, EntersScript

\* The callback is unwrapped, and runs.
LEMMA BeforeScriptLife ==
  ASSUME NEW x, NEW P, NEW active \in BOOLEAN, NEW stopped \in BOOLEAN, NEW down \in BOOLEAN,
         Life(x, P, active, stopped, down), EntersScript(x)
  PROVE  /\ Life(BeforeScript(x), {"script"}, active, stopped, down)
         /\ BeforeScript(x).nextStep = x.nextStep /\ BeforeScript(x).sqlite = x.sqlite
<1>0. PICK y : y = BeforeScript(x)
  OBVIOUS
<1>1. x \in SQLTransactions
  BY DEF Life, RecordOK
<1>2. x.nextStep \in {"deliverTransactionCallback", "deliverStatementCallback"}
  BY DEF EntersScript
<1>3. /\ y \in SQLTransactions
      /\ y.nextStep = x.nextStep /\ y.lockAcquired = x.lockAcquired /\ y.sqlite = x.sqlite /\ y.retry = x.retry
      /\ y.error = x.error /\ y.happened = x.happened
      /\ y.current.error = x.current.error /\ y.current.handled = x.current.handled
  <2>1. CASE x.nextStep = "deliverTransactionCallback"
    <3>1. y = [x EXCEPT !.callback = FALSE]
      BY <1>0, <2>1 DEF BeforeScript
    <3> QED BY <1>1, <3>1 DEF SQLTransactions
  <2>2. CASE x.nextStep # "deliverTransactionCallback"
    <3>1. PICK c : c = [x.current EXCEPT !.callback = FALSE, !.errorCallback = FALSE]
      OBVIOUS
    <3>2. c \in Statements /\ c.error = x.current.error /\ c.handled = x.current.handled
      BY <1>1, <3>1 DEF SQLTransactions, Statements
    <3>3. y = [x EXCEPT !.current = c]
      BY <1>0, <1>1, <2>2, <3>1 DEF BeforeScript, SQLTransactions, Statements
    <3> QED BY <1>1, <3>2, <3>3 DEF SQLTransactions
  <2> QED BY <2>1, <2>2
<1>4. RecordOK(y) /\ (SqliteFits(x) => SqliteFits(y))
  BY <1>2, <1>3 DEF Life, RecordOK, SqliteFits, FirstSteps, RunningSteps
<1>5. Life(y, {"script"}, active, stopped, down)
  BY <1>2, <1>3, <1>4 DEF Life, Fits
<1> QED BY <1>0, <1>3, <1>5

\* executeSQL adds a statement and changes nothing else.
LEMMA ExecuteSQLLife ==
  ASSUME NEW x, NEW P, NEW active \in BOOLEAN, NEW stopped \in BOOLEAN, NEW down \in BOOLEAN,
         Life(x, P, active, stopped, down), x.nextStep \in {"deliverTransactionCallback", "deliverStatementCallback"},
         NEW kind \in StatementKinds, NEW deleted, NEW mismatched
  PROVE  /\ Life(ExecuteSQL(x, kind, deleted, mismatched), P, active, stopped, down)
         /\ ExecuteSQL(x, kind, deleted, mismatched).sqlite = x.sqlite
<1>1. x \in SQLTransactions
  BY DEF Life, RecordOK
<1>2. NewStatement(kind, deleted \/ mismatched) \in NewStatements
  BY StatementKindsAssumption DEF NewStatement, NewStatements
<1>3. PICK s : s = Append(x.statements, NewStatement(kind, deleted \/ mismatched))
  OBVIOUS
<1>4. x.statements \in Seq(NewStatements)
  BY <1>1 DEF SQLTransactions
<1>5. s \in Seq(NewStatements)
  BY <1>2, <1>3, <1>4
<1>6. PICK y : y = [x EXCEPT !.statements = s]
  OBVIOUS
<1>7. ExecuteSQL(x, kind, deleted, mismatched) = y
  BY <1>3, <1>6 DEF ExecuteSQL
<1>8. y \in SQLTransactions
  BY <1>1, <1>5, <1>6 DEF SQLTransactions
<1>9. /\ y.nextStep = x.nextStep /\ y.lockAcquired = x.lockAcquired /\ y.sqlite = x.sqlite /\ y.retry = x.retry
      /\ y.error = x.error /\ y.happened = x.happened /\ y.current = x.current
  BY <1>1, <1>6 DEF SQLTransactions
<1>10. RecordOK(y) /\ (SqliteFits(x) => SqliteFits(y))
  BY <1>8, <1>9 DEF Life, RecordOK, SqliteFits, FirstSteps, RunningSteps
<1>11. Life(y, P, active, stopped, down)
  BY <1>9, <1>10 DEF Life
<1> QED BY <1>7, <1>9, <1>11

\* The database was closed or interrupted.
LEMMA CancelContextLife ==
  ASSUME NEW x, NEW P, NEW active \in BOOLEAN, NEW down \in BOOLEAN, Life(x, P, active, TRUE, down)
  PROVE  /\ Life(CancelOnContextThread(x), {}, active, TRUE, down)
         /\ CancelOnContextThread(x).nextStep = "none" /\ CancelOnContextThread(x).sqlite = x.sqlite
         /\ CancelOnContextThread(x).error = x.error /\ CancelOnContextThread(x).current = x.current
<1>1. x \in SQLTransactions /\ (x.error = "statement" /\ x.current.handled => x.current.error = "quota")
  BY DEF Life, RecordOK
<1>2. PICK y : y = CancelOnContextThread(x)
  OBVIOUS
<1>3. << >> \in Seq(NewStatements) /\ "none" \in Steps
  BY DEF Steps
<1>4. y \in SQLTransactions
  BY <1>1, <1>2, <1>3 DEF CancelOnContextThread, SQLTransactions
<1>5. y.nextStep = "none" /\ y.sqlite = x.sqlite /\ y.error = x.error /\ y.current = x.current
  BY <1>1, <1>2 DEF CancelOnContextThread, SQLTransactions
<1>6. RecordOK(y) /\ SqliteFits(y)
  BY <1>1, <1>4, <1>5 DEF RecordOK, SqliteFits, FirstSteps, RunningSteps
<1>7. Life(y, {}, active, TRUE, down)
  BY <1>5, <1>6 DEF Life
<1> QED BY <1>2, <1>5, <1>7

\* A step of a stopped handle on the database thread: the transaction ends there.
LEMMA CancelDatabaseLife ==
  ASSUME NEW x, NEW P, NEW active \in BOOLEAN, Life(x, P, active, TRUE, FALSE), x.nextStep # "none"
  PROVE  /\ Life(CancelOnDatabaseThread(x).txn, {}, FALSE, TRUE, FALSE)
         /\ CancelOnDatabaseThread(x).schedule = "none" /\ CancelOnDatabaseThread(x).release = active
         /\ CancelOnDatabaseThread(x).txn.sqlite = "none"
<1>1. x \in SQLTransactions /\ (x.error = "statement" /\ x.current.handled => x.current.error = "quota")
  BY DEF Life, RecordOK
<1>2. PICK y : y = CancelOnContextThread(x)
  OBVIOUS
<1>3. y \in SQLTransactions /\ y.nextStep = "none" /\ y.error = x.error /\ y.current = x.current
  <2>1. Life(y, {}, active, TRUE, FALSE) /\ y.nextStep = "none" /\ y.error = x.error /\ y.current = x.current
    BY <1>2, CancelContextLife
  <2> QED BY <2>1 DEF Life, RecordOK
<1>4. x.lockAcquired = active
  BY <1>1 DEF Life, SQLTransactions
<1>5. PICK z : z = [y EXCEPT !.sqlite = "none"]
  OBVIOUS
<1>6. z \in SQLTransactions /\ z.nextStep = "none" /\ z.sqlite = "none" /\ z.error = x.error /\ z.current = x.current
  BY <1>3, <1>5 DEF SQLTransactions
<1>7. RecordOK(z) /\ SqliteFits(z)
  BY <1>1, <1>6 DEF RecordOK, SqliteFits, FirstSteps, RunningSteps
<1>8. Life(z, {}, FALSE, TRUE, FALSE)
  BY <1>6, <1>7 DEF Life
<1>9. PICK o : o = CancelOnDatabaseThread(x)
  OBVIOUS
<1>10. o = [txn |-> z, schedule |-> "none", release |-> x.lockAcquired]
  BY <1>2, <1>5, <1>9 DEF CancelOnDatabaseThread
<1>11. o.txn = z /\ o.schedule = "none" /\ o.release = x.lockAcquired
  BY <1>10
<1> QED BY <1>4, <1>6, <1>8, <1>9, <1>11, Zenon

\* A transaction that the coordinator lets in.
LEMMA LockAcquiredLife ==
  ASSUME NEW x, NEW P, NEW stopped \in BOOLEAN, Life(x, P, FALSE, stopped, FALSE), x.nextStep = "acquireLock"
  PROVE  /\ Life(LockAcquired(x), {"db"}, TRUE, stopped, FALSE)
         /\ LockAcquired(x).nextStep # "none" /\ LockAcquired(x).sqlite = x.sqlite
<1>1. x \in SQLTransactions
  BY DEF Life, RecordOK
<1>2. PICK y : y = LockAcquired(x)
  OBVIOUS
<1>3. y \in SQLTransactions
  BY <1>1, <1>2 DEF LockAcquired, SQLTransactions, Steps, DatabaseSteps
<1>4. /\ y.nextStep = "openTransactionAndPreflight" /\ y.lockAcquired /\ y.sqlite = x.sqlite /\ y.retry = x.retry
      /\ y.error = x.error /\ y.happened = x.happened /\ y.current = x.current /\ y.statements = x.statements
  BY <1>1, <1>2 DEF LockAcquired, SQLTransactions
<1>5. RecordOK(y) /\ SqliteFits(y)
  BY <1>3, <1>4 DEF Life, RecordOK, SqliteFits, FirstSteps, RunningSteps
<1>6. x.sqlite = "none"
  BY DEF Life, RecordOK, FirstSteps
<1>7. Life(y, {"db"}, TRUE, stopped, FALSE)
  BY <1>4, <1>5, <1>6 DEF Life, Fits, DatabaseSteps
<1> QED BY <1>2, <1>4, <1>7

\* A new transaction.
LEMMA NewLife ==
  ASSUME NEW callbacks, NEW p \in {"handle", "db"}, NEW stopped \in BOOLEAN, NEW down \in BOOLEAN
  PROVE  LET x == NewSQLTransaction(callbacks) IN
         /\ x \in SQLTransactions /\ x.nextStep = "acquireLock" /\ x.sqlite = "none"
         /\ Life(x, {p}, FALSE, stopped, down)
<1>1. PICK x : x = NewSQLTransaction(callbacks)
  OBVIOUS
<1>2. /\ x.nextStep = "acquireLock" /\ x.lockAcquired = FALSE /\ x.sqlite = "none" /\ x.statements = << >>
      /\ x.current = NoStatement /\ x.retry = FALSE /\ x.error = "none" /\ x.happened = {}
  BY <1>1 DEF NewSQLTransaction
<1>3. x \in SQLTransactions
  <2>1. NoStatement \in Statements /\ {} \in Histories /\ "acquireLock" \in Steps /\ << >> \in Seq(NewStatements)
    BY DEF NoStatement, Statements, Histories, Steps, DatabaseSteps
  <2> QED BY <1>1, <2>1 DEF NewSQLTransaction, SQLTransactions
<1>4. RecordOK(x) /\ SqliteFits(x)
  BY <1>2, <1>3 DEF RecordOK, SqliteFits, FirstSteps, RunningSteps
<1>5. Life(x, {p}, FALSE, stopped, down)
  BY <1>2, <1>4 DEF Life, Fits, DatabaseSteps
<1> QED BY <1>1, <1>2, <1>3, <1>5

\* Stopping a handle, and what leaves a stopped handle's queue, may leave a
\* transaction stuck.
LEMMA LifeKept ==
  ASSUME NEW x, NEW P, NEW Q \in SUBSET P, NEW active \in BOOLEAN, NEW stopped \in BOOLEAN, NEW later \in BOOLEAN,
         NEW down \in BOOLEAN,
         Life(x, P, active, stopped, down), stopped => later, ~later => Q = P
  PROVE  Life(x, Q, active, later, down)
  BY DEF Life

-----------------------------------------------------------------------------
(* What a step leaves alone                                                *)

\* PlacesOf, place by place.
LEMMA PlaceMembers ==
  ASSUME NEW t
  PROVE  /\ PlacesOf(t) \subseteq Places
         /\ "handle" \in PlacesOf(t) <=> InHandle(t)
         /\ "pending" \in PlacesOf(t) <=> InPending(t)
         /\ "db" \in PlacesOf(t) <=> InDb(t)
         /\ "loop" \in PlacesOf(t) <=> InLoop(t)
         /\ "ctx" \in PlacesOf(t) <=> InCtx(t)
         /\ "script" \in PlacesOf(t) <=> InScript(t)
  BY DEF PlacesOf, Places

\* A transaction is in one place, and the next step fits it.
LEMMA OnlyPlace ==
  ASSUME NEW t, LifeOf(t)
  PROVE  /\ InHandle(t) => PlacesOf(t) = {"handle"} /\ txn[t].nextStep = "acquireLock"
         /\ InPending(t) => PlacesOf(t) = {"pending"} /\ txn[t].nextStep = "acquireLock"
         /\ InDb(t) => /\ PlacesOf(t) = {"db"} /\ ~InHandle(t) /\ ~InPending(t) /\ ~InLoop(t) /\ ~InCtx(t) /\ ~InScript(t)
                       /\ txn[t].nextStep \in DatabaseSteps \ {"postflightAndCommit"}
         /\ InLoop(t) => /\ PlacesOf(t) = {"loop"} /\ ~InHandle(t) /\ ~InPending(t) /\ ~InDb(t) /\ ~InCtx(t) /\ ~InScript(t)
                         /\ txn[t].nextStep = "runStatements"
         /\ InCtx(t) => /\ PlacesOf(t) = {"ctx"} /\ ~InHandle(t) /\ ~InPending(t) /\ ~InDb(t) /\ ~InLoop(t) /\ ~InScript(t)
                        /\ txn[t].nextStep \in ContextSteps
         /\ InScript(t) => /\ PlacesOf(t) = {"script"} /\ ~InHandle(t) /\ ~InPending(t) /\ ~InDb(t) /\ ~InLoop(t) /\ ~InCtx(t)
                           /\ txn[t].nextStep \in {"deliverTransactionCallback", "deliverStatementCallback"}
<1>1. \A p, q \in PlacesOf(t) : p = q
  BY DEF LifeOf, Life
<1>2. \A p \in PlacesOf(t) : Fits(p, txn[t].nextStep)
  BY DEF LifeOf, Life
<1>3. PICK P : P = PlacesOf(t)
  OBVIOUS
<1>4. /\ "handle" \in P <=> InHandle(t)
      /\ "pending" \in P <=> InPending(t)
      /\ "db" \in P <=> InDb(t)
      /\ "loop" \in P <=> InLoop(t)
      /\ "ctx" \in P <=> InCtx(t)
      /\ "script" \in P <=> InScript(t)
  BY <1>3, PlaceMembers
<1>5. \A p \in P : P = {p} /\ Fits(p, txn[t].nextStep)
  BY <1>1, <1>2, <1>3
<1>6. \A p \in P : p = "handle" \/ p = "pending" => txn[t].nextStep = "acquireLock"
  BY <1>5 DEF Fits
<1>7. ASSUME InDb(t)  PROVE P = {"db"} /\ txn[t].nextStep \in DatabaseSteps \ {"postflightAndCommit"}
  BY <1>4, <1>5, <1>7 DEF Fits
<1>8. ASSUME InLoop(t)  PROVE P = {"loop"} /\ txn[t].nextStep = "runStatements"
  BY <1>4, <1>5, <1>8 DEF Fits
<1>9. ASSUME InCtx(t)  PROVE P = {"ctx"} /\ txn[t].nextStep \in ContextSteps
  BY <1>4, <1>5, <1>9 DEF Fits
<1>10. ASSUME InScript(t)
       PROVE  P = {"script"} /\ txn[t].nextStep \in {"deliverTransactionCallback", "deliverStatementCallback"}
  BY <1>4, <1>5, <1>10 DEF Fits
<1>11. ASSUME InHandle(t)  PROVE P = {"handle"} /\ txn[t].nextStep = "acquireLock"
  BY <1>4, <1>5, <1>6, <1>11
<1>12. ASSUME InPending(t)  PROVE P = {"pending"} /\ txn[t].nextStep = "acquireLock"
  BY <1>4, <1>5, <1>6, <1>12
<1> QED BY <1>3, <1>4, <1>7, <1>8, <1>9, <1>10, <1>11, <1>12

\* A transaction stays where it is.
LEMMA PlacesKept ==
  ASSUME NEW t, InHandle(t)' <=> InHandle(t), InPending(t)' <=> InPending(t), InDb(t)' <=> InDb(t),
         InLoop(t)' <=> InLoop(t), InCtx(t)' <=> InCtx(t), InScript(t)' <=> InScript(t)
  PROVE  PlacesOf(t)' = PlacesOf(t)
  BY DEF PlacesOf

\* A transaction that is in one place after a step.
LEMMA PlacesThen ==
  ASSUME NEW t
  PROVE  /\ ~InHandle(t)' /\ ~InPending(t)' /\ ~InLoop(t)' /\ ~InCtx(t)' /\ ~InScript(t)' =>
              (InDb(t)' => PlacesOf(t)' = {"db"}) /\ (~InDb(t)' => PlacesOf(t)' = {})
         /\ ~InHandle(t)' /\ ~InPending(t)' /\ ~InDb(t)' /\ ~InCtx(t)' /\ ~InScript(t)' =>
              (InLoop(t)' => PlacesOf(t)' = {"loop"})
         /\ ~InHandle(t)' /\ ~InPending(t)' /\ ~InDb(t)' /\ ~InLoop(t)' /\ ~InScript(t)' =>
              (InCtx(t)' => PlacesOf(t)' = {"ctx"})
         /\ ~InHandle(t)' /\ ~InPending(t)' /\ ~InDb(t)' /\ ~InLoop(t)' /\ ~InCtx(t)' =>
              (InScript(t)' => PlacesOf(t)' = {"script"})
         /\ ~InHandle(t)' /\ ~InDb(t)' /\ ~InLoop(t)' /\ ~InCtx(t)' /\ ~InScript(t)' =>
              (InPending(t)' => PlacesOf(t)' = {"pending"})
         /\ ~InPending(t)' /\ ~InDb(t)' /\ ~InLoop(t)' /\ ~InCtx(t)' /\ ~InScript(t)' =>
              (InHandle(t)' => PlacesOf(t)' = {"handle"})
  BY DEF PlacesOf, Places

\* A transaction that a step does not touch.
LEMMA LifeUnchanged ==
  ASSUME NEW t, LifeOf(t), txn'[t] = txn[t], PlacesOf(t)' = PlacesOf(t), IsActive(t)' <=> IsActive(t),
         Stopped(HandleOf(t))' <=> Stopped(HandleOf(t)), Down' <=> Down
  PROVE  LifeOf(t)'
  BY DEF LifeOf, Life

\* Steps after which no more transactions are in progress, and no more have
\* an SQLite transaction.
LEMMA OneAtATimeKept ==
  ASSUME OneAtATime, Created' = Created,
         \A t \in Created :
           /\ Stopped(HandleOf(t)) => Stopped(HandleOf(t))'
           /\ ~Stopped(HandleOf(t))' =>
                /\ Started(t)' => Started(t)
                /\ handle'[HandleOf(t)].transactionInProgress = handle[HandleOf(t)].transactionInProgress
           /\ txn'[t].sqlite # "none" => txn[t].sqlite # "none"
  PROVE  OneAtATime'
<1>1. OneStarted'
  BY DEF OneAtATime, OneStarted
<1>2. StartedInProgress'
  BY DEF OneAtATime, StartedInProgress
<1>3. OneOpen'
  BY DEF OneAtATime, OneOpen
<1> QED BY <1>1, <1>2, <1>3 DEF OneAtATime

\* Steps that leave the transactions alone, up to what close() does to the
\* transactions of its handle.
LEMMA QuietStep ==
  ASSUME IInv, txn' = txn, ctxQueue' = ctxQueue, ctxThread' = ctxThread,
         coordinationInfoMap' = coordinationInfoMap, Down' <=> Down,
         \A t \in Created :
           /\ handle'[HandleOf(t)].transactionQueue = handle[HandleOf(t)].transactionQueue
           /\ Stopped(HandleOf(t)) => Stopped(HandleOf(t))'
           /\ InDb(t)' => InDb(t)
           /\ ~Stopped(HandleOf(t))' =>
                /\ handle'[HandleOf(t)].transactionInProgress = handle[HandleOf(t)].transactionInProgress
                /\ InDb(t)' <=> InDb(t)
           /\ InLoop(t)' <=> InLoop(t)
           /\ (dbThread'.at = "return" /\ dbThread'.transaction = t) => (dbThread.at = "return" /\ dbThread.transaction = t)
  PROVE  Lives' /\ OneAtATime' /\ CoordinatorOK' /\ Created' = Created
<1>1. Created' = Created
  BY DEF Created
<1>2. ASSUME NEW t \in Created  PROVE LifeOf(t)'
  <2>1. /\ InHandle(t)' <=> InHandle(t)
        /\ InPending(t)' <=> InPending(t)
        /\ InCtx(t)' <=> InCtx(t)
        /\ InScript(t)' <=> InScript(t)
        /\ IsActive(t)' <=> IsActive(t)
    BY <1>2 DEF InHandle, InPending, InCtx, InScript, IsActive, InfoFor
  <2>2. /\ PlacesOf(t)' \subseteq PlacesOf(t)
        /\ ~Stopped(HandleOf(t))' => PlacesOf(t)' = PlacesOf(t)
    <3>1. InDb(t)' => InDb(t)
      OBVIOUS
    <3>2. InLoop(t)' <=> InLoop(t)
      OBVIOUS
    <3>3. ~Stopped(HandleOf(t))' => (InDb(t)' <=> InDb(t))
      OBVIOUS
    <3>4. PlacesOf(t)' \subseteq PlacesOf(t)
      BY <2>1, <3>1, <3>2 DEF PlacesOf
    <3>5. ~Stopped(HandleOf(t))' => PlacesOf(t)' = PlacesOf(t)
      BY <2>1, <3>2, <3>3 DEF PlacesOf
    <3> QED BY <3>4, <3>5
  <2>3. LifeOf(t) /\ txn'[t] = txn[t]
    BY DEF IInv, Lives
  <2>4. Stopped(HandleOf(t)) => Stopped(HandleOf(t))'
    OBVIOUS
  <2> QED BY <2>1, <2>2, <2>3, <2>4 DEF LifeOf, Life
<1>3. Lives'
  BY <1>1, <1>2 DEF Lives
<1>4. OneAtATime'
  <2>1. ASSUME NEW t \in Created, ~Stopped(HandleOf(t))', Started(t)'  PROVE Started(t)
    BY <2>1 DEF Started, InHandle
  <2> QED BY <1>1, <2>1, OneAtATimeKept DEF IInv
<1>5. CoordinatorOK'
  BY <1>1 DEF IInv, CoordinatorOK, InfoOK
<1> QED BY <1>1, <1>3, <1>4, <1>5

\* A sequence over a set is one over a larger set.
LEMMA LongerSeq ==
  ASSUME NEW S, NEW T, S \subseteq T, NEW q \in Seq(S)
  PROVE  q \in Seq(T)
  OBVIOUS

\* The elements of a sequence.
LEMMA SeqElements ==
  ASSUME NEW T, NEW q \in Seq(T)
  PROVE  ToSet(q) \subseteq T
  BY DEF ToSet

\* QueuesOK after a step that leaves the context thread's queue alone.
LEMMA QueuesThen ==
  ASSUME QueuesOK, Created \subseteq Created', DOMAIN handle \subseteq DOMAIN handle',
         dbQueue' \in Seq(Tasks), NoTwins(dbQueue'), \A task \in ToSet(dbQueue') : TaskOK(task)',
         ctxQueue' = ctxQueue, ctxThread' = ctxThread
  PROVE  QueuesOK'
<1>1. Tasks \subseteq Tasks'
  BY DEF Tasks
<1>2. dbQueue' \in Seq(Tasks')
  BY <1>1, LongerSeq
<1>3. ctxQueue' \in Seq(Created')
  BY LongerSeq DEF QueuesOK
<1>4. Distinct(ctxQueue')
  BY DEF QueuesOK
<1> QED BY <1>2, <1>3, <1>4 DEF QueuesOK

\* A thread that is not the database thread, with tasks that are not steps.
LEMMA ThreadsThen ==
  ASSUME ThreadsOK, dbThread' = dbThread, Created \subseteq Created', DOMAIN handle \subseteq DOMAIN handle',
         Closing => ~handle'[dbThread.handle].opened, killed => killed', killed' \in BOOLEAN,
         sync' \in [Threads -> {"none", "waiting", "completed"}], UNCHANGED <<openDatabaseSet, openSetCopy>>
  PROVE  ThreadsOK'
<1>1. \/ dbThread \in [at: {"loop", "exit", "ended"}]
      \/ dbThread \in [at: {"runStatements", "return"}, transaction: Created]
      \/ dbThread \in [at: {"unschedule", "unregister"}, handle: DOMAIN handle,
                       synchronizer: Threads \cup {"none"}, then: {"loop", "exit"}]
  BY DEF ThreadsOK
<1>2. \/ dbThread' \in [at: {"loop", "exit", "ended"}]
      \/ dbThread' \in [at: {"runStatements", "return"}, transaction: Created']
      \/ dbThread' \in [at: {"unschedule", "unregister"}, handle: DOMAIN handle',
                        synchronizer: Threads \cup {"none"}, then: {"loop", "exit"}]
  BY <1>1
<1>3. (Closing' <=> Closing) /\ (Down' <=> Down)
  BY DEF Closing, Down
<1>4. Threads' = Threads
  BY DEF Threads
<1> QED BY <1>2, <1>3, <1>4 DEF ThreadsOK

\* The task of a transaction is one for that transaction.
LEMMA TransactionTasks ==
  ASSUME IInv
  PROVE  /\ \A task \in ToSet(dbQueue) : task.transaction \in Created => task.kind = "transaction"
         /\ Created \subseteq Transactions /\ NoTransaction \notin Created
  BY NoTransactionAssumption DEF IInv, TransactionsOK, QueuesOK, TaskOK

\* Steps that only change flags of handles, and tasks that are not steps.
LEMMA FlagsStep ==
  ASSUME IInv, handle' \in [DOMAIN handle -> Databases],
         \A h \in DOMAIN handle :
           /\ handle'[h].opened = handle[h].opened /\ handle'[h].returned = handle[h].returned
           /\ handle'[h].opening => handle[h].opening
           /\ handle[h].interrupted => handle'[h].interrupted
           /\ handle'[h].transactionQueue = handle[h].transactionQueue
           /\ handle'[h].transactionInProgress = handle[h].transactionInProgress,
         txn' = txn, ctxQueue' = ctxQueue, ctxThread' = ctxThread, dbThread' = dbThread,
         coordinationInfoMap' = coordinationInfoMap, UNCHANGED <<openDatabaseSet, openSetCopy>>,
         killed => killed', killed' \in BOOLEAN, sync' \in [Threads -> {"none", "waiting", "completed"}],
         dbQueue' \in Seq(Tasks), NoTwins(dbQueue'), \A task \in ToSet(dbQueue') : TaskOK(task) \/ TaskOK(task)',
         \A task : task.kind = "transaction" => (task \in ToSet(dbQueue') <=> task \in ToSet(dbQueue)),
         DeletionOK'
  PROVE  IInv'
<1>1. Created' = Created /\ DOMAIN handle' = DOMAIN handle
  BY DEF Created
<1>2. \A t \in Created : HandleOf(t) \in DOMAIN handle
  BY DEF IInv, TransactionsOK
<1>3. Down' <=> Down
  BY DEF Down, Closing
<1>4. ASSUME NEW t \in Created  PROVE InDb(t)' <=> InDb(t)
  <2>1. \A task \in ToSet(dbQueue) : task.transaction = t => task.kind = "transaction"
    BY <1>4, TransactionTasks
  <2>2. \A task \in ToSet(dbQueue') : task.transaction = t => task.kind = "transaction"
    BY <1>4, TransactionTasks DEF TaskOK
  <2> QED BY <2>1, <2>2 DEF InDb
<1>5. ASSUME NEW t \in Created
      PROVE  /\ handle'[HandleOf(t)].transactionQueue = handle[HandleOf(t)].transactionQueue
             /\ Stopped(HandleOf(t)) => Stopped(HandleOf(t))'
             /\ handle'[HandleOf(t)].transactionInProgress = handle[HandleOf(t)].transactionInProgress
             /\ InLoop(t)' <=> InLoop(t)
             /\ (dbThread'.at = "return" /\ dbThread'.transaction = t) => (dbThread.at = "return" /\ dbThread.transaction = t)
  BY <1>2, <1>5 DEF Stopped, InLoop
<1>6. Lives' /\ OneAtATime' /\ CoordinatorOK'
  BY <1>3, <1>4, <1>5, QuietStep
<1>7. HandlesOK'
  BY <1>1 DEF IInv, HandlesOK, HandleOK
<1>8. TransactionsOK'
  BY <1>1 DEF IInv, TransactionsOK
<1>9. QueuesOK'
  <2>1. \A task \in ToSet(dbQueue') : TaskOK(task)'
    <3> SUFFICES ASSUME NEW task \in ToSet(dbQueue'), TaskOK(task)  PROVE TaskOK(task)'
      OBVIOUS
    <3>1. TaskOK(task) /\ task \in Tasks
      BY SeqElements
    <3>2. task.handle \in DOMAIN handle
      BY <3>1 DEF Tasks
    <3> QED BY <1>1, <3>1, <3>2 DEF TaskOK
  <2> QED BY <1>1, <2>1, QueuesThen DEF IInv
<1>10. ThreadsOK'
  <2>1. Closing => ~handle'[dbThread.handle].opened
    BY DEF IInv, ThreadsOK, Closing
  <2> QED BY <1>1, <2>1, ThreadsThen DEF IInv
<1> QED BY <1>6, <1>7, <1>8, <1>9, <1>10 DEF IInv

\* No handle goes away, so a deletion goes on with handles that exist.
LEMMA DeletionKept ==
  ASSUME IInv, deletion' = deletion, DOMAIN handle \subseteq DOMAIN handle'
  PROVE  DeletionOK'
  BY DEF IInv, DeletionOK

\* The same with the queue as it is, or with a synchronous task in front.
LEMMA SameQueue ==
  ASSUME IInv, dbQueue' = dbQueue
  PROVE  /\ dbQueue' \in Seq(Tasks) /\ NoTwins(dbQueue') /\ \A task \in ToSet(dbQueue') : TaskOK(task)
         /\ \A task : task.kind = "transaction" => (task \in ToSet(dbQueue') <=> task \in ToSet(dbQueue))
  BY DEF IInv, QueuesOK

\* A close or tableNames task is put in front of the queue.
LEMMA TaskInFront ==
  ASSUME IInv, NEW kind \in {"close", "tableNames"}, NEW h \in DOMAIN handle, NEW p \in Threads \cup {"none"},
         dbQueue' = <<Task(kind, h, p)>> \o dbQueue
  PROVE  /\ dbQueue' \in Seq(Tasks) /\ NoTwins(dbQueue') /\ \A task \in ToSet(dbQueue') : TaskOK(task)
         /\ \A task : task.kind = "transaction" => (task \in ToSet(dbQueue') <=> task \in ToSet(dbQueue))
<1>1. PICK new : new = Task(kind, h, p)
  OBVIOUS
<1>2. new \in Tasks /\ TaskOK(new) /\ new.kind = kind
  BY <1>1 DEF Task, Tasks, TaskOK
<1>p. PICK first : first = <<new>>
  OBVIOUS
<1>3. first \in Seq(Tasks) /\ ToSet(first) = {new} /\ NoTwins(first)
  BY <1>p, <1>2, SingleQueue
<1>4. dbQueue \in Seq(Tasks) /\ NoTwins(dbQueue) /\ \A task \in ToSet(dbQueue) : TaskOK(task)
  BY DEF IInv, QueuesOK
<1>5. \A a : ~Same(a, new) /\ ~Same(new, a)
  BY <1>2 DEF Same
<1>6. dbQueue' = first \o dbQueue
  BY <1>1, <1>p
<1>8. \A a \in ToSet(first), b \in ToSet(dbQueue) : ~Same(a, b) /\ ~Same(b, a)
  BY <1>3, <1>5
<1>7. dbQueue' \in Seq(Tasks) /\ ToSet(dbQueue') = {new} \cup ToSet(dbQueue) /\ NoTwins(dbQueue')
  BY <1>3, <1>4, <1>6, <1>8, JoinedQueues
<1> QED BY <1>2, <1>4, <1>7

-----------------------------------------------------------------------------
(* One lemma per action: requests and waiting                              *)

\* Initially there is nothing.
LEMMA InitOK == Init => IInv
<1> SUFFICES ASSUME Init  PROVE IInv
  OBVIOUS
<1> USE DEF Init
<1>1. DOMAIN handle = {} /\ Created = {} /\ DOMAIN coordinationInfoMap = {}
  BY DEF Created
<1>2. HandlesOK
  BY <1>1 DEF HandlesOK
<1>3. TransactionsOK
  BY <1>1 DEF TransactionsOK, Created
<1>4. QueuesOK
  <2>1. dbQueue \in Seq(Tasks) /\ ctxQueue \in Seq(Created)
    OBVIOUS
  <2>2. DOMAIN dbQueue = {} /\ DOMAIN ctxQueue = {}
    OBVIOUS
  <2> QED BY <2>1, <2>2 DEF QueuesOK, NoTwins, Distinct, ToSet
<1>5. ThreadsOK
  BY DEF ThreadsOK, Loop, Closing, Down
<1>6. CoordinatorOK
  BY <1>1 DEF CoordinatorOK
<1>7. DeletionOK
  BY DEF DeletionOK, NoDeletion
<1>8. Lives /\ OneAtATime
  BY <1>1 DEF Lives, OneAtATime, OneStarted, StartedInProgress, OneOpen
<1> QED BY <1>2, <1>3, <1>4, <1>5, <1>6, <1>7, <1>8 DEF IInv

\* The types of handles and threads.
LEMMA Types ==
  ASSUME IInv
  PROVE  /\ handle \in [DOMAIN handle -> Databases] /\ sync \in [Threads -> {"none", "waiting", "completed"}]
         /\ killed \in BOOLEAN
  BY DEF IInv, HandlesOK, ThreadsOK

\* A step that changes nothing.
LEMMA StutterOK ==
  ASSUME IInv, UNCHANGED vars
  PROVE  IInv'
<1> USE DEF vars
<1>1. DeletionOK'
  BY DeletionKept
<1> QED BY <1>1, SameQueue, Types, FlagsStep

\* waitForTaskCompletion returns.
LEMMA WaitForTaskCompletionOK ==
  ASSUME IInv, NEW p \in Threads, WaitForTaskCompletion(p)
  PROVE  IInv'
<1> USE DEF WaitForTaskCompletion
<1>1. ASSUME NEW h \in DOMAIN handle
      PROVE  /\ handle'[h] \in Databases
             /\ handle'[h].opened = handle[h].opened /\ handle'[h].returned = handle[h].returned
             /\ handle'[h].opening = handle[h].opening
             /\ handle[h].interrupted => handle'[h].interrupted
             /\ handle'[h].transactionQueue = handle[h].transactionQueue
             /\ handle'[h].transactionInProgress = handle[h].transactionInProgress
  <2>1. PICK r : r = (handle[h].registered /\ (p = "context" => handle[h].returned))
    OBVIOUS
  <2>2. r \in BOOLEAN
    BY <2>1
  <2>3. handle'[h] = [handle[h] EXCEPT !.registered = r]
    BY <1>1, <2>1
  <2>4. handle[h] \in Databases
    BY <1>1, Types
  <2> QED BY <2>2, <2>3, <2>4 DEF Databases
<1>2. DOMAIN handle' = DOMAIN handle
  OBVIOUS
<1>3. handle' \in [DOMAIN handle -> Databases]
  <2>1. handle' = [h \in DOMAIN handle |-> handle'[h]]
    OBVIOUS
  <2> QED BY <1>1, <2>1
<1>4. sync' \in [Threads -> {"none", "waiting", "completed"}]
  BY Types
<1>5. DeletionOK'
  BY <1>2, DeletionKept
<1>6. killed' = killed /\ killed' \in BOOLEAN
  BY Types
<1>7. /\ txn' = txn /\ ctxQueue' = ctxQueue /\ ctxThread' = ctxThread /\ dbThread' = dbThread
      /\ coordinationInfoMap' = coordinationInfoMap /\ UNCHANGED <<openDatabaseSet, openSetCopy>> /\ dbQueue' = dbQueue
  OBVIOUS
<1> QED BY <1>1, <1>3, <1>4, <1>5, <1>6, <1>7, SameQueue, FlagsStep DEF WaitForTaskCompletion

\* deleteDatabase collects the handles to close.
LEMMA DeleteDatabaseOK ==
  ASSUME IInv, NEW n \in {NameOf(h) : h \in Handles}, DeleteDatabase(n)
  PROVE  IInv'
<1> USE DEF DeleteDatabase
<1>1. DeletionOK'
  BY DEF DeletionOK
<1> QED BY <1>1, SameQueue, Types, FlagsStep

\* deleteDatabase returns.
LEMMA DoneDeletingDatabaseOK ==
  ASSUME IInv, DoneDeletingDatabase
  PROVE  IInv'
<1> USE DEF DoneDeletingDatabase
<1>1. DeletionOK'
  BY DEF DeletionOK, NoDeletion
<1> QED BY <1>1, SameQueue, Types, FlagsStep

\* markAsDeletedAndClose marks a handle.
LEMMA MarkAsDeletedAndCloseOK ==
  ASSUME IInv, NEW h \in Handles, MarkAsDeletedAndClose(h)
  PROVE  IInv'
<1> USE DEF MarkAsDeletedAndClose
<1>1. h \in DOMAIN handle
  BY DEF IInv, DeletionOK
<1>2. handle' \in [DOMAIN handle -> Databases]
  <2>1. PICK d : d = [handle[h] EXCEPT !.deleted = TRUE]
    OBVIOUS
  <2>2. handle[h] \in Databases
    BY <1>1, Types
  <2>3. d \in Databases
    BY <2>1, <2>2 DEF Databases
  <2>4. handle' = [handle EXCEPT ![h] = d]
    BY <2>1
  <2> QED BY <1>1, <2>3, <2>4, Types
<1>3. \A g \in DOMAIN handle :
        /\ handle'[g].opened = handle[g].opened /\ handle'[g].returned = handle[g].returned
        /\ handle'[g].opening = handle[g].opening
        /\ handle[g].interrupted => handle'[g].interrupted
        /\ handle'[g].transactionQueue = handle[g].transactionQueue
        /\ handle'[g].transactionInProgress = handle[g].transactionInProgress
  BY <1>1, Types DEF Databases
<1>4. DeletionOK'
  BY <1>2 DEF IInv, DeletionOK
<1> QED BY <1>2, <1>3, <1>4, SameQueue, Types, FlagsStep

\* markAsDeletedAndClose schedules a close task and waits.
LEMMA ScheduleCloseTaskOK ==
  ASSUME IInv, NEW h \in Handles, ScheduleCloseTask(h)
  PROVE  IInv'
<1> USE DEF ScheduleCloseTask
<1>1. h \in DOMAIN handle
  BY DEF IInv, DeletionOK
<1>2. DeletionOK'
  BY DEF IInv, DeletionOK
<1>3. MainThread \in Threads
  BY MainThreadAssumption DEF Threads
<1>4. sync' \in [Threads -> {"none", "waiting", "completed"}]
  BY <1>3, Types DEF ScheduleAndWait
<1>5. /\ dbQueue' \in Seq(Tasks) /\ NoTwins(dbQueue') /\ \A task \in ToSet(dbQueue') : TaskOK(task)
      /\ \A task : task.kind = "transaction" => (task \in ToSet(dbQueue') <=> task \in ToSet(dbQueue))
  BY <1>1, <1>3, TaskInFront DEF ScheduleAndWait
<1> QED BY <1>2, <1>4, <1>5, Types, FlagsStep

\* closeImmediately schedules a close task and does not wait.
LEMMA CloseImmediatelyOK ==
  ASSUME IInv, NEW h \in Handles, CloseImmediately(h)
  PROVE  IInv'
<1> USE DEF CloseImmediately
<1>1. DeletionOK'
  BY DeletionKept
<1>2. /\ dbQueue' \in Seq(Tasks) /\ NoTwins(dbQueue') /\ \A task \in ToSet(dbQueue') : TaskOK(task)
      /\ \A task : task.kind = "transaction" => (task \in ToSet(dbQueue') <=> task \in ToSet(dbQueue))
  BY TaskInFront
<1> QED BY <1>1, <1>2, Types, FlagsStep

\* A handle is interrupted.
LEMMA InterruptOK ==
  ASSUME IInv, NEW h \in Handles, Interrupt(h)
  PROVE  IInv'
<1> USE DEF Interrupt
<1>2. handle' \in [DOMAIN handle -> Databases]
  <2>1. PICK d : d = [handle[h] EXCEPT !.interrupted = TRUE]
    OBVIOUS
  <2>2. handle[h] \in Databases
    BY Types
  <2>3. d \in Databases
    BY <2>1, <2>2 DEF Databases
  <2>4. handle' = [handle EXCEPT ![h] = d]
    BY <2>1
  <2> QED BY <2>3, <2>4, Types
<1>3. \A g \in DOMAIN handle :
        /\ handle'[g].opened = handle[g].opened /\ handle'[g].returned = handle[g].returned
        /\ handle'[g].opening = handle[g].opening
        /\ handle[g].interrupted => handle'[g].interrupted
        /\ handle'[g].transactionQueue = handle[g].transactionQueue
        /\ handle'[g].transactionInProgress = handle[g].transactionInProgress
  BY Types DEF Databases
<1>4. DeletionOK'
  BY <1>2, DeletionKept
<1> QED BY <1>2, <1>3, <1>4, SameQueue, Types, FlagsStep

\* tableNames schedules a task and waits.
LEMMA TableNamesOK ==
  ASSUME IInv, NEW h \in Handles, TableNames(h)
  PROVE  IInv'
<1> USE DEF TableNames, Visible
<1>1. DeletionOK'
  BY DeletionKept
<1>2. "context" \in Threads
  BY DEF Threads
<1>3. sync' \in [Threads -> {"none", "waiting", "completed"}]
  BY <1>2, Types DEF ScheduleAndWait
<1>4. /\ dbQueue' \in Seq(Tasks) /\ NoTwins(dbQueue') /\ \A task \in ToSet(dbQueue') : TaskOK(task)
      /\ \A task : task.kind = "transaction" => (task \in ToSet(dbQueue') <=> task \in ToSet(dbQueue))
  BY <1>2, TaskInFront DEF ScheduleAndWait
<1> QED BY <1>1, <1>3, <1>4, Types, FlagsStep

\* The thread's queue is killed.
LEMMA RequestTerminationOK ==
  ASSUME IInv, RequestTermination
  PROVE  IInv'
<1> USE DEF RequestTermination
<1>1. DeletionOK'
  BY DeletionKept
<1>2. sync' \in [Threads -> {"none", "waiting", "completed"}]
  BY Types DEF Threads
<1> QED BY <1>1, <1>2, SameQueue, Types, FlagsStep

-----------------------------------------------------------------------------
(* One lemma per action: opening and closing                               *)

\* openDatabase makes a handle.
LEMMA OpenDatabaseOK ==
  ASSUME IInv, NEW h \in Handles, OpenDatabase(h)
  PROVE  IInv'
<1> USE DEF OpenDatabase
<1>2. /\ DOMAIN handle' = DOMAIN handle \cup {h} /\ handle'[h] = NewDatabase
      /\ \A g \in DOMAIN handle : handle'[g] = handle[g] /\ g # h
  OBVIOUS
<1>3. Created' = Created /\ dbQueue' = dbQueue
  BY DEF Created
<1>4. \A t \in Created : HandleOf(t) \in DOMAIN handle
  BY DEF IInv, TransactionsOK
<1>5. Down' <=> Down
  BY DEF Down, Closing
<1>6. ASSUME NEW t \in Created
      PROVE  /\ handle'[HandleOf(t)] = handle[HandleOf(t)]
             /\ Stopped(HandleOf(t))' <=> Stopped(HandleOf(t))
             /\ InDb(t)' <=> InDb(t)
             /\ InLoop(t)' <=> InLoop(t)
             /\ (dbThread'.at = "return" /\ dbThread'.transaction = t) => (dbThread.at = "return" /\ dbThread.transaction = t)
  <2>1. handle'[HandleOf(t)] = handle[HandleOf(t)]
    BY <1>2, <1>4
  <2> QED BY <2>1 DEF Stopped, InDb, InLoop
<1>7. Lives' /\ OneAtATime' /\ CoordinatorOK'
  BY <1>5, <1>6, QuietStep
<1>8. HandlesOK'
  <2>1. NewDatabase \in Databases /\ NewDatabase.transactionQueue = << >> /\ ~NewDatabase.opened
        /\ ~NewDatabase.returned
    BY DEF NewDatabase, Databases
  <2>2. handle' \in [DOMAIN handle' -> Databases]
    BY <1>2, <2>1, Types
  <2>3. HandleOK(h)'
    <3>1. ToSet(<< >>) = {} /\ Distinct(<< >>)
      BY DEF ToSet, Distinct
    <3> QED BY <1>2, <2>1, <3>1 DEF HandleOK
  <2>4. ASSUME NEW g \in DOMAIN handle  PROVE HandleOK(g)'
    <3>1. HandleOK(g) /\ handle'[g] = handle[g]
      BY <1>2, <2>4 DEF IInv, HandlesOK
    <3> QED BY <1>3, <3>1 DEF HandleOK
  <2>5. \A g \in DOMAIN handle' : HandleOK(g)'
    BY <1>2, <2>3, <2>4
  <2> QED BY <1>2, <2>2, <2>5 DEF IInv, HandlesOK
<1>9. TransactionsOK'
  BY <1>2, <1>3 DEF IInv, TransactionsOK
<1>10. QueuesOK'
  <2>1. dbQueue \in Seq(Tasks) /\ NoTwins(dbQueue) /\ \A task \in ToSet(dbQueue) : TaskOK(task)
    BY DEF IInv, QueuesOK
  <2>2. ASSUME NEW task \in ToSet(dbQueue)  PROVE TaskOK(task)'
    <3>1. TaskOK(task) /\ task \in Tasks
      BY <2>1, <2>2, SeqElements
    <3>2. handle'[task.handle] = handle[task.handle]
      BY <1>2, <3>1 DEF Tasks
    <3> QED BY <1>3, <3>1, <3>2 DEF TaskOK
  <2> QED BY <1>2, <1>3, <2>1, <2>2, QueuesThen DEF IInv
<1>11. ThreadsOK'
  <2>1. Closing => ~handle'[dbThread.handle].opened
    BY <1>2 DEF IInv, ThreadsOK, Closing
  <2> QED BY <1>2, <1>3, <2>1, ThreadsThen, Types DEF IInv
<1>12. DeletionOK'
  BY <1>2, DeletionKept
<1> QED BY <1>7, <1>8, <1>9, <1>10, <1>11, <1>12 DEF IInv

\* openAndVerifyVersion schedules the open task and waits.
LEMMA OpenAndVerifyVersionOK ==
  ASSUME IInv, NEW h \in Handles, OpenAndVerifyVersion(h)
  PROVE  IInv'
<1> USE DEF OpenAndVerifyVersion
<1>1. handle[h] \in Databases /\ ~handle[h].returned
  BY Types DEF IInv, HandlesOK, HandleOK
<1>2. handle' \in [DOMAIN handle -> Databases]
  <2>1. PICK d : d = [handle[h] EXCEPT !.opening = FALSE]
    OBVIOUS
  <2>2. d \in Databases
    BY <1>1, <2>1 DEF Databases
  <2>3. handle' = [handle EXCEPT ![h] = d]
    BY <2>1
  <2> QED BY <2>2, <2>3, Types
<1>3. \A g \in DOMAIN handle :
        /\ handle'[g].opened = handle[g].opened /\ handle'[g].returned = handle[g].returned
        /\ handle'[g].opening => handle[g].opening
        /\ handle[g].interrupted => handle'[g].interrupted
        /\ handle'[g].transactionQueue = handle[g].transactionQueue
        /\ handle'[g].transactionInProgress = handle[g].transactionInProgress
  BY Types DEF Databases
<1>4. DeletionOK'
  BY <1>2, DeletionKept
<1>5. sync' \in [Threads -> {"none", "waiting", "completed"}]
  BY Types DEF ScheduleAndWait, Threads
<1>6. PICK new : new = Task("open", h, "context")
  OBVIOUS
<1>7. /\ new.kind = "open" /\ new.handle = h /\ new.transaction = NoTransaction
      /\ new.synchronizer = "context" /\ new \in Tasks
  BY <1>6 DEF Task, Tasks, Threads
<1>8. PICK first : first = <<new>>
  OBVIOUS
<1>9. first \in Seq(Tasks) /\ ToSet(first) = {new} /\ NoTwins(first)
  BY <1>7, <1>8, SingleQueue
<1>10. dbQueue \in Seq(Tasks) /\ NoTwins(dbQueue) /\ \A task \in ToSet(dbQueue) : TaskOK(task)
  BY DEF IInv, QueuesOK
<1>11. \A a \in ToSet(first), b \in ToSet(dbQueue) : ~Same(a, b) /\ ~Same(b, a)
  BY <1>7, <1>9, <1>10 DEF Same, TaskOK
<1>12. dbQueue' = first \o dbQueue
  BY <1>6, <1>8 DEF ScheduleAndWait
<1>13. dbQueue' \in Seq(Tasks) /\ ToSet(dbQueue') = {new} \cup ToSet(dbQueue) /\ NoTwins(dbQueue')
  BY <1>9, <1>10, <1>11, <1>12, JoinedQueues
<1>14. TaskOK(new)'
  <2>1. ~handle'[h].opening /\ ~handle'[h].returned
    BY <1>1, Types DEF Databases
  <2> QED BY <1>7, <2>1 DEF TaskOK
<1>15. \A task \in ToSet(dbQueue') : TaskOK(task) \/ TaskOK(task)'
  BY <1>10, <1>13, <1>14
<1>16. \A task : task.kind = "transaction" => (task \in ToSet(dbQueue') <=> task \in ToSet(dbQueue))
  BY <1>7, <1>13
<1>17. /\ txn' = txn /\ ctxQueue' = ctxQueue /\ ctxThread' = ctxThread /\ dbThread' = dbThread
       /\ coordinationInfoMap' = coordinationInfoMap /\ UNCHANGED <<openDatabaseSet, openSetCopy>>
       /\ killed' = killed /\ killed' \in BOOLEAN
  BY Types
<1> HIDE DEF OpenAndVerifyVersion
<1> QED BY <1>2, <1>3, <1>4, <1>5, <1>13, <1>15, <1>16, <1>17, FlagsStep

\* The task that the database thread takes, and the rest.
LEMMA FirstTask ==
  ASSUME IInv, dbQueue # << >>
  PROVE  /\ Head(dbQueue) \in Tasks /\ TaskOK(Head(dbQueue))
         /\ Tail(dbQueue) \in Seq(Tasks) /\ NoTwins(Tail(dbQueue))
         /\ ToSet(dbQueue) = ToSet(Tail(dbQueue)) \cup {Head(dbQueue)}
         /\ \A task \in ToSet(Tail(dbQueue)) : TaskOK(task) /\ ~Same(task, Head(dbQueue)) /\ task \in Tasks
<1>1. dbQueue \in Seq(Tasks) /\ NoTwins(dbQueue) /\ \A task \in ToSet(dbQueue) : TaskOK(task)
  BY DEF IInv, QueuesOK
<1>2. PICK q : q = dbQueue
  OBVIOUS
<1>3. /\ Head(q) \in Tasks /\ Head(q) \in ToSet(q) /\ Tail(q) \in Seq(Tasks)
      /\ ToSet(q) = ToSet(Tail(q)) \cup {Head(q)}
      /\ NoTwins(Tail(q)) /\ \A a \in ToSet(Tail(q)) : ~Same(a, Head(q))
  BY <1>1, <1>2, TailOfQueue
<1>4. ToSet(Tail(q)) \subseteq Tasks
  BY <1>3, SeqElements
<1> QED BY <1>1, <1>2, <1>3, <1>4

\* taskCompleted keeps the type of the synchronizers.
LEMMA CompleteOK ==
  ASSUME IInv, NEW p, Complete(p)
  PROVE  sync' \in [Threads -> {"none", "waiting", "completed"}]
  BY Types DEF Complete

\* The database thread lists the tables.
LEMMA PerformTableNamesTaskOK ==
  ASSUME IInv, PerformTableNamesTask
  PROVE  IInv'
<1> USE DEF PerformTableNamesTask, Takable
<1>1. DeletionOK'
  BY DeletionKept
<1>2. sync' \in [Threads -> {"none", "waiting", "completed"}]
  BY CompleteOK
<1>3. /\ dbQueue' \in Seq(Tasks) /\ NoTwins(dbQueue') /\ \A task \in ToSet(dbQueue') : TaskOK(task)
      /\ \A task : task.kind = "transaction" => (task \in ToSet(dbQueue') <=> task \in ToSet(dbQueue))
  <2>1. dbQueue # << >> /\ dbQueue' = Tail(dbQueue) /\ Head(dbQueue).kind = "tableNames"
    OBVIOUS
  <2>2. PICK first : first = Head(dbQueue)
    OBVIOUS
  <2>3. ToSet(dbQueue) = ToSet(dbQueue') \cup {first} /\ first.kind # "transaction"
    BY <2>1, <2>2, FirstTask
  <2>4. \A task : task.kind = "transaction" => (task \in ToSet(dbQueue') <=> task \in ToSet(dbQueue))
    BY <2>3
  <2>5. dbQueue' \in Seq(Tasks) /\ NoTwins(dbQueue') /\ \A task \in ToSet(dbQueue') : TaskOK(task)
    BY <2>1, FirstTask
  <2> QED BY <2>4, <2>5
<1> QED BY <1>1, <1>2, <1>3, Types, FlagsStep

\* The database thread opens a database, or fails to.
LEMMA PerformOpenTaskOK ==
  ASSUME IInv, PerformOpenTask
  PROVE  IInv'
<1> USE DEF PerformOpenTask, Takable
<1>0. dbQueue # << >> /\ dbQueue' = Tail(dbQueue) /\ dbThread = Loop
  OBVIOUS
<1>1. PICK task : task = Head(dbQueue)
  OBVIOUS
<1>2. PICK h : h = task.handle
  OBVIOUS
<1>3. /\ task.kind = "open" /\ task \in Tasks /\ TaskOK(task) /\ h \in DOMAIN handle /\ ~handle[h].returned
      /\ ~handle[h].opening /\ task.transaction = NoTransaction
  BY <1>1, <1>2, FirstTask DEF TaskOK, Tasks
<1>4. PICK success \in BOOLEAN :
        /\ handle' = [handle EXCEPT ![h].opened = success, ![h].returned = success]
        /\ openDatabaseSet' = IF success THEN openDatabaseSet \cup {h} ELSE openDatabaseSet
  BY <1>1, <1>2
<1>5. /\ DOMAIN handle' = DOMAIN handle
      /\ \A g \in DOMAIN handle : g # h => handle'[g] = handle[g]
  BY <1>4
<1>6. /\ handle'[h] \in Databases /\ handle'[h].opened = success /\ handle'[h].returned = success
      /\ handle'[h].opening = handle[h].opening
      /\ handle'[h].transactionQueue = handle[h].transactionQueue
  <2>1. handle[h] \in Databases
    BY <1>3, Types
  <2>2. handle'[h] = [handle[h] EXCEPT !.opened = success, !.returned = success]
    BY <1>3, <1>4
  <2> QED BY <2>1, <2>2 DEF Databases
<1>7. Created' = Created
  BY DEF Created
<1>8. \A t \in Created : HandleOf(t) \in DOMAIN handle /\ HandleOf(t) # h /\ t # NoTransaction
  BY <1>3, TransactionTasks DEF IInv, TransactionsOK
<1>9. /\ Tail(dbQueue) \in Seq(Tasks) /\ NoTwins(Tail(dbQueue))
      /\ ToSet(dbQueue) = ToSet(Tail(dbQueue)) \cup {task}
      /\ \A a \in ToSet(Tail(dbQueue)) : TaskOK(a) /\ ~Same(a, task) /\ a \in Tasks
  BY <1>0, <1>1, FirstTask
<1>10. Down' <=> Down
  BY DEF Down, Closing
<1>11. ASSUME NEW t \in Created
       PROVE  /\ handle'[HandleOf(t)] = handle[HandleOf(t)]
              /\ Stopped(HandleOf(t))' <=> Stopped(HandleOf(t))
              /\ InDb(t)' <=> InDb(t)
              /\ InLoop(t)' <=> InLoop(t)
              /\ (dbThread'.at = "return" /\ dbThread'.transaction = t) => (dbThread.at = "return" /\ dbThread.transaction = t)
  <2>1. handle'[HandleOf(t)] = handle[HandleOf(t)]
    BY <1>5, <1>8
  <2>2. InDb(t)' <=> InDb(t)
    BY <1>0, <1>3, <1>8, <1>9 DEF InDb
  <2> QED BY <2>1, <2>2 DEF Stopped, InLoop
<1>12. Lives' /\ OneAtATime' /\ CoordinatorOK'
  BY <1>10, <1>11, QuietStep
<1>13. HandlesOK'
  <2>1. handle' \in [DOMAIN handle' -> Databases]
    <3>1. \A g \in DOMAIN handle : handle'[g] \in Databases
      BY <1>5, <1>6, Types
    <3>2. handle' = [g \in DOMAIN handle |-> handle'[g]]
      BY <1>4, Types
    <3> QED BY <1>5, <3>1, <3>2
  <2>2. \A g \in DOMAIN handle : HandleOK(g)
    BY DEF IInv, HandlesOK
  <2>3. HandleOK(h)'
    BY <1>3, <1>4, <1>6, <1>7, <2>2 DEF HandleOK
  <2>4. ASSUME NEW g \in DOMAIN handle, g # h  PROVE HandleOK(g)'
    <3>1. handle'[g] = handle[g] /\ openDatabaseSet \subseteq openDatabaseSet' /\ openSetCopy' = openSetCopy
      BY <1>4, <1>5, <2>4
    <3> QED BY <1>7, <2>2, <3>1 DEF HandleOK
  <2>5. \A g \in DOMAIN handle' : HandleOK(g)'
    BY <1>5, <2>3, <2>4
  <2>6. openDatabaseSet' \subseteq DOMAIN handle' /\ openSetCopy' \subseteq DOMAIN handle'
    BY <1>3, <1>4, <1>5 DEF IInv, HandlesOK
  <2> QED BY <1>5, <2>1, <2>5, <2>6 DEF IInv, HandlesOK
<1>14. TransactionsOK'
  <2>1. \A t \in Created : HandleOf(t) \in DOMAIN handle' /\ handle'[HandleOf(t)].returned
    BY <1>5, <1>8 DEF IInv, TransactionsOK
  <2> QED BY <1>7, <2>1 DEF IInv, TransactionsOK
<1>15. QueuesOK'
  <2>1. ASSUME NEW a \in ToSet(dbQueue')  PROVE TaskOK(a)'
    <3>1. TaskOK(a) /\ ~Same(a, task) /\ a.handle \in DOMAIN handle
      BY <1>0, <1>9, <2>1 DEF Tasks
    <3>2. a.kind = "open" => a.handle # h
      BY <1>2, <1>3, <3>1 DEF Same, TaskOK
    <3>3. a.kind = "open" => handle'[a.handle] = handle[a.handle]
      BY <1>5, <3>1, <3>2
    <3> QED BY <1>7, <3>1, <3>3 DEF TaskOK
  <2> QED BY <1>0, <1>5, <1>7, <1>9, <2>1, QueuesThen DEF IInv
<1>16. ThreadsOK'
  <2>1. dbThread' = Loop /\ killed' = killed /\ openSetCopy' = {}
    BY <1>0 DEF IInv, ThreadsOK, Loop, Closing, Down
  <2>2. sync' \in [Threads -> {"none", "waiting", "completed"}]
    BY CompleteOK
  <2> QED BY <2>1, <2>2, Types DEF ThreadsOK, Loop, Closing, Down
<1>17. DeletionOK'
  BY <1>5, DeletionKept
<1> QED BY <1>12, <1>13, <1>14, <1>15, <1>16, <1>17 DEF IInv

\* Database::close up to the call of recordDatabaseClosed.
LEMMA CloseOK ==
  ASSUME IInv, NEW h \in DOMAIN handle, NEW p \in Threads \cup {"none"}, NEW then \in {"loop", "exit"},
         Close(h, p, then), dbThread.at \in {"loop", "exit"}, Down <=> then = "exit",
         txn' = txn, killed' = killed, coordinationInfoMap' = coordinationInfoMap,
         openDatabaseSet' = openDatabaseSet, openSetCopy' \in {openSetCopy, openSetCopy \ {h}},
         ctxQueue' = ctxQueue, ctxThread' = ctxThread, sync' = sync, deletion' = deletion,
         dbQueue' \in Seq(Tasks), NoTwins(dbQueue'), \A task \in ToSet(dbQueue') : TaskOK(task),
         \A task : task.kind = "transaction" => (task \in ToSet(dbQueue') <=> task \in ToSet(dbQueue))
  PROVE  IInv'
<1> USE DEF Close
<1>1. /\ DOMAIN handle' = DOMAIN handle
      /\ \A g \in DOMAIN handle : g # h => handle'[g] = handle[g]
  OBVIOUS
<1>2. /\ handle'[h] \in Databases /\ ~handle'[h].opened /\ handle'[h].returned = handle[h].returned
      /\ handle'[h].opening = handle[h].opening
      /\ handle'[h].transactionQueue = handle[h].transactionQueue
  <2>1. handle[h] \in Databases
    BY Types
  <2>2. handle'[h] = [handle[h] EXCEPT !.transactionQueueEnabled = FALSE, !.transactionInProgress = FALSE,
                                       !.opened = FALSE]
    OBVIOUS
  <2> QED BY <2>1, <2>2 DEF Databases
<1>3. /\ dbThread'.at = "unschedule" /\ dbThread'.handle = h /\ dbThread'.then = then
      /\ dbThread' \in [at: {"unschedule", "unregister"}, handle: DOMAIN handle,
                        synchronizer: Threads \cup {"none"}, then: {"loop", "exit"}]
  OBVIOUS
<1>4. Created' = Created
  BY DEF Created
<1>5. Down' <=> Down
  BY <1>3 DEF Down, Closing
<1>6. ASSUME NEW t \in Created
      PROVE  /\ handle'[HandleOf(t)].transactionQueue = handle[HandleOf(t)].transactionQueue
             /\ Stopped(HandleOf(t)) => Stopped(HandleOf(t))'
             /\ ~Stopped(HandleOf(t))' =>
                  handle'[HandleOf(t)].transactionInProgress = handle[HandleOf(t)].transactionInProgress
             /\ InDb(t)' <=> InDb(t)
             /\ InLoop(t)' <=> InLoop(t)
             /\ (dbThread'.at = "return" /\ dbThread'.transaction = t) => (dbThread.at = "return" /\ dbThread.transaction = t)
  <2>1. HandleOf(t) \in DOMAIN handle
    BY <1>6 DEF IInv, TransactionsOK
  <2>2. CASE HandleOf(t) = h
    <3>1. Stopped(HandleOf(t))' /\ handle'[HandleOf(t)].transactionQueue = handle[HandleOf(t)].transactionQueue
      BY <1>2, <2>2 DEF Stopped
    <3>2. \A task \in ToSet(dbQueue) : task.transaction = t => task.kind = "transaction"
      BY <1>6, TransactionTasks
    <3>3. \A task \in ToSet(dbQueue') : task.transaction = t => task.kind = "transaction"
      BY <1>6, TransactionTasks DEF TaskOK
    <3>4. InDb(t)' <=> InDb(t)
      BY <3>2, <3>3 DEF InDb
    <3> QED BY <1>3, <3>1, <3>4 DEF InLoop
  <2>3. CASE HandleOf(t) # h
    <3>1. handle'[HandleOf(t)] = handle[HandleOf(t)]
      BY <1>1, <2>1, <2>3
    <3>2. \A task \in ToSet(dbQueue) : task.transaction = t => task.kind = "transaction"
      BY <1>6, TransactionTasks
    <3>3. \A task \in ToSet(dbQueue') : task.transaction = t => task.kind = "transaction"
      BY <1>6, TransactionTasks DEF TaskOK
    <3>4. InDb(t)' <=> InDb(t)
      BY <3>2, <3>3 DEF InDb
    <3> QED BY <1>3, <3>1, <3>4 DEF InLoop, Stopped
  <2> QED BY <2>2, <2>3
<1>7. Lives' /\ OneAtATime' /\ CoordinatorOK'
  BY <1>5, <1>6, QuietStep
<1>8. HandlesOK'
  <2>1. handle' \in [DOMAIN handle' -> Databases]
    <3>1. \A g \in DOMAIN handle : handle'[g] \in Databases
      BY <1>1, <1>2, Types
    <3>2. handle' = [g \in DOMAIN handle |-> handle'[g]]
      BY Types
    <3> QED BY <1>1, <3>1, <3>2
  <2>2. \A g \in DOMAIN handle : HandleOK(g)
    BY DEF IInv, HandlesOK
  <2>3. HandleOK(h)'
    BY <1>2, <1>4, <2>2 DEF HandleOK
  <2>4. ASSUME NEW g \in DOMAIN handle, g # h  PROVE HandleOK(g)'
    BY <1>1, <1>4, <2>2, <2>4 DEF HandleOK
  <2>5. \A g \in DOMAIN handle' : HandleOK(g)'
    BY <1>1, <2>3, <2>4
  <2> QED BY <1>1, <2>1, <2>5 DEF IInv, HandlesOK
<1>9. \A g \in DOMAIN handle : handle'[g].returned = handle[g].returned /\ handle'[g].opening = handle[g].opening
  BY <1>1, <1>2
<1>10. TransactionsOK'
  BY <1>1, <1>4, <1>9 DEF IInv, TransactionsOK
<1>11. QueuesOK'
  <2>1. ASSUME NEW task \in ToSet(dbQueue')  PROVE TaskOK(task)'
    <3>1. TaskOK(task) /\ task \in Tasks
      BY <2>1, SeqElements
    <3>2. task.handle \in DOMAIN handle
      BY <3>1 DEF Tasks
    <3> QED BY <1>4, <1>9, <3>1, <3>2 DEF TaskOK
  <2> QED BY <1>1, <1>4, <2>1, QueuesThen DEF IInv
<1>12. ThreadsOK'
  <2>1. (Down' => killed' /\ openDatabaseSet' = {}) /\ (~Down' => openSetCopy' = {})
    BY <1>5 DEF IInv, ThreadsOK
  <2>2. ~handle'[dbThread'.handle].opened
    BY <1>2, <1>3
  <2>3. killed' \in BOOLEAN /\ sync' \in [Threads -> {"none", "waiting", "completed"}]
    BY Types
  <2> QED BY <1>1, <1>3, <2>1, <2>2, <2>3 DEF ThreadsOK
<1>13. DeletionOK'
  BY <1>1, DeletionKept
<1> QED BY <1>7, <1>8, <1>10, <1>11, <1>12, <1>13 DEF IInv

\* A close task starts to close its database.
LEMMA PerformCloseTaskOK ==
  ASSUME IInv, PerformCloseTask
  PROVE  IInv'
<1> USE DEF PerformCloseTask, Takable
<1>1. PICK task : task = Head(dbQueue)
  OBVIOUS
<1>2. /\ dbQueue # << >> /\ dbQueue' = Tail(dbQueue) /\ task.kind = "close" /\ dbThread = Loop
      /\ Close(task.handle, task.synchronizer, "loop")
  BY <1>1
<1>3. task \in Tasks /\ TaskOK(task)
  BY <1>1, <1>2, FirstTask
<1>4. task.handle \in DOMAIN handle /\ task.synchronizer \in Threads \cup {"none"}
  BY <1>3 DEF Tasks
<1>5. dbThread.at = "loop" /\ ~Down
  BY <1>2 DEF Loop, Down, Closing
<1>6. /\ dbQueue' \in Seq(Tasks) /\ NoTwins(dbQueue')
      /\ ToSet(dbQueue) = ToSet(dbQueue') \cup {task}
      /\ \A a \in ToSet(dbQueue') : TaskOK(a)
  BY <1>1, <1>2, FirstTask
<1>7. \A a : a.kind = "transaction" => (a \in ToSet(dbQueue') <=> a \in ToSet(dbQueue))
  BY <1>2, <1>6
<1> QED BY <1>2, <1>4, <1>5, <1>6, <1>7, CloseOK

\* The ending thread starts to close a database.
LEMMA CloseAtExitOK ==
  ASSUME IInv, NEW h \in Handles, CloseAtExit(h)
  PROVE  IInv'
<1> USE DEF CloseAtExit
<1>1. h \in DOMAIN handle
  BY DEF IInv, HandlesOK
<1>2. dbThread.at = "exit" /\ Down
  BY DEF Down
<1>3. "none" \in Threads \cup {"none"} /\ Close(h, "none", "exit")
  OBVIOUS
<1> QED BY <1>1, <1>2, <1>3, SameQueue, CloseOK

\* close() takes the tasks of its handle off the queue: their transactions get stuck,
\* on a handle that is closed already.
LEMMA UnscheduleDatabaseTasksOK ==
  ASSUME IInv, UnscheduleDatabaseTasks
  PROVE  IInv'
<1> USE DEF UnscheduleDatabaseTasks
<1>1. PICK h : h = dbThread.handle
  OBVIOUS
<1>2. dbThread \in [at: {"unschedule", "unregister"}, handle: DOMAIN handle,
                    synchronizer: Threads \cup {"none"}, then: {"loop", "exit"}]
  BY DEF IInv, ThreadsOK
<1>3. /\ dbThread'.at = "unregister" /\ dbThread'.handle = h /\ dbThread'.then = dbThread.then
      /\ dbThread' \in [at: {"unschedule", "unregister"}, handle: DOMAIN handle,
                        synchronizer: Threads \cup {"none"}, then: {"loop", "exit"}]
  BY <1>1, <1>2
<1>4. Closing /\ h \in DOMAIN handle /\ ~handle[h].opened
  BY <1>1, <1>2 DEF IInv, ThreadsOK, Closing
<1>5. /\ dbQueue' \in Seq(Tasks) /\ ToSet(dbQueue') = {a \in ToSet(dbQueue) : a.handle # h} /\ NoTwins(dbQueue')
  <2>1. dbQueue \in Seq(Tasks) /\ NoTwins(dbQueue) /\ dbQueue' = TasksOfOthers(dbQueue, h)
    BY <1>1 DEF IInv, QueuesOK
  <2> QED BY <2>1, TasksOfOthersProperties
<1>6. Created' = Created /\ handle' = handle
  BY DEF Created
<1>7. Down' <=> Down
  BY <1>2, <1>3 DEF Down, Closing
<1>8. ASSUME NEW t \in Created
      PROVE  /\ InDb(t)' => InDb(t)
             /\ ~Stopped(HandleOf(t))' => (InDb(t)' <=> InDb(t))
             /\ Stopped(HandleOf(t))' <=> Stopped(HandleOf(t))
             /\ InLoop(t)' <=> InLoop(t)
             /\ (dbThread'.at = "return" /\ dbThread'.transaction = t) => (dbThread.at = "return" /\ dbThread.transaction = t)
  <2>1. InDb(t)' => InDb(t)
    BY <1>5 DEF InDb
  <2>2. \A task \in ToSet(dbQueue) : task.transaction = t => task.handle = HandleOf(t)
    <3>1. \A task \in ToSet(dbQueue) : TaskOK(task)
      BY DEF IInv, QueuesOK
    <3> QED BY <1>8, <3>1, TransactionTasks DEF TaskOK
  <2>3. Stopped(HandleOf(t))' <=> Stopped(HandleOf(t))
    BY <1>6 DEF Stopped
  <2>4. HandleOf(t) = h => Stopped(HandleOf(t))
    BY <1>4 DEF Stopped
  <2>5. HandleOf(t) # h => (InDb(t)' <=> InDb(t))
    BY <1>5, <2>2 DEF InDb
  <2> QED BY <1>3, <2>1, <2>3, <2>4, <2>5 DEF InLoop
<1>9. Lives' /\ OneAtATime' /\ CoordinatorOK'
  BY <1>6, <1>7, <1>8, QuietStep
<1>10. HandlesOK'
  <2>1. \A g \in DOMAIN handle : HandleOK(g)
    BY DEF IInv, HandlesOK
  <2>2. ASSUME NEW g \in DOMAIN handle  PROVE HandleOK(g)'
    <3>1. openDatabaseSet' = openDatabaseSet \ {h}
      BY <1>1
    <3> QED BY <1>4, <1>6, <2>1, <2>2, <3>1 DEF HandleOK
  <2> QED BY <1>6, <2>2 DEF IInv, HandlesOK
<1>11. TransactionsOK'
  BY <1>6 DEF IInv, TransactionsOK
<1>12. QueuesOK'
  <2>1. ASSUME NEW task \in ToSet(dbQueue')  PROVE TaskOK(task)'
    <3>1. TaskOK(task)
      BY <1>5, <2>1 DEF IInv, QueuesOK
    <3> QED BY <1>6, <3>1 DEF TaskOK
  <2> QED BY <1>5, <1>6, <2>1, QueuesThen DEF IInv
<1>13. ThreadsOK'
  <2>1. (Down' => killed' /\ openDatabaseSet' = {}) /\ (~Down' => openSetCopy' = {})
    BY <1>7 DEF IInv, ThreadsOK
  <2>2. ~handle'[dbThread'.handle].opened
    BY <1>3, <1>4, <1>6
  <2>3. killed' \in BOOLEAN /\ sync' \in [Threads -> {"none", "waiting", "completed"}]
    BY Types
  <2> QED BY <1>3, <1>6, <2>1, <2>2, <2>3 DEF ThreadsOK
<1>14. DeletionOK'
  BY <1>6, DeletionKept
<1> QED BY <1>9, <1>10, <1>11, <1>12, <1>13, <1>14 DEF IInv

\* close() takes the handle off the tracker.
LEMMA RemoveOpenDatabaseOK ==
  ASSUME IInv, RemoveOpenDatabase
  PROVE  IInv'
<1> USE DEF RemoveOpenDatabase
<1>1. PICK h : h = dbThread.handle
  OBVIOUS
<1>2. dbThread \in [at: {"unschedule", "unregister"}, handle: DOMAIN handle,
                    synchronizer: Threads \cup {"none"}, then: {"loop", "exit"}]
  BY DEF IInv, ThreadsOK
<1>3. h \in DOMAIN handle /\ dbThread'.at = dbThread.then /\ dbThread' \in [at: {"loop", "exit", "ended"}]
  BY <1>1, <1>2
<1>4. dbThread.then \in {"loop", "exit"}
  BY <1>2
<1>5. (Down' <=> Down) /\ ~Closing'
  BY <1>3, <1>4 DEF Down, Closing
<1>6. handle' \in [DOMAIN handle -> Databases]
  BY Types DEF Databases
<1>7. \A g \in DOMAIN handle :
        /\ handle'[g].opened = handle[g].opened /\ handle'[g].returned = handle[g].returned
        /\ handle'[g].opening = handle[g].opening
        /\ handle'[g].interrupted = handle[g].interrupted
        /\ handle'[g].transactionQueue = handle[g].transactionQueue
        /\ handle'[g].transactionInProgress = handle[g].transactionInProgress
  BY Types DEF Databases
<1>8. Created' = Created /\ DOMAIN handle' = DOMAIN handle
  BY <1>6 DEF Created
<1>9. ASSUME NEW t \in Created
      PROVE  /\ handle'[HandleOf(t)].transactionQueue = handle[HandleOf(t)].transactionQueue
             /\ Stopped(HandleOf(t))' <=> Stopped(HandleOf(t))
             /\ handle'[HandleOf(t)].transactionInProgress = handle[HandleOf(t)].transactionInProgress
             /\ InDb(t)' <=> InDb(t)
             /\ InLoop(t)' <=> InLoop(t)
             /\ (dbThread'.at = "return" /\ dbThread'.transaction = t) => (dbThread.at = "return" /\ dbThread.transaction = t)
  <2>1. HandleOf(t) \in DOMAIN handle
    BY <1>9 DEF IInv, TransactionsOK
  <2>2. InDb(t)' <=> InDb(t)
    BY DEF InDb
  <2>3. ~InLoop(t)' /\ ~InLoop(t) /\ dbThread'.at # "return"
    BY <1>3, <1>4 DEF InLoop
  <2> QED BY <1>7, <2>1, <2>2, <2>3 DEF Stopped
<1>10. Lives' /\ OneAtATime' /\ CoordinatorOK'
  BY <1>5, <1>9, QuietStep
<1>11. HandlesOK'
  BY <1>6, <1>7, <1>8 DEF IInv, HandlesOK, HandleOK
<1>12. TransactionsOK'
  BY <1>7, <1>8 DEF IInv, TransactionsOK
<1>13. QueuesOK'
  <2>1. dbQueue' \in Seq(Tasks) /\ NoTwins(dbQueue') /\ \A task \in ToSet(dbQueue') : TaskOK(task)
    BY SameQueue
  <2>2. ASSUME NEW task \in ToSet(dbQueue')  PROVE TaskOK(task)'
    <3>1. TaskOK(task) /\ task \in Tasks
      BY <2>1, <2>2, SeqElements
    <3>2. task.handle \in DOMAIN handle
      BY <3>1 DEF Tasks
    <3> QED BY <1>7, <1>8, <3>1, <3>2 DEF TaskOK
  <2> QED BY <1>8, <2>1, <2>2, QueuesThen DEF IInv
<1>14. ThreadsOK'
  <2>1. (Down' => killed' /\ openDatabaseSet' = {}) /\ (~Down' => openSetCopy' = {})
    BY <1>5 DEF IInv, ThreadsOK
  <2>2. sync' \in [Threads -> {"none", "waiting", "completed"}]
    BY CompleteOK
  <2>3. killed' \in BOOLEAN /\ dbThread'.at # "ended"
    BY <1>3, <1>4, Types
  <2> QED BY <1>3, <1>5, <2>1, <2>2, <2>3 DEF ThreadsOK
<1>15. DeletionOK'
  BY <1>8, DeletionKept
<1> QED BY <1>10, <1>11, <1>12, <1>13, <1>14, <1>15 DEF IInv

\* The database thread ends.
LEMMA EndThreadOK ==
  ASSUME IInv, EndThread
  PROVE  IInv'
<1> USE DEF EndThread
<1>1. Created' = Created /\ handle' = handle /\ dbThread'.at = "ended" /\ dbThread' \in [at: {"loop", "exit", "ended"}]
  BY DEF Created
<1>2. Down /\ Down' /\ ~Closing'
  BY <1>1 DEF Down, Closing
<1>3. ASSUME NEW t \in Created
      PROVE  /\ Stopped(HandleOf(t))' <=> Stopped(HandleOf(t))
             /\ InDb(t)' <=> InDb(t)
             /\ InLoop(t)' <=> InLoop(t)
             /\ (dbThread'.at = "return" /\ dbThread'.transaction = t) => (dbThread.at = "return" /\ dbThread.transaction = t)
  BY <1>1 DEF Stopped, InDb, InLoop
<1>4. Lives' /\ OneAtATime' /\ CoordinatorOK'
  BY <1>1, <1>2, <1>3, QuietStep
<1>5. HandlesOK' /\ TransactionsOK'
  BY <1>1 DEF IInv, HandlesOK, HandleOK, TransactionsOK
<1>6. QueuesOK'
  <2>1. dbQueue' \in Seq(Tasks) /\ NoTwins(dbQueue') /\ \A task \in ToSet(dbQueue') : TaskOK(task)
    BY SameQueue
  <2>2. \A task \in ToSet(dbQueue') : TaskOK(task)'
    BY <1>1, <2>1 DEF TaskOK
  <2> QED BY <1>1, <2>1, <2>2, QueuesThen DEF IInv
<1>7. ThreadsOK'
  <2>1. killed' \in BOOLEAN /\ killed' /\ openDatabaseSet' = {} /\ openSetCopy' = {}
    BY <1>2, Types DEF IInv, ThreadsOK
  <2>2. sync' \in [Threads -> {"none", "waiting", "completed"}]
    BY Types DEF Threads
  <2> QED BY <1>1, <1>2, <2>1, <2>2 DEF ThreadsOK
<1>8. DeletionOK'
  BY <1>1, DeletionKept
<1> QED BY <1>4, <1>5, <1>6, <1>7, <1>8 DEF IInv

-----------------------------------------------------------------------------
(* One lemma per action: the context thread                                *)

\* A step of the context thread leaves handles and the database thread alone.
LEMMA SameThreads ==
  ASSUME IInv, handle' = handle, Created' = Created, dbThread' = dbThread, UNCHANGED <<openDatabaseSet, openSetCopy>>,
         killed' = killed, sync' = sync, deletion' = deletion
  PROVE  HandlesOK' /\ ThreadsOK' /\ DeletionOK' /\ Tasks' = Tasks
<1>1. HandlesOK'
  BY DEF IInv, HandlesOK, HandleOK
<1>2. ThreadsOK'
  <2>1. Closing => ~handle'[dbThread.handle].opened
    BY DEF IInv, ThreadsOK
  <2>2. killed' \in BOOLEAN /\ sync' \in [Threads -> {"none", "waiting", "completed"}]
    BY Types
  <2> QED BY <2>1, <2>2, ThreadsThen DEF IInv
<1>3. DeletionOK'
  BY DeletionKept
<1>4. Tasks' = Tasks
  BY DEF Tasks
<1> QED BY <1>1, <1>2, <1>3, <1>4

\* The next step of a transaction that is in no queue.
LEMMA TaskBehind ==
  ASSUME IInv, NEW t \in Created, ~InDb(t), dbQueue' = dbQueue \o <<TransactionTask(t)>>
  PROVE  /\ dbQueue' \in Seq(Tasks) /\ NoTwins(dbQueue') /\ \A task \in ToSet(dbQueue') : TaskOK(task)
         /\ \A u \in Created : InDb(u)' <=> InDb(u) \/ u = t
<1>1. PICK new : new = TransactionTask(t)
  OBVIOUS
<1>2. /\ new \in Tasks /\ TaskOK(new) /\ new.kind = "transaction" /\ new.transaction = t
  BY <1>1 DEF TransactionTask, Tasks, TaskOK, IInv, TransactionsOK
<1>3. PICK last : last = <<new>>
  OBVIOUS
<1>4. last \in Seq(Tasks) /\ ToSet(last) = {new} /\ NoTwins(last)
  BY <1>2, <1>3, SingleQueue
<1>5. dbQueue \in Seq(Tasks) /\ NoTwins(dbQueue) /\ \A task \in ToSet(dbQueue) : TaskOK(task)
  BY DEF IInv, QueuesOK
<1>6. \A a \in ToSet(dbQueue), b \in ToSet(last) : ~Same(a, b) /\ ~Same(b, a)
  BY <1>2, <1>4 DEF Same, InDb
<1>7. dbQueue' = dbQueue \o last
  BY <1>1, <1>3
<1>8. dbQueue' \in Seq(Tasks) /\ ToSet(dbQueue') = ToSet(dbQueue) \cup {new} /\ NoTwins(dbQueue')
  BY <1>4, <1>5, <1>6, <1>7, JoinedQueues
<1>9. \A u \in Created : InDb(u)' <=> InDb(u) \/ u = t
  BY <1>2, <1>8 DEF InDb
<1> QED BY <1>2, <1>5, <1>8, <1>9

\* The context thread moves transaction t on.
LEMMA ContextMove ==
  ASSUME IInv, NEW t \in Created, NEW y \in SQLTransactions, txn' = [txn EXCEPT ![t] = y],
         InCtx(t) \/ InScript(t),
         handle' = handle, dbThread' = dbThread, UNCHANGED <<openDatabaseSet, openSetCopy>>, killed' = killed,
         sync' = sync, deletion' = deletion, coordinationInfoMap' = coordinationInfoMap,
         LifeOf(t)', y.sqlite # "none" => txn[t].sqlite # "none",
         dbQueue' \in Seq(Tasks), NoTwins(dbQueue'), \A task \in ToSet(dbQueue') : TaskOK(task),
         ctxQueue' \in Seq(Created), Distinct(ctxQueue'), ctxThread' \in Created \cup {NoTransaction},
         \A u \in Created : u # t => /\ InDb(u)' <=> InDb(u)
                                     /\ InCtx(u)' <=> InCtx(u)
                                     /\ InScript(u)' <=> InScript(u)
  PROVE  IInv'
<1>0. txn \in [Created -> SQLTransactions]
  BY DEF IInv, TransactionsOK
<1>1. Created' = Created /\ txn'[t] = y /\ \A u \in Created : u # t => txn'[u] = txn[u]
  BY <1>0 DEF Created
<1>2. HandlesOK' /\ ThreadsOK' /\ DeletionOK' /\ Tasks' = Tasks
  BY <1>1, SameThreads
<1>3. TransactionsOK'
  BY <1>0, <1>1 DEF IInv, TransactionsOK
<1>4. QueuesOK'
  <2>1. \A task \in ToSet(dbQueue') : TaskOK(task)'
    BY <1>1 DEF TaskOK
  <2> QED BY <1>1, <1>2, <2>1 DEF QueuesOK
<1>5. CoordinatorOK' /\ (Down' <=> Down)
  <2>1. Down' <=> Down
    BY DEF Down, Closing
  <2> QED BY <1>1, <2>1 DEF IInv, CoordinatorOK, InfoOK
<1>6. \A u \in Created : /\ InHandle(u)' <=> InHandle(u)
                         /\ InPending(u)' <=> InPending(u)
                         /\ InLoop(u)' <=> InLoop(u)
                         /\ IsActive(u)' <=> IsActive(u)
                         /\ Stopped(HandleOf(u))' <=> Stopped(HandleOf(u))
  BY DEF InHandle, InPending, InLoop, IsActive, Stopped, InfoFor
<1>7. ASSUME NEW u \in Created, u # t  PROVE LifeOf(u)'
  <2>1. PlacesOf(u)' = PlacesOf(u)
    BY <1>6, <1>7, PlacesKept
  <2>2. LifeOf(u) /\ txn'[u] = txn[u]
    BY <1>1, <1>7 DEF IInv, Lives
  <2> QED BY <1>5, <1>6, <2>1, <2>2, LifeUnchanged
<1>8. Lives'
  BY <1>1, <1>7 DEF Lives
<1>9. OneAtATime'
  <2>1. LifeOf(t)
    BY DEF IInv, Lives
  <2>2. ~InHandle(t) /\ txn[t].nextStep # "none"
    BY <2>1, OnlyPlace DEF ContextSteps
  <2>3. ASSUME NEW u \in Created, Started(u)'  PROVE Started(u)
    BY <1>1, <1>6, <2>2, <2>3 DEF Started
  <2>4. OneAtATime /\ \A u \in Created : txn'[u].sqlite # "none" => txn[u].sqlite # "none"
    BY <1>1 DEF IInv
  <2> QED BY <1>1, <1>6, <2>3, <2>4, OneAtATimeKept
<1> QED BY <1>2, <1>3, <1>4, <1>5, <1>8, <1>9 DEF IInv

\* What a transaction keeps while the context thread moves it on.
LEMMA LifeArguments ==
  ASSUME NEW t, handle' = handle, dbThread' = dbThread, coordinationInfoMap' = coordinationInfoMap
  PROVE  /\ IsActive(t)' <=> IsActive(t)
         /\ Stopped(HandleOf(t))' <=> Stopped(HandleOf(t))
         /\ Down' <=> Down
         /\ InHandle(t)' <=> InHandle(t)
         /\ InPending(t)' <=> InPending(t)
         /\ InLoop(t)' <=> InLoop(t)
         /\ IsActive(t) \in BOOLEAN /\ Stopped(HandleOf(t)) \in BOOLEAN /\ Down \in BOOLEAN
  BY DEF InHandle, InPending, InLoop, IsActive, Stopped, InfoFor, Down, Closing

\* A transaction that the context thread has moved on.
LEMMA LifeThen ==
  ASSUME NEW t, NEW y, NEW P, handle' = handle, dbThread' = dbThread, coordinationInfoMap' = coordinationInfoMap,
         txn'[t] = y, PlacesOf(t)' = P, Life(y, P, IsActive(t), Stopped(HandleOf(t)), Down)
  PROVE  LifeOf(t)'
<1>1. /\ IsActive(t)' <=> IsActive(t)
      /\ Stopped(HandleOf(t))' <=> Stopped(HandleOf(t))
      /\ Down' <=> Down
  BY LifeArguments
<1> QED BY <1>1 DEF LifeOf, Life

\* A script calls executeSQL.
LEMMA ScriptExecutesSQLOK ==
  ASSUME IInv, ScriptExecutesSQL
  PROVE  IInv'
<1> USE DEF ScriptExecutesSQL
<1>1. PICK t : t = ctxThread
  OBVIOUS
<1>2. t \in Created /\ InScript(t)
  BY <1>1 DEF IInv, QueuesOK, InScript
<1>3. LifeOf(t)
  BY <1>2 DEF IInv, Lives
<1>4. /\ PlacesOf(t) = {"script"} /\ ~InHandle(t) /\ ~InPending(t) /\ ~InDb(t) /\ ~InLoop(t) /\ ~InCtx(t)
      /\ txn[t].nextStep \in {"deliverTransactionCallback", "deliverStatementCallback"}
  BY <1>2, <1>3, OnlyPlace
<1>5. PICK kind \in StatementKinds, mismatch \in BOOLEAN :
        txn' = [txn EXCEPT ![t] = ExecuteSQL(txn[t], kind, handle[HandleOf(t)].deleted, mismatch)]
  BY <1>1
<1>6. PICK y : y = ExecuteSQL(txn[t], kind, handle[HandleOf(t)].deleted, mismatch)
  OBVIOUS
<1>7. handle[HandleOf(t)].deleted \in BOOLEAN
  BY <1>2, Types DEF IInv, TransactionsOK, Databases
<1>8. IsActive(t) \in BOOLEAN /\ Stopped(HandleOf(t)) \in BOOLEAN /\ Down \in BOOLEAN
  BY LifeArguments
<1>9. Life(y, {"script"}, IsActive(t), Stopped(HandleOf(t)), Down) /\ y.sqlite = txn[t].sqlite
  <2>1. Life(txn[t], {"script"}, IsActive(t), Stopped(HandleOf(t)), Down)
    BY <1>3, <1>4 DEF LifeOf
  <2>2. PICK deleted, x : deleted = handle[HandleOf(t)].deleted /\ x = txn[t] /\ deleted \in BOOLEAN
    BY <1>7
  <2>3. PICK active \in BOOLEAN, stopped \in BOOLEAN, down \in BOOLEAN :
          active = IsActive(t) /\ stopped = Stopped(HandleOf(t)) /\ down = Down
    BY <1>8
  <2>4. Life(x, {"script"}, active, stopped, down)
    BY <2>1, <2>2, <2>3
  <2>5. Life(ExecuteSQL(x, kind, deleted, mismatch), {"script"}, active, stopped, down)
        /\ ExecuteSQL(x, kind, deleted, mismatch).sqlite = x.sqlite
    BY <1>4, <2>2, <2>4, ExecuteSQLLife, SMTT(30)
  <2> QED BY <1>6, <2>2, <2>3, <2>5
<1>10. y \in SQLTransactions
  BY <1>9 DEF Life, RecordOK
<1>11. txn' = [txn EXCEPT ![t] = y] /\ txn'[t] = y
  BY <1>2, <1>5, <1>6 DEF IInv, TransactionsOK
<1>12. \A u \in Created : /\ InDb(u)' <=> InDb(u)
                          /\ InCtx(u)' <=> InCtx(u)
                          /\ InScript(u)' <=> InScript(u)
  BY DEF InDb, InCtx, InScript
<1>13. PlacesOf(t)' = {"script"}
  BY <1>2, <1>4, <1>12, LifeArguments, PlacesKept
<1>14. LifeOf(t)'
  BY <1>9, <1>11, <1>13, LifeThen
<1>15. ctxQueue' \in Seq(Created) /\ Distinct(ctxQueue') /\ ctxThread' \in Created \cup {NoTransaction}
  BY DEF IInv, QueuesOK
<1> QED BY <1>2, <1>9, <1>10, <1>11, <1>12, <1>14, <1>15, SameQueue, ContextMove

\* A transaction is handed back to the database thread.
LEMMA HandBack ==
  ASSUME IInv, NEW t \in Created, NEW o, InCtx(t) \/ InScript(t), HandedBack(txn[t], o), FinishContextStep(t, o),
         handle' = handle, dbThread' = dbThread, UNCHANGED <<openDatabaseSet, openSetCopy>>, killed' = killed,
         sync' = sync, deletion' = deletion, coordinationInfoMap' = coordinationInfoMap,
         ctxQueue' \in Seq(Created), Distinct(ctxQueue'), ctxThread' \in Created \cup {NoTransaction},
         ~InCtx(t)', ~InScript(t)',
         \A u \in Created : u # t => /\ InCtx(u)' <=> InCtx(u)
                                     /\ InScript(u)' <=> InScript(u)
  PROVE  IInv'
<1>1. LifeOf(t)
  BY DEF IInv, Lives
<1>2. ~InHandle(t) /\ ~InPending(t) /\ ~InDb(t) /\ ~InLoop(t) /\ txn[t].nextStep \in ContextSteps
  BY <1>1, OnlyPlace DEF ContextSteps
<1>3. PICK y : y = o.txn
  OBVIOUS
<1>4. txn' = [txn EXCEPT ![t] = y] /\ dbQueue' = dbQueue \o <<TransactionTask(t)>>
  BY <1>3 DEF FinishContextStep, HandedBack
<1>5. IsActive(t) \in BOOLEAN /\ Stopped(HandleOf(t)) \in BOOLEAN /\ Down \in BOOLEAN
  BY LifeArguments
<1>6. Life(y, {"db"}, IsActive(t), Stopped(HandleOf(t)), Down)
  <2>1. Life(txn[t], PlacesOf(t), IsActive(t), Stopped(HandleOf(t)), Down)
    BY <1>1 DEF LifeOf
  <2> QED BY <1>2, <1>3, <1>5, <2>1, HandedBackLife
<1>7. y \in SQLTransactions /\ (y.sqlite # "none" => txn[t].sqlite # "none")
  BY <1>3 DEF HandedBack, RecordOK
<1>8. txn'[t] = y
  BY <1>4 DEF IInv, TransactionsOK
<1>9. /\ dbQueue' \in Seq(Tasks) /\ NoTwins(dbQueue') /\ \A task \in ToSet(dbQueue') : TaskOK(task)
      /\ \A u \in Created : InDb(u)' <=> InDb(u) \/ u = t
  BY <1>2, <1>4, TaskBehind
<1>10. PlacesOf(t)' = {"db"}
  BY <1>2, <1>9, LifeArguments, PlacesThen
<1>11. LifeOf(t)'
  BY <1>6, <1>8, <1>10, LifeThen
<1> QED BY <1>4, <1>7, <1>9, <1>11, ContextMove

\* A script returns or throws.
LEMMA ScriptReturnsOK ==
  ASSUME IInv, ScriptReturns
  PROVE  IInv'
<1> USE DEF ScriptReturns
<1>1. PICK t : t = ctxThread
  OBVIOUS
<1>2. t \in Created /\ InScript(t) /\ t # NoTransaction
  BY <1>1 DEF IInv, QueuesOK, InScript
<1>3. LifeOf(t)
  BY <1>2 DEF IInv, Lives
<1>4. ~InCtx(t) /\ txn[t].nextStep \in {"deliverTransactionCallback", "deliverStatementCallback"}
  BY <1>2, <1>3, OnlyPlace
<1>5. PICK failed \in BOOLEAN : FinishContextStep(t, AfterScript(txn[t], failed))
  BY <1>1
<1>6. RecordOK(txn[t]) /\ txn[t].lockAcquired
  BY <1>3, <1>4 DEF LifeOf, Life
<1>7. HandedBack(txn[t], AfterScript(txn[t], failed))
  BY <1>4, <1>6, AfterScriptDone
<1>8. ctxQueue' \in Seq(Created) /\ Distinct(ctxQueue') /\ ctxThread' \in Created \cup {NoTransaction}
  BY DEF IInv, QueuesOK
<1>9. ctxThread' = NoTransaction /\ \A u \in Created : u # NoTransaction
  BY TransactionTasks
<1>10. \A u \in Created : (InCtx(u)' <=> InCtx(u)) /\ (u # t => (InScript(u)' <=> InScript(u))) /\ ~InScript(u)'
  BY <1>1, <1>9 DEF InCtx, InScript
<1> QED BY <1>2, <1>4, <1>5, <1>7, <1>8, <1>10, HandBack

\* The context thread performs a posted callback.
LEMMA PerformPendingCallbackOK ==
  ASSUME IInv, PerformPendingCallback
  PROVE  IInv'
<1> USE DEF PerformPendingCallback
<1>1. PICK t : t = Head(ctxQueue)
  OBVIOUS
<1>2. ctxQueue \in Seq(Created) /\ Distinct(ctxQueue) /\ ctxQueue # << >> /\ ctxThread = NoTransaction
  BY DEF IInv, QueuesOK
<1>3. /\ t \in Created /\ ctxQueue' \in Seq(Created) /\ Distinct(ctxQueue')
      /\ ToSet(ctxQueue) = ToSet(ctxQueue') \cup {t} /\ t \notin ToSet(ctxQueue')
  <2>1. PICK q : q = ctxQueue
    OBVIOUS
  <2>2. /\ Head(q) \in Created /\ Head(q) \in ToSet(q) /\ Tail(q) \in Seq(Created)
        /\ ToSet(q) = ToSet(Tail(q)) \cup {Head(q)}
        /\ Distinct(Tail(q)) /\ Head(q) \notin ToSet(Tail(q))
    BY <1>2, <2>1, TailOfQueue
  <2> QED BY <1>1, <2>1, <2>2
<1>4. InCtx(t) /\ ~InCtx(t)' /\ \A u \in Created : u # t => (InCtx(u)' <=> InCtx(u))
  BY <1>3 DEF InCtx
<1>5. LifeOf(t)
  BY <1>3 DEF IInv, Lives
<1>6. /\ ~InHandle(t) /\ ~InPending(t) /\ ~InDb(t) /\ ~InLoop(t) /\ ~InScript(t)
      /\ PlacesOf(t) = {"ctx"} /\ txn[t].nextStep \in ContextSteps
  BY <1>4, <1>5, OnlyPlace
<1>7. \A u \in Created : u # NoTransaction /\ ~InScript(u)
  BY <1>2, TransactionTasks DEF InScript
<1>8. /\ IsActive(t) \in BOOLEAN /\ Stopped(HandleOf(t)) \in BOOLEAN /\ Down \in BOOLEAN
      /\ Life(txn[t], PlacesOf(t), IsActive(t), Stopped(HandleOf(t)), Down)
  BY <1>5, LifeArguments DEF LifeOf
<1>9. txn \in [Created -> SQLTransactions]
  BY DEF IInv, TransactionsOK
<1>10. CASE /\ Stopped(HandleOf(t))
            /\ txn' = [txn EXCEPT ![t] = CancelOnContextThread(txn[t])]
            /\ UNCHANGED <<dbQueue, ctxThread>>
  <2>1. PICK y : y = CancelOnContextThread(txn[t])
    OBVIOUS
  <2>2. Life(y, {}, IsActive(t), Stopped(HandleOf(t)), Down) /\ y.sqlite = txn[t].sqlite
    <3> HIDE DEF PerformPendingCallback
    <3>1. PICK active \in BOOLEAN, down \in BOOLEAN : active = IsActive(t) /\ down = Down
      BY <1>8
    <3>2. PICK x, P : x = txn[t] /\ P = PlacesOf(t)
      OBVIOUS
    <3>3. Life(x, P, active, TRUE, down)
      BY <1>8, <1>10, <3>1, <3>2
    <3>4. Life(CancelOnContextThread(x), {}, active, TRUE, down) /\ CancelOnContextThread(x).sqlite = x.sqlite
      BY <3>3, CancelContextLife
    <3> QED BY <1>10, <2>1, <3>1, <3>2, <3>4
  <2>3. y \in SQLTransactions
    BY <2>2 DEF Life, RecordOK
  <2>4. txn' = [txn EXCEPT ![t] = y] /\ txn'[t] = y
    BY <1>3, <1>9, <1>10, <2>1
  <2>5. \A u \in Created : (InDb(u)' <=> InDb(u)) /\ (InScript(u)' <=> InScript(u))
    BY <1>10 DEF InDb, InScript
  <2>6. PlacesOf(t)' = {}
    BY <1>3, <1>4, <1>6, <2>5, LifeArguments, PlacesThen
  <2>7. LifeOf(t)'
    BY <2>2, <2>4, <2>6, LifeThen
  <2>8. ctxThread' \in Created \cup {NoTransaction} /\ dbQueue' = dbQueue
    BY <1>2, <1>10
  <2> QED BY <1>3, <1>4, <2>2, <2>3, <2>4, <2>5, <2>7, <2>8, SameQueue, ContextMove
<1>11. CASE /\ ~Stopped(HandleOf(t)) /\ EntersScript(txn[t])
            /\ txn' = [txn EXCEPT ![t] = BeforeScript(txn[t])]
            /\ ctxThread' = t
            /\ UNCHANGED dbQueue
  <2>1. PICK y : y = BeforeScript(txn[t])
    OBVIOUS
  <2>2. Life(y, {"script"}, IsActive(t), Stopped(HandleOf(t)), Down) /\ y.sqlite = txn[t].sqlite
    BY <1>8, <1>11, <2>1, BeforeScriptLife
  <2>3. y \in SQLTransactions
    BY <2>2 DEF Life, RecordOK
  <2>4. txn' = [txn EXCEPT ![t] = y] /\ txn'[t] = y
    BY <1>3, <1>9, <1>11, <2>1
  <2>5. \A u \in Created : (InDb(u)' <=> InDb(u)) /\ (InScript(u)' <=> u = t)
    BY <1>11 DEF InDb, InScript
  <2>6. PlacesOf(t)' = {"script"}
    BY <1>3, <1>4, <1>6, <2>5, LifeArguments, PlacesThen
  <2>7. LifeOf(t)'
    BY <2>2, <2>4, <2>6, LifeThen
  <2>8. ctxThread' \in Created \cup {NoTransaction} /\ dbQueue' = dbQueue
    BY <1>3, <1>11
  <2> QED BY <1>3, <1>4, <1>7, <2>2, <2>3, <2>4, <2>5, <2>7, <2>8, SameQueue, ContextMove
<1>12. CASE /\ ~Stopped(HandleOf(t)) /\ ~EntersScript(txn[t])
            /\ \E outcome \in ContextStep(txn[t]) : FinishContextStep(t, outcome)
            /\ UNCHANGED ctxThread
  <2>1. PICK o \in ContextStep(txn[t]) : FinishContextStep(t, o)
    BY <1>12
  <2>2. RecordOK(txn[t]) /\ txn[t].lockAcquired
    BY <1>6, <1>8 DEF Life, ContextSteps
  <2>3. HandedBack(txn[t], o)
    BY <1>6, <1>12, <2>2, ContextStepDone
  <2>4. ctxThread' \in Created \cup {NoTransaction} /\ \A u \in Created : (InScript(u)' <=> InScript(u))
    BY <1>2, <1>12 DEF InScript
  <2>5. ~InScript(t)'
    BY <1>3, <1>7, <2>4
  <2> QED BY <1>3, <1>4, <2>1, <2>3, <2>4, <2>5, HandBack
<1> QED BY <1>1, <1>10, <1>11, <1>12

-----------------------------------------------------------------------------
(* One lemma per action: steps of transactions on the database thread      *)

\* A reversed queue has the same elements.
LEMMA ReversedQueue ==
  ASSUME NEW T, NEW s \in Seq(T), Distinct(s)
  PROVE  /\ DOMAIN Reverse(s) = DOMAIN s /\ DOMAIN s = 1..Len(s) /\ Len(s) \in Nat
         /\ ToSet(Reverse(s)) = ToSet(s) /\ Distinct(Reverse(s))
         /\ \A i \in DOMAIN s : Reverse(s)[i] \in ToSet(s)
<1> DEFINE n == Len(s)
           r == Reverse(s)
<1>1. n \in Nat /\ DOMAIN s = 1..n
  OBVIOUS
<1>2. DOMAIN r = 1..n /\ \A i \in 1..n : r[i] = s[(n - i) + 1]
  BY DEF Reverse
<1> HIDE DEF n, r
<1>3. \A i \in 1..n : (n - i) + 1 \in 1..n /\ (n - ((n - i) + 1)) + 1 = i
  BY <1>1
<1>4. \A i \in 1..n : r[i] \in ToSet(s)
  BY <1>1, <1>2, <1>3 DEF ToSet
<1>5. \A i \in 1..n : r[(n - i) + 1] = s[i]
  BY <1>2, <1>3
<1>6. ToSet(r) = ToSet(s)
  <2>1. ToSet(r) \subseteq ToSet(s)
    BY <1>2, <1>4 DEF ToSet
  <2>2. \A i \in 1..n : s[i] \in ToSet(r)
    BY <1>2, <1>3, <1>5 DEF ToSet
  <2>3. ToSet(s) \subseteq ToSet(r)
    BY <1>1, <2>2 DEF ToSet
  <2> QED BY <2>1, <2>3
<1>7. Distinct(r)
  <2> SUFFICES ASSUME NEW i \in 1..n, NEW j \in 1..n, r[i] = r[j]  PROVE i = j
    BY <1>2 DEF Distinct
  <2>1. (n - i) + 1 = (n - j) + 1
    BY <1>1, <1>2, <1>3 DEF Distinct
  <2> QED BY <2>1, <1>1
<1> QED BY <1>1, <1>2, <1>4, <1>6, <1>7 DEF n, r

\* The tasks of the granted transactions.
LEMMA GrantedTasks ==
  ASSUME IInv, NEW n, NEW info, InfoOK(n, info)
  PROVE  LET q == [i \in DOMAIN Granted(info) |-> TransactionTask(Reverse(Granted(info))[i])] IN
         /\ q \in Seq(Tasks) /\ NoTwins(q) /\ \A task \in ToSet(q) : TaskOK(task)
         /\ ToSet(q) = {TransactionTask(u) : u \in GrantedSet(info)}
         /\ GrantedSet(info) \subseteq Pending(info) /\ Pending(info) \subseteq Created
<1>1. info \in CoordinationInfos /\ ExclusiveInfo(info) /\ DistinctInfo(info) /\ Pending(info) \subseteq Created
  BY DEF InfoOK
<1>2. PICK s : s = Granted(info)
  OBVIOUS
<1>3. PICK G : G = GrantedSet(info)
  OBVIOUS
<1>4. G \subseteq Pending(info)
  BY <1>1, <1>3, ProcessPendingProperties
<1>5. s \in Seq(Transactions) /\ G = ToSet(s) /\ Distinct(s)
  BY <1>1, <1>2, <1>3, GrantedProperties DEF ToSet, Distinct
<1>6. PICK r : r = Reverse(s)
  OBVIOUS
<1>7. /\ DOMAIN r = 1..Len(s) /\ DOMAIN s = 1..Len(s) /\ Len(s) \in Nat
      /\ ToSet(r) = G /\ Distinct(r) /\ \A i \in 1..Len(s) : r[i] \in G
  BY <1>5, <1>6, ReversedQueue
<1>8. \A u \in Created : /\ TransactionTask(u) \in Tasks /\ TaskOK(TransactionTask(u))
                         /\ TransactionTask(u).transaction = u
  BY DEF TransactionTask, Tasks, TaskOK, IInv, TransactionsOK
<1>9. PICK q : q = [i \in DOMAIN s |-> TransactionTask(r[i])]
  OBVIOUS
<1>10. DOMAIN q = 1..Len(s) /\ \A i \in 1..Len(s) : q[i] = TransactionTask(r[i]) /\ r[i] \in Created
  BY <1>1, <1>4, <1>7, <1>9
<1>11. q \in Seq(Tasks)
  <2>1. q \in [1..Len(s) -> Tasks]
    BY <1>7, <1>8, <1>9, <1>10
  <2> QED BY <1>7, <2>1
<1>12. NoTwins(q)
  <2> SUFFICES ASSUME NEW i \in 1..Len(s), NEW j \in 1..Len(s), Same(q[i], q[j])  PROVE i = j
    BY <1>10 DEF NoTwins
  <2>1. r[i] = r[j]
    BY <1>8, <1>10 DEF Same
  <2> QED BY <1>7, <2>1 DEF Distinct
<1>13. ToSet(q) = {TransactionTask(u) : u \in G}
  <2>1. ToSet(q) \subseteq {TransactionTask(u) : u \in G}
    BY <1>7, <1>10 DEF ToSet
  <2>2. ASSUME NEW u \in G  PROVE TransactionTask(u) \in ToSet(q)
    <3>1. PICK i \in 1..Len(s) : r[i] = u
      BY <1>7 DEF ToSet
    <3> QED BY <1>10, <3>1 DEF ToSet
  <2> QED BY <2>1, <2>2
<1>14. \A task \in ToSet(q) : TaskOK(task)
  BY <1>1, <1>4, <1>8, <1>13
<1> QED BY <1>1, <1>2, <1>3, <1>4, <1>6, <1>9, <1>11, <1>12, <1>13, <1>14

\* The entry of a name, or the one that is made for it.
LEMMA InfoForOK ==
  ASSUME IInv, NEW n
  PROVE  InfoOK(n, InfoFor(n))
<1>1. CASE n \in DOMAIN coordinationInfoMap
  BY <1>1 DEF IInv, CoordinatorOK, InfoFor
<1>2. CASE n \notin DOMAIN coordinationInfoMap
  BY <1>2, NewInfoProperties DEF InfoFor, InfoOK
<1> QED BY <1>1, <1>2

\* processPendingTransactions and lockAcquired for the transactions G.
LEMMA Granting ==
  ASSUME IInv, NEW n, NEW info, NEW xs, NEW queue, InfoOK(n, info), handle' = handle,
         queue \in Seq(Tasks), NoTwins(queue), \A task \in ToSet(queue) : TaskOK(task),
         \A task \in ToSet(queue) : task.transaction \notin Pending(info),
         ProcessPending(n, info, xs, queue)
  PROVE  /\ Created' = Created
         /\ \A u \in Created : txn'[u] = IF u \in GrantedSet(info) THEN LockAcquired(xs[u]) ELSE xs[u]
         /\ dbQueue' \in Seq(Tasks) /\ NoTwins(dbQueue') /\ \A task \in ToSet(dbQueue') : TaskOK(task)
         /\ \A u : InDb(u)' <=> u \in GrantedSet(info) \/ \E task \in ToSet(queue) : task.transaction = u
         /\ GrantedSet(info) \subseteq Pending(info)
         /\ \A m \in DOMAIN coordinationInfoMap' : InfoOK(m, coordinationInfoMap[m])'
         /\ \A u : InPending(u)' <=> IF NameOf(HandleOf(u)) = n THEN u \in Pending(info) \ GrantedSet(info)
                                                               ELSE InPending(u)
         /\ \A u : IsActive(u)' <=> IF NameOf(HandleOf(u)) = n THEN u \in Active(info) \cup GrantedSet(info)
                                                              ELSE IsActive(u)
<1> DEFINE tasks == [i \in DOMAIN Granted(info) |-> TransactionTask(Reverse(Granted(info))[i])]
<1>1. Created' = Created
  BY DEF ProcessPending, Created
<1>2. \A u \in Created : txn'[u] = IF u \in GrantedSet(info) THEN LockAcquired(xs[u]) ELSE xs[u]
  BY DEF ProcessPending, Created
<1>3. PICK G : G = GrantedSet(info)
  OBVIOUS
<1>4. PICK q : q = tasks
  OBVIOUS
<1>5. /\ q \in Seq(Tasks) /\ NoTwins(q) /\ \A task \in ToSet(q) : TaskOK(task)
      /\ ToSet(q) = {TransactionTask(u) : u \in G}
      /\ G \subseteq Pending(info) /\ Pending(info) \subseteq Created
  BY <1>3, <1>4, GrantedTasks
<1>6. dbQueue' = q \o queue
  BY <1>4 DEF ProcessPending
<1>7. \A u : TransactionTask(u).transaction = u
  BY DEF TransactionTask
<1>8. \A a \in ToSet(q), b \in ToSet(queue) : ~Same(a, b) /\ ~Same(b, a)
  BY <1>5, <1>7 DEF Same
<1>9. dbQueue' \in Seq(Tasks) /\ ToSet(dbQueue') = ToSet(q) \cup ToSet(queue) /\ NoTwins(dbQueue')
  BY <1>5, <1>6, <1>8, JoinedQueues
<1>10. \A u : InDb(u)' <=> u \in G \/ \E task \in ToSet(queue) : task.transaction = u
  BY <1>5, <1>7, <1>9 DEF InDb
<1>11. PICK after : after = ProcessPendingTransactions(info)
  OBVIOUS
<1>12. /\ DOMAIN coordinationInfoMap' = DOMAIN coordinationInfoMap \cup {n}
       /\ coordinationInfoMap'[n] = after
       /\ \A m \in DOMAIN coordinationInfoMap : m # n => coordinationInfoMap'[m] = coordinationInfoMap[m]
  BY <1>11 DEF ProcessPending
<1>13. info \in CoordinationInfos /\ ExclusiveInfo(info) /\ DistinctInfo(info)
  BY DEF InfoOK
<1>14. /\ after \in CoordinationInfos /\ ExclusiveInfo(after) /\ DistinctInfo(after)
       /\ Active(after) = Active(info) \cup G /\ Pending(after) = Pending(info) \ G
  BY <1>3, <1>11, <1>13, ProcessPendingProperties
<1>15. InfoOK(n, after)
  BY <1>5, <1>14 DEF InfoOK
<1>16. \A m \in DOMAIN coordinationInfoMap' : InfoOK(m, coordinationInfoMap[m])'
  <2>1. \A m \in DOMAIN coordinationInfoMap : InfoOK(m, coordinationInfoMap[m])
    BY DEF IInv, CoordinatorOK
  <2>2. ASSUME NEW m \in DOMAIN coordinationInfoMap'  PROVE InfoOK(m, coordinationInfoMap'[m])
    BY <1>12, <1>15, <2>1, <2>2
  <2>3. ASSUME NEW m, NEW i, InfoOK(m, i)  PROVE InfoOK(m, i)'
    BY <1>1, <2>3 DEF InfoOK
  <2>4. ASSUME NEW m \in DOMAIN coordinationInfoMap'  PROVE InfoOK(m, coordinationInfoMap[m])'
    BY <1>1, <2>2, <2>4 DEF InfoOK
  <2> QED BY <2>4
<1>17. \A m : InfoFor(m)' = IF m = n THEN after ELSE InfoFor(m)
  BY <1>12 DEF InfoFor
<1>18. \A u : InPending(u)' <=> IF NameOf(HandleOf(u)) = n THEN u \in Pending(info) \ G ELSE InPending(u)
  BY <1>14, <1>17 DEF InPending
<1>19. \A u : IsActive(u)' <=> IF NameOf(HandleOf(u)) = n THEN u \in Active(info) \cup G ELSE IsActive(u)
  BY <1>14, <1>17 DEF IsActive
<1>20. \A task \in ToSet(dbQueue') : TaskOK(task)
  BY <1>5, <1>9
<1> QED BY <1>1, <1>2, <1>3, <1>5, <1>9, <1>10, <1>16, <1>18, <1>19, <1>20

\* Outcomes of steps on the database thread are no tasks for that thread.
LEMMA NoStepOutcome ==
  ASSUME NEW x, NEW deleted
  PROVE  /\ \A o \in RunStatements(x) : o.schedule # "step"
         /\ x.nextStep \in DatabaseSteps \ {"acquireLock", "postflightAndCommit"} =>
              \A o \in DatabaseStep(x, deleted) : o.schedule # "step"
<1>1. \A y, why : HandleTransactionError(y, why, FALSE).schedule # "step"
  BY DEF HandleTransactionError, ToContext, Outcome, CleanupAfterTransactionErrorCallback
<1>2. \A y : HandleCurrentStatementError(y).schedule # "step"
  BY <1>1 DEF HandleCurrentStatementError, ToContext, Outcome
<1>3. \A y, step : ToContext(y, step).schedule # "step" /\ Outcome(y, "again").schedule # "step"
  BY DEF ToContext, Outcome
<1>4. \A y : /\ CleanupAfterSuccessCallback(y).schedule # "step"
             /\ CleanupAfterTransactionErrorCallback(y).schedule # "step"
  BY DEF CleanupAfterSuccessCallback, CleanupAfterTransactionErrorCallback
<1>5. \A y : \A o \in PostflightAndCommit(y) : o.schedule # "step"
  BY <1>1, <1>3, <1>4 DEF PostflightAndCommit
<1>6. \A y : \A o \in RunCurrentStatement(y) : o.schedule # "step"
  BY <1>2, <1>3 DEF RunCurrentStatement
<1>7. \A y : \A o \in RunStatements(y) : o.schedule # "step"
  BY <1>2, <1>5, <1>6 DEF RunStatements
<1>8. ASSUME x.nextStep \in DatabaseSteps \ {"acquireLock", "postflightAndCommit"}, NEW o \in DatabaseStep(x, deleted)
      PROVE  o.schedule # "step"
  <2>1. CASE x.nextStep = "openTransactionAndPreflight"
    BY <1>1, <1>3, <1>8, <2>1 DEF DatabaseStep, OpenTransactionAndPreflight
  <2>2. CASE x.nextStep = "runStatements"
    BY <1>7, <1>8, <2>2 DEF DatabaseStep
  <2>3. CASE x.nextStep = "cleanupAfterSuccessCallback"
    BY <1>4, <1>8, <2>3 DEF DatabaseStep
  <2>4. CASE x.nextStep = "cleanupAfterTransactionErrorCallback"
    BY <1>4, <1>8, <2>4 DEF DatabaseStep
  <2> QED BY <1>8, <2>1, <2>2, <2>3, <2>4 DEF DatabaseSteps
<1> QED BY <1>7, <1>8

\* The database thread moves transaction t on and lets the transactions G in.
LEMMA DatabaseMove ==
  ASSUME IInv, NEW t \in Created, (dbThread = Loop /\ InDb(t)) \/ InLoop(t),
         NEW G \in SUBSET Created, NEW at \in {"runStatements", "return"},
         dbThread' = [at |-> at, transaction |-> t],
         handle' = handle, UNCHANGED <<openDatabaseSet, openSetCopy>>, killed' = killed, sync' = sync,
         deletion' = deletion, ctxThread' = ctxThread, Created' = Created,
         txn' \in [Created -> SQLTransactions], QueuesOK',
         \A n \in DOMAIN coordinationInfoMap' : InfoOK(n, coordinationInfoMap[n])',
         LifeOf(t)',
         txn'[t].sqlite # "none" => txn[t].sqlite # "none" \/ ~Stopped(HandleOf(t)),
         \A u \in Created : u # t =>
           /\ InDb(u)' <=> InDb(u) \/ u \in G
           /\ InPending(u)' <=> InPending(u) /\ u \notin G
           /\ IsActive(u)' <=> IsActive(u) \/ u \in G
           /\ u \in G => InPending(u)
           /\ InCtx(u)' <=> InCtx(u)
           /\ txn'[u] = IF u \in G THEN LockAcquired(txn[u]) ELSE txn[u]
  PROVE  IInv'
<1>1. ~Down /\ ~Down' /\ ~Closing /\ ~Closing' /\ dbThread'.at = at /\ dbThread'.transaction = t
  BY DEF Down, Closing, InLoop, Loop
<1>2. HandlesOK' /\ DeletionOK'
  <2>1. HandlesOK'
    BY DEF IInv, HandlesOK, HandleOK
  <2> QED BY <2>1, DeletionKept
<1>3. ThreadsOK'
  <2>1. dbThread' \in [at: {"runStatements", "return"}, transaction: Created']
    OBVIOUS
  <2>2. killed' \in BOOLEAN /\ sync' \in [Threads -> {"none", "waiting", "completed"}] /\ openSetCopy' = {}
    BY <1>1, Types DEF IInv, ThreadsOK
  <2> QED BY <1>1, <2>1, <2>2 DEF ThreadsOK
<1>4. TransactionsOK'
  BY DEF IInv, TransactionsOK
<1>5. CoordinatorOK'
  BY <1>1 DEF CoordinatorOK
<1>6. \A u \in Created : /\ InHandle(u)' <=> InHandle(u)
                         /\ InScript(u)' <=> InScript(u)
                         /\ Stopped(HandleOf(u))' <=> Stopped(HandleOf(u))
                         /\ u # t => ~InLoop(u)'
  BY <1>1 DEF InHandle, InScript, Stopped, InLoop
<1>7. \A u \in Created : u # t => ~InLoop(u)
  BY DEF InLoop, Loop
<1>8. ASSUME NEW u \in Created, u # t  PROVE LifeOf(u)'
  <2>1. LifeOf(u)
    BY DEF IInv, Lives
  <2>2. CASE u \in G
    <3>1. InPending(u) /\ InDb(u)' /\ ~InPending(u)' /\ IsActive(u)' /\ txn'[u] = LockAcquired(txn[u])
      BY <1>8, <2>2
    <3>2. PlacesOf(u) = {"pending"} /\ txn[u].nextStep = "acquireLock"
      BY <2>1, <3>1, OnlyPlace
    <3>3. ~InHandle(u) /\ ~InCtx(u) /\ ~InScript(u)
      BY <3>2, PlaceMembers
    <3>4. PlacesOf(u)' = {"db"}
      BY <1>6, <1>8, <3>1, <3>3, PlacesThen
    <3>51. PICK stopped \in BOOLEAN : stopped <=> Stopped(HandleOf(u))
      OBVIOUS
    <3>52. PICK x : x = txn[u]
      OBVIOUS
    <3>5. (stopped <=> Stopped(HandleOf(u))) /\ x = txn[u]
      BY <3>51, <3>52
    <3>6. Life(x, {"pending"}, FALSE, stopped, FALSE) /\ x.nextStep = "acquireLock"
      BY <1>1, <2>1, <3>2, <3>5 DEF LifeOf, Life
    <3>7. Life(LockAcquired(x), {"db"}, TRUE, stopped, FALSE)
      BY <3>6, LockAcquiredLife
    <3> QED BY <1>1, <1>6, <1>8, <3>1, <3>4, <3>5, <3>7 DEF LifeOf, Life
  <2>3. CASE u \notin G
    <3>1. PlacesOf(u)' = PlacesOf(u)
      BY <1>6, <1>7, <1>8, <2>3, PlacesKept
    <3> QED BY <1>1, <1>6, <1>8, <2>1, <2>3, <3>1, LifeUnchanged
  <2> QED BY <2>2, <2>3
<1>9. Lives'
  BY <1>8 DEF Lives
<1>10. OneAtATime'
  <2>1. LifeOf(t)
    BY DEF IInv, Lives
  <2>2. ~InHandle(t) /\ txn[t].nextStep # "none"
    BY <2>1, OnlyPlace DEF DatabaseSteps
  <2>3. ASSUME NEW u \in Created, u # t
        PROVE  /\ txn'[u].sqlite = txn[u].sqlite
               /\ Started(u)' => Started(u)
    <3>1. CASE u \in G
      <4>1. LifeOf(u) /\ InPending(u)
        BY <2>3, <3>1 DEF IInv, Lives
      <4>2. txn[u] \in SQLTransactions /\ txn[u].nextStep = "acquireLock"
        BY <4>1, OnlyPlace DEF LifeOf, Life, RecordOK
      <4>3. txn'[u].sqlite = txn[u].sqlite
        BY <2>3, <3>1, <4>2 DEF LockAcquired, SQLTransactions
      <4> QED BY <1>6, <4>2, <4>3 DEF Started
    <3>2. CASE u \notin G
      BY <1>1, <1>6, <2>3, <3>2 DEF Started
    <3> QED BY <3>1, <3>2
  <2>4. Started(t)
    BY <2>2 DEF Started
  <2>5. \A u \in Created : (Started(u)' => Started(u)) /\ (Stopped(HandleOf(u))' <=> Stopped(HandleOf(u)))
    BY <1>6, <2>3, <2>4
  <2>6. CASE txn'[t].sqlite # "none" => txn[t].sqlite # "none"
    <3>1. OneAtATime /\ \A u \in Created : txn'[u].sqlite # "none" => txn[u].sqlite # "none"
      BY <2>3, <2>6 DEF IInv
    <3> QED BY <2>5, <3>1, OneAtATimeKept
  <2>7. CASE ~Stopped(HandleOf(t))
    <3>1. OneStarted /\ StartedInProgress /\ OneOpen
      BY DEF IInv, OneAtATime
    <3>2. ASSUME NEW u \in Created, HandleOf(u) = HandleOf(t), txn[u].sqlite # "none"  PROVE u = t
      <4>1. LifeOf(u) /\ ~Stopped(HandleOf(u))
        BY <2>7, <3>2 DEF IInv, Lives
      <4>2. txn[u].nextStep # "none" /\ txn[u].nextStep # "acquireLock"
        BY <3>2, <4>1 DEF LifeOf, Life, RecordOK, FirstSteps
      <4>3. ~InHandle(u)
        BY <4>1, <4>2, OnlyPlace
      <4>4. Started(u)
        BY <4>2, <4>3 DEF Started
      <4> QED BY <2>4, <2>7, <3>1, <3>2, <4>4 DEF OneStarted
    <3>3. OneStarted'
      BY <2>5, <3>1 DEF OneStarted
    <3>4. StartedInProgress'
      BY <2>5, <3>1 DEF StartedInProgress
    <3>5. OneOpen'
      BY <2>3, <3>1, <3>2 DEF OneOpen
    <3> QED BY <3>3, <3>4, <3>5 DEF OneAtATime
  <2> QED BY <2>6, <2>7
<1> QED BY <1>2, <1>3, <1>4, <1>5, <1>9, <1>10 DEF IInv

\* The context's queue after a step of t on the database thread.
LEMMA PostedCallback ==
  ASSUME IInv, NEW t \in Created, ~InCtx(t), NEW posted \in BOOLEAN,
         ctxQueue' = ctxQueue \o (IF posted THEN <<t>> ELSE << >>)
  PROVE  /\ ctxQueue' \in Seq(Created) /\ Distinct(ctxQueue')
         /\ \A u : InCtx(u)' <=> InCtx(u) \/ (posted /\ u = t)
<1>1. PICK q, s : q = ctxQueue /\ s = IF posted THEN <<t>> ELSE << >>
  OBVIOUS
<1>2. q \in Seq(Created) /\ Distinct(q)
  BY <1>1 DEF IInv, QueuesOK
<1>3. s \in Seq(Created) /\ ToSet(s) = (IF posted THEN {t} ELSE {}) /\ Distinct(s)
  BY <1>1, SingleQueue
<1>4. ToSet(q) \cap ToSet(s) = {}
  BY <1>1, <1>3 DEF InCtx
<1>5. q \o s \in Seq(Created) /\ Distinct(q \o s) /\ ToSet(q \o s) = ToSet(q) \cup ToSet(s)
  BY <1>2, <1>3, <1>4, JoinedQueues
<1>6. ctxQueue' = q \o s
  BY <1>1
<1>7. ctxQueue' \in Seq(Created) /\ Distinct(ctxQueue') /\ ToSet(ctxQueue') = ToSet(ctxQueue) \cup ToSet(s)
  BY <1>1, <1>5, <1>6
<1>8. \A u : InCtx(u)' <=> InCtx(u) \/ (posted /\ u = t)
  BY <1>3, <1>7 DEF InCtx
<1> QED BY <1>7, <1>8

\* FinishDatabaseStep: the transaction has the life the outcome says.
LEMMA FinishOK ==
  ASSUME IInv, NEW t \in Created, (dbThread = Loop /\ InDb(t)) \/ InLoop(t), NEW o, NEW queue,
         FinishDatabaseStep(t, o, queue),
         handle' = handle, UNCHANGED <<openDatabaseSet, openSetCopy>>, killed' = killed, sync' = sync,
         deletion' = deletion, ctxThread' = ctxThread,
         queue \in Seq(Tasks), NoTwins(queue), \A task \in ToSet(queue) : TaskOK(task),
         \A u \in Created : (\E task \in ToSet(queue) : task.transaction = u) <=> InDb(u) /\ u # t,
         o.schedule \in {"callback", "again", "none"}, o.release \in BOOLEAN, o.txn \in SQLTransactions,
         o.release => IsActive(t),
         NEW active \in BOOLEAN, active <=> IsActive(t) /\ ~o.release,
         NEW stopped \in BOOLEAN, stopped <=> Stopped(HandleOf(t)),
         Life(o.txn, PlaceAfter(o.schedule), active, stopped, FALSE),
         o.txn.sqlite # "none" => txn[t].sqlite # "none" \/ ~Stopped(HandleOf(t))
  PROVE  IInv'
<1> DEFINE n == NameOf(HandleOf(t))
           after == [txn EXCEPT ![t] = o.txn]
           info == Deactivate(InfoFor(n), t)
<1>1. LifeOf(t)
  BY DEF IInv, Lives
<1>2. ~InHandle(t) /\ ~InPending(t) /\ ~InCtx(t) /\ ~InScript(t)
  BY <1>1, OnlyPlace
<1>3. PICK at \in {"runStatements", "return"} :
        /\ dbThread' = [at |-> at, transaction |-> t]
        /\ at = "runStatements" <=> o.schedule = "again"
  BY DEF FinishDatabaseStep
<1>4. /\ ctxQueue' \in Seq(Created) /\ Distinct(ctxQueue')
      /\ \A u : InCtx(u)' <=> InCtx(u) \/ (o.schedule = "callback" /\ u = t)
  <2>1. PICK posted \in BOOLEAN : posted <=> o.schedule = "callback"
    OBVIOUS
  <2>2. ctxQueue' = ctxQueue \o (IF posted THEN <<t>> ELSE << >>)
    BY <2>1 DEF FinishDatabaseStep
  <2> QED BY <1>2, <2>1, <2>2, PostedCallback
<1>5. txn \in [Created -> SQLTransactions]
  BY DEF IInv, TransactionsOK
<1>6. /\ after \in [Created -> SQLTransactions] /\ after[t] = o.txn
      /\ \A u \in Created : u # t => after[u] = txn[u]
  BY <1>5
<1>7. ASSUME NEW G \in SUBSET Created, t \notin G,
             Created' = Created, \A u \in Created : txn'[u] = IF u \in G THEN LockAcquired(after[u]) ELSE after[u],
             DOMAIN txn' = Created, txn' = [u \in Created |-> txn'[u]],
             dbQueue' \in Seq(Tasks), NoTwins(dbQueue'), \A task \in ToSet(dbQueue') : TaskOK(task),
             \A m \in DOMAIN coordinationInfoMap' : InfoOK(m, coordinationInfoMap[m])',
             ~InDb(t)', ~InPending(t)', IsActive(t)' <=> active,
             \A u \in Created : u # t =>
               /\ InDb(u)' <=> InDb(u) \/ u \in G
               /\ InPending(u)' <=> InPending(u) /\ u \notin G
               /\ IsActive(u)' <=> IsActive(u) \/ u \in G
               /\ u \in G => InPending(u)
      PROVE  IInv'
  <2>1. ASSUME NEW u \in Created  PROVE txn'[u] \in SQLTransactions
    <3>1. CASE u \in G
      <4>1. PICK x : x = after[u]
        OBVIOUS
      <4>2. x \in SQLTransactions
        BY <1>6, <4>1
      <4>3. LockAcquired(x) \in SQLTransactions
        BY <4>2 DEF LockAcquired, SQLTransactions, Steps, DatabaseSteps
      <4> QED BY <1>7, <3>1, <4>1, <4>3
    <3> QED BY <1>6, <1>7, <3>1
  <2>2. txn' \in [Created -> SQLTransactions]
    BY <1>7, <2>1
  <2>3. QueuesOK'
    <3>1. Tasks' = Tasks
      BY <1>7 DEF Tasks
    <3>2. \A task \in ToSet(dbQueue') : TaskOK(task)'
      BY <1>7 DEF TaskOK
    <3>3. ctxThread' \in Created \cup {NoTransaction}
      BY DEF IInv, QueuesOK
    <3> QED BY <1>4, <1>7, <3>1, <3>2, <3>3 DEF QueuesOK
  <2>4. txn'[t] = o.txn
    BY <1>6, <1>7
  <2>5. LifeOf(t)'
    <3>1. (InLoop(t)' <=> o.schedule = "again") /\ ~InHandle(t)' /\ ~InScript(t)'
      BY <1>2, <1>3 DEF InLoop, InHandle, InScript
    <3>2. InCtx(t)' <=> o.schedule = "callback"
      BY <1>2, <1>4
    <3>3. PlacesOf(t)' = PlaceAfter(o.schedule)
      BY <1>7, <3>1, <3>2 DEF PlacesOf, PlaceAfter
    <3>4. (Stopped(HandleOf(t))' <=> stopped) /\ ~Down'
      BY <1>3 DEF Stopped, Down, Closing
    <3> QED BY <1>7, <2>4, <3>3, <3>4 DEF LifeOf, Life
  <2>6. \A u \in Created : u # t =>
           /\ InDb(u)' <=> InDb(u) \/ u \in G
           /\ InPending(u)' <=> InPending(u) /\ u \notin G
           /\ IsActive(u)' <=> IsActive(u) \/ u \in G
           /\ u \in G => InPending(u)
           /\ InCtx(u)' <=> InCtx(u)
           /\ txn'[u] = IF u \in G THEN LockAcquired(txn[u]) ELSE txn[u]
    BY <1>4, <1>6, <1>7
  <2>7. txn'[t].sqlite # "none" => txn[t].sqlite # "none" \/ ~Stopped(HandleOf(t))
    BY <2>4
  <2>8. dbThread' = [at |-> at, transaction |-> t] /\ Created' = Created
    BY <1>3, <1>7
  <2>9. \A m \in DOMAIN coordinationInfoMap' : InfoOK(m, coordinationInfoMap[m])'
    BY <1>7
  <2> HIDE DEF after
  <2> QED BY <1>3, <2>2, <2>3, <2>5, <2>6, <2>7, <2>8, <2>9, DatabaseMove
<1>8. CASE ~o.release
  <2>1. txn' = after /\ dbQueue' = queue /\ coordinationInfoMap' = coordinationInfoMap
    BY <1>8 DEF FinishDatabaseStep
  <2>2. Created' = Created
    BY <1>6, <2>1 DEF Created
  <2>3. \A m \in DOMAIN coordinationInfoMap' : InfoOK(m, coordinationInfoMap[m])'
    BY <2>1, <2>2 DEF IInv, CoordinatorOK, InfoOK
  <2>4. \A u : (InPending(u)' <=> InPending(u)) /\ (IsActive(u)' <=> IsActive(u))
    BY <2>1 DEF InPending, IsActive, InfoFor
  <2>5. \A u \in Created : InDb(u)' <=> InDb(u) /\ u # t
    BY <2>1 DEF InDb
  <2>6. {} \in SUBSET Created /\ t \notin {}
    OBVIOUS
  <2>7. DOMAIN txn' = Created /\ txn' = [u \in Created |-> txn'[u]]
    BY <1>6, <2>1
  <2> QED BY <1>2, <1>6, <1>7, <1>8, <2>1, <2>2, <2>3, <2>4, <2>5, <2>6, <2>7
<1>9. CASE o.release
  <2>1. ProcessPending(n, info, after, queue)
    BY <1>9 DEF FinishDatabaseStep
  <2>2. PICK old : old = InfoFor(n)
    OBVIOUS
  <2>3. InfoOK(n, old) /\ t \in Active(old)
    BY <1>9, <2>2, InfoForOK DEF IsActive
  <2>4. PICK i : i = info
    OBVIOUS
  <2>5. /\ i \in CoordinationInfos /\ ExclusiveInfo(i) /\ DistinctInfo(i)
        /\ Pending(i) = Pending(old) /\ Active(i) = Active(old) \ {t}
    BY <2>2, <2>3, <2>4, DeactivateProperties DEF InfoOK
  <2>6. InfoOK(n, i)
    BY <2>3, <2>5 DEF InfoOK
  <2>7. \A u \in Pending(i) : u \in Created /\ InPending(u) /\ ~InDb(u)
    <3> SUFFICES ASSUME NEW u \in Pending(i)  PROVE u \in Created /\ InPending(u) /\ ~InDb(u)
      OBVIOUS
    <3>1. u \in Created /\ NameOf(HandleOf(u)) = n
      BY <2>6 DEF InfoOK
    <3>2. InPending(u)
      BY <2>2, <2>5, <3>1 DEF InPending
    <3>3. LifeOf(u)
      BY <3>1 DEF IInv, Lives
    <3> QED BY <3>1, <3>2, <3>3, OnlyPlace
  <2>8. \A task \in ToSet(queue) : task.transaction \notin Pending(i)
    BY <2>7
  <2>9. PICK G : G = GrantedSet(i)
    OBVIOUS
  <2>10. PICK xs : xs = after
    OBVIOUS
  <2>11. ProcessPending(n, i, xs, queue)
    BY <2>1, <2>4, <2>10
  <2> HIDE DEF info, n
  <2>12. /\ Created' = Created
         /\ \A u \in Created : txn'[u] = IF u \in G THEN LockAcquired(xs[u]) ELSE xs[u]
         /\ dbQueue' \in Seq(Tasks) /\ NoTwins(dbQueue') /\ \A task \in ToSet(dbQueue') : TaskOK(task)
         /\ \A u : InDb(u)' <=> u \in G \/ \E task \in ToSet(queue) : task.transaction = u
         /\ G \subseteq Pending(i)
         /\ \A m \in DOMAIN coordinationInfoMap' : InfoOK(m, coordinationInfoMap[m])'
         /\ \A u : InPending(u)' <=> IF NameOf(HandleOf(u)) = n THEN u \in Pending(i) \ G ELSE InPending(u)
         /\ \A u : IsActive(u)' <=> IF NameOf(HandleOf(u)) = n THEN u \in Active(i) \cup G ELSE IsActive(u)
    BY <2>6, <2>8, <2>9, <2>11, Granting
  <2>13. G \in SUBSET Created /\ t \notin G
    BY <1>2, <2>7, <2>12
  <2>14. ~InDb(t)' /\ ~InPending(t)' /\ (IsActive(t)' <=> active)
    <3>1. t \notin Pending(i) /\ t \notin Active(i) /\ ~active
      BY <1>2, <1>9, <2>5, <2>7
    <3>2. NameOf(HandleOf(t)) = n
      BY DEF n
    <3> QED BY <2>12, <2>13, <3>1, <3>2
  <2>15. ASSUME NEW u \in Created, u # t
         PROVE  /\ InDb(u)' <=> InDb(u) \/ u \in G
                /\ InPending(u)' <=> InPending(u) /\ u \notin G
                /\ IsActive(u)' <=> IsActive(u) \/ u \in G
                /\ u \in G => InPending(u)
    <3>1. InDb(u)' <=> InDb(u) \/ u \in G
      BY <2>12, <2>15
    <3>2. u \in G => InPending(u) /\ NameOf(HandleOf(u)) = n
      BY <2>6, <2>7, <2>12 DEF InfoOK
    <3>3. CASE NameOf(HandleOf(u)) = n
      <4>1. (InPending(u) <=> u \in Pending(i)) /\ (IsActive(u) <=> u \in Active(i))
        BY <2>2, <2>5, <2>15, <3>3 DEF InPending, IsActive, n
      <4> QED BY <2>12, <3>1, <3>2, <3>3, <4>1
    <3>4. CASE NameOf(HandleOf(u)) # n
      BY <2>12, <3>1, <3>2, <3>4
    <3> QED BY <3>3, <3>4
  <2>16. DOMAIN txn' = Created /\ txn' = [u \in Created |-> txn'[u]]
    BY <2>11 DEF ProcessPending, Created
  <2>17. \A u \in Created : txn'[u] = IF u \in G THEN LockAcquired(after[u]) ELSE after[u]
    BY <2>10, <2>12
  <2> HIDE DEF after
  <2> QED BY <1>7, <2>12, <2>13, <2>14, <2>15, <2>16, <2>17
<1> QED BY <1>8, <1>9

\* The transaction t of the first task, and the tasks behind it.
Taken(t, queue) ==
  /\ dbThread = Loop /\ t \in Created /\ Head(dbQueue).handle = HandleOf(t) /\ InDb(t) /\ LifeOf(t) /\ ~Down
  /\ queue \in Seq(Tasks) /\ NoTwins(queue) /\ \A task \in ToSet(queue) : TaskOK(task)
  /\ \A u \in Created : (\E task \in ToSet(queue) : task.transaction = u) <=> InDb(u) /\ u # t

\* What the database thread knows when it takes a transaction task.
LEMMA TransactionTaskTaken ==
  ASSUME IInv, Takable("transaction"), NEW t, t = Head(dbQueue).transaction, NEW queue, queue = Tail(dbQueue)
  PROVE  Taken(t, queue)
<1>1. dbThread = Loop /\ dbQueue # << >> /\ Head(dbQueue).kind = "transaction"
  BY DEF Takable
<1>2. PICK first : first = Head(dbQueue)
  OBVIOUS
<1>3. /\ first \in Tasks /\ TaskOK(first) /\ queue \in Seq(Tasks) /\ NoTwins(queue)
      /\ ToSet(dbQueue) = ToSet(queue) \cup {first}
      /\ \A task \in ToSet(queue) : TaskOK(task) /\ ~Same(task, first) /\ task \in Tasks
  BY <1>1, <1>2, FirstTask
<1>4. first.kind = "transaction" /\ t = first.transaction
  BY <1>1, <1>2
<1>5. t \in Created /\ first.handle = HandleOf(t)
  BY <1>3, <1>4 DEF TaskOK
<1>6. InDb(t)
  BY <1>3, <1>4 DEF InDb
<1>7. LifeOf(t) /\ ~Down
  BY <1>1, <1>5 DEF IInv, Lives, Down, Closing, Loop
<1>8. ASSUME NEW u \in Created  PROVE (\E task \in ToSet(queue) : task.transaction = u) <=> InDb(u) /\ u # t
  <2>1. ASSUME NEW task \in ToSet(queue), task.transaction = u  PROVE InDb(u) /\ u # t
    <3>1. task.kind = "transaction" /\ task.handle = HandleOf(u)
      <4>1. NoTransaction \notin Created
        BY TransactionTasks
      <4> QED BY <1>3, <2>1, <4>1 DEF TaskOK
    <3>2. u # t
      BY <1>3, <1>4, <1>5, <2>1, <3>1 DEF Same
    <3> QED BY <1>3, <2>1, <3>2 DEF InDb
  <2>2. ASSUME InDb(u), u # t  PROVE \E task \in ToSet(queue) : task.transaction = u
    BY <1>3, <1>4, <2>2 DEF InDb
  <2> QED BY <2>1, <2>2
<1> QED BY <1>1, <1>2, <1>3, <1>5, <1>6, <1>7, <1>8 DEF Taken

\* A step of a transaction that runs on: what OutcomeOK says of it holds on its
\* handle.
LEMMA OutcomeLife ==
  ASSUME NEW o, OutcomeOK(o), NEW active \in BOOLEAN, active = ~o.release, NEW stopped \in BOOLEAN
  PROVE  Life(o.txn, PlaceAfter(o.schedule), active, stopped, FALSE) /\ o.txn \in SQLTransactions
<1>1. PICK x, P : x = o.txn /\ P = PlaceAfter(o.schedule)
  OBVIOUS
<1>2. Life(x, P, active, FALSE, FALSE)
  BY <1>1 DEF OutcomeOK
<1>3. Life(x, P, active, stopped, FALSE)
  BY <1>2, LifeKept
<1>4. x \in SQLTransactions
  BY <1>2 DEF Life, RecordOK
<1> QED BY <1>1, <1>3, <1>4

\* A stopped transaction is cancelled.
LEMMA CancelledOK ==
  ASSUME IInv, PerformTransactionTask, Stopped(Head(dbQueue).handle)
  PROVE  IInv'
<1>1. PICK t, queue : t = Head(dbQueue).transaction /\ queue = Tail(dbQueue)
  OBVIOUS
<1>2. Takable("transaction")
  BY DEF PerformTransactionTask
<1>3. /\ dbThread = Loop /\ t \in Created /\ Head(dbQueue).handle = HandleOf(t) /\ InDb(t) /\ LifeOf(t) /\ ~Down
      /\ queue \in Seq(Tasks) /\ NoTwins(queue) /\ \A task \in ToSet(queue) : TaskOK(task)
      /\ \A u \in Created : (\E task \in ToSet(queue) : task.transaction = u) <=> InDb(u) /\ u # t
  <2>1. Taken(t, queue)
    BY <1>1, <1>2, TransactionTaskTaken
  <2> QED BY <2>1 DEF Taken
<1>4. Stopped(HandleOf(t))
  BY <1>3
<1>5. PICK x, P : x = txn[t] /\ P = PlacesOf(t)
  OBVIOUS
<1>6. PICK active \in BOOLEAN : active <=> IsActive(t)
  OBVIOUS
<1>7. Life(x, P, active, TRUE, FALSE)
  BY <1>3, <1>4, <1>5, <1>6 DEF LifeOf, Life
<1>8. x.nextStep # "none"
  <2>1. x.nextStep \in DatabaseSteps
    BY <1>3, <1>5, OnlyPlace
  <2> QED BY <2>1 DEF DatabaseSteps
<1>9. PICK o : o = CancelOnDatabaseThread(x)
  OBVIOUS
<1>10. Life(o.txn, {}, FALSE, TRUE, FALSE) /\ o.schedule = "none" /\ o.release = active /\ o.txn.sqlite = "none"
  BY <1>7, <1>8, <1>9, CancelDatabaseLife
<1>11. FinishDatabaseStep(t, o, queue)
  BY <1>1, <1>3, <1>4, <1>5, <1>9 DEF PerformTransactionTask
<1>12. PlaceAfter(o.schedule) = {} /\ o.txn \in SQLTransactions
  BY <1>10 DEF PlaceAfter, Life, RecordOK
<1>13. /\ handle' = handle /\ UNCHANGED <<openDatabaseSet, openSetCopy>> /\ killed' = killed /\ sync' = sync
       /\ deletion' = deletion /\ ctxThread' = ctxThread
  BY DEF PerformTransactionTask
<1>14. Life(o.txn, PlaceAfter(o.schedule), FALSE, TRUE, FALSE)
  BY <1>10, <1>12
<1>15. (o.release => IsActive(t)) /\ (FALSE <=> IsActive(t) /\ ~o.release) /\ o.release \in BOOLEAN
  BY <1>6, <1>10
<1>16. PICK gone \in BOOLEAN, stopped \in BOOLEAN : gone = FALSE /\ stopped = TRUE
  OBVIOUS
<1>17. /\ Life(o.txn, PlaceAfter(o.schedule), gone, stopped, FALSE)
       /\ gone <=> IsActive(t) /\ ~o.release
       /\ stopped <=> Stopped(HandleOf(t))
  BY <1>4, <1>14, <1>15, <1>16
<1> QED BY <1>3, <1>10, <1>11, <1>12, <1>13, <1>15, <1>17, FinishOK

\* A step other than acquireLock is performed.
LEMMA StepPerformedOK ==
  ASSUME IInv, PerformTransactionTask, ~Stopped(Head(dbQueue).handle),
         txn[Head(dbQueue).transaction].nextStep # "acquireLock"
  PROVE  IInv'
<1>1. PICK t, queue : t = Head(dbQueue).transaction /\ queue = Tail(dbQueue)
  OBVIOUS
<1>2. Takable("transaction")
  BY DEF PerformTransactionTask
<1>3. /\ dbThread = Loop /\ t \in Created /\ Head(dbQueue).handle = HandleOf(t) /\ InDb(t) /\ LifeOf(t) /\ ~Down
      /\ queue \in Seq(Tasks) /\ NoTwins(queue) /\ \A task \in ToSet(queue) : TaskOK(task)
      /\ \A u \in Created : (\E task \in ToSet(queue) : task.transaction = u) <=> InDb(u) /\ u # t
  <2>1. Taken(t, queue)
    BY <1>1, <1>2, TransactionTaskTaken
  <2> QED BY <2>1 DEF Taken
<1>4. ~Stopped(HandleOf(t)) /\ txn[t].nextStep # "acquireLock"
  BY <1>1, <1>3
<1>5. PICK x, deleted : x = txn[t] /\ deleted = handle[HandleOf(t)].deleted
  OBVIOUS
<1>6. PICK o \in DatabaseStep(x, deleted) : FinishDatabaseStep(t, o, queue)
  BY <1>1, <1>3, <1>4, <1>5 DEF PerformTransactionTask
<1>7. /\ handle' = handle /\ UNCHANGED <<openDatabaseSet, openSetCopy>> /\ killed' = killed /\ sync' = sync
      /\ deletion' = deletion /\ ctxThread' = ctxThread
  BY DEF PerformTransactionTask
<1>8. x.nextStep \in DatabaseSteps \ {"acquireLock", "postflightAndCommit"}
  BY <1>3, <1>4, <1>5, OnlyPlace
<1>9. x.nextStep # "none"
  BY <1>8 DEF DatabaseSteps
<1>10. RecordOK(x) /\ SqliteFits(x) /\ x.lockAcquired /\ IsActive(t)
  BY <1>3, <1>4, <1>5, <1>9 DEF LifeOf, Life
<1>11. deleted \in BOOLEAN
  BY <1>3, <1>5 DEF IInv, HandlesOK, TransactionsOK, Databases
<1>12. OutcomeOK(o)
  BY <1>6, <1>8, <1>10, <1>11, DatabaseStepDone
<1>13. o.schedule # "step"
  BY <1>6, <1>8, NoStepOutcome
<1>14. o.schedule \in {"callback", "again", "none"} /\ o.release \in BOOLEAN
  BY <1>12, <1>13 DEF OutcomeOK
<1>15. PICK active \in BOOLEAN, stopped \in BOOLEAN : active = ~o.release /\ stopped = FALSE
  BY <1>14
<1>16. Life(o.txn, PlaceAfter(o.schedule), active, stopped, FALSE) /\ o.txn \in SQLTransactions
  BY <1>12, <1>15, OutcomeLife
<1>17. (active <=> IsActive(t) /\ ~o.release) /\ (stopped <=> Stopped(HandleOf(t))) /\ (o.release => IsActive(t))
  BY <1>4, <1>10, <1>14, <1>15
<1> QED BY <1>3, <1>4, <1>6, <1>7, <1>14, <1>16, <1>17, FinishOK

\* The loop of runStatements goes on, on a handle that may have been stopped
\* since it was entered.
LEMMA ContinueStatementsOK ==
  ASSUME IInv, ContinueStatements
  PROVE  IInv'
<1>1. PICK t : t = dbThread.transaction
  OBVIOUS
<1>2. dbThread.at = "runStatements"
  BY DEF ContinueStatements
<1>3. t \in Created
  BY <1>1, <1>2 DEF IInv, ThreadsOK
<1>4. InLoop(t) /\ LifeOf(t) /\ ~Down
  BY <1>1, <1>2, <1>3 DEF InLoop, IInv, Lives, Down, Closing
<1>5. PICK x : x = txn[t]
  OBVIOUS
<1>6. PICK o \in RunStatements(x) : FinishDatabaseStep(t, o, dbQueue)
  BY <1>1, <1>5 DEF ContinueStatements
<1>7. /\ handle' = handle /\ UNCHANGED <<openDatabaseSet, openSetCopy>> /\ killed' = killed /\ sync' = sync
      /\ deletion' = deletion /\ ctxThread' = ctxThread
  BY DEF ContinueStatements
<1>8. x.nextStep = "runStatements" /\ ~InDb(t)
  BY <1>4, <1>5, OnlyPlace
<1>9. RecordOK(x) /\ SqliteFits(x) /\ x.lockAcquired /\ IsActive(t)
  BY <1>4, <1>5, <1>8 DEF LifeOf, Life
<1>10. x.sqlite # "none"
  BY <1>8, <1>9 DEF SqliteFits, RunningSteps
<1>11. OutcomeOK(o)
  BY <1>6, <1>8, <1>9, StatementsRun
<1>12. o.schedule # "step"
  BY <1>6, NoStepOutcome
<1>13. o.schedule \in {"callback", "again", "none"} /\ o.release \in BOOLEAN
  BY <1>11, <1>12 DEF OutcomeOK
<1>14. PICK active \in BOOLEAN : active = ~o.release
  BY <1>13
<1>15. PICK stopped \in BOOLEAN : stopped <=> Stopped(HandleOf(t))
  OBVIOUS
<1>16. Life(o.txn, PlaceAfter(o.schedule), active, stopped, FALSE) /\ o.txn \in SQLTransactions
  BY <1>11, <1>14, OutcomeLife
<1>17. (active <=> IsActive(t) /\ ~o.release) /\ (o.release => IsActive(t))
  BY <1>9, <1>13, <1>14
<1>18. PICK queue : queue = dbQueue
  OBVIOUS
<1>19. /\ queue \in Seq(Tasks) /\ NoTwins(queue) /\ \A task \in ToSet(queue) : TaskOK(task)
       /\ \A u \in Created : (\E task \in ToSet(queue) : task.transaction = u) <=> InDb(u) /\ u # t
  BY <1>8, <1>18 DEF IInv, QueuesOK, InDb
<1> QED BY <1>3, <1>4, <1>5, <1>6, <1>7, <1>10, <1>13, <1>15, <1>16, <1>17, <1>18, <1>19, FinishOK

\* acquireLock: the transaction is queued by the coordinator, and maybe granted
\* the lock at once.
LEMMA LockAskedOK ==
  ASSUME IInv, PerformTransactionTask, ~Stopped(Head(dbQueue).handle),
         txn[Head(dbQueue).transaction].nextStep = "acquireLock"
  PROVE  IInv'
<1>1. PICK t, queue : t = Head(dbQueue).transaction /\ queue = Tail(dbQueue)
  OBVIOUS
<1>2. Takable("transaction")
  BY DEF PerformTransactionTask
<1>3. /\ dbThread = Loop /\ t \in Created /\ Head(dbQueue).handle = HandleOf(t) /\ InDb(t) /\ LifeOf(t) /\ ~Down
      /\ queue \in Seq(Tasks) /\ NoTwins(queue) /\ \A task \in ToSet(queue) : TaskOK(task)
      /\ \A u \in Created : (\E task \in ToSet(queue) : task.transaction = u) <=> InDb(u) /\ u # t
  <2>1. Taken(t, queue)
    BY <1>1, <1>2, TransactionTaskTaken
  <2> QED BY <2>1 DEF Taken
<1>4. ~Stopped(HandleOf(t)) /\ txn[t].nextStep = "acquireLock"
  BY <1>1, <1>3
<1>5. PICK n : n = NameOf(HandleOf(t))
  OBVIOUS
<1>6. PICK old : old = InfoFor(n)
  OBVIOUS
<1>7. PICK i : i = Enqueue(old, t)
  OBVIOUS
<1>8. PICK xs : xs = txn
  OBVIOUS
<1>9. ProcessPending(n, i, xs, queue) /\ dbThread' = [at |-> "return", transaction |-> t] /\ ctxQueue' = ctxQueue
  BY <1>1, <1>3, <1>4, <1>5, <1>6, <1>7, <1>8 DEF PerformTransactionTask
<1>10. /\ handle' = handle /\ UNCHANGED <<openDatabaseSet, openSetCopy>> /\ killed' = killed /\ sync' = sync
       /\ deletion' = deletion /\ ctxThread' = ctxThread
  BY DEF PerformTransactionTask
<1>11. /\ ~InHandle(t) /\ ~InPending(t) /\ ~InLoop(t) /\ ~InCtx(t) /\ ~InScript(t)
       /\ PlacesOf(t) = {"db"}
  BY <1>3, OnlyPlace
<1>12. ~IsActive(t)
  BY <1>3, <1>4 DEF LifeOf, Life
<1>13. InfoOK(n, old) /\ t \notin Pending(old) /\ t \notin Active(old)
  BY <1>5, <1>6, <1>11, <1>12, InfoForOK DEF InPending, IsActive
<1>14. t \in Transactions
  BY <1>3 DEF IInv, TransactionsOK
<1>15. /\ i \in CoordinationInfos /\ ExclusiveInfo(i) /\ DistinctInfo(i)
       /\ Pending(i) = Pending(old) \cup {t} /\ Active(i) = Active(old)
  BY <1>7, <1>13, <1>14, EnqueueProperties DEF InfoOK
<1>16. InfoOK(n, i)
  BY <1>3, <1>5, <1>13, <1>15 DEF InfoOK
<1>17. \A u \in Pending(i) : u \in Created /\ NameOf(HandleOf(u)) = n /\ (u # t => InPending(u) /\ ~InDb(u))
  <2> SUFFICES ASSUME NEW u \in Pending(i)
               PROVE  u \in Created /\ NameOf(HandleOf(u)) = n /\ (u # t => InPending(u) /\ ~InDb(u))
    OBVIOUS
  <2>1. u \in Created /\ NameOf(HandleOf(u)) = n
    BY <1>16 DEF InfoOK
  <2>2. u # t => InPending(u)
    BY <1>6, <1>15, <2>1 DEF InPending
  <2>3. LifeOf(u)
    BY <2>1 DEF IInv, Lives
  <2> QED BY <2>1, <2>2, <2>3, OnlyPlace
<1>18. \A task \in ToSet(queue) : task.transaction \notin Pending(i)
  BY <1>3, <1>17
<1>19. PICK G : G = GrantedSet(i)
  OBVIOUS
<1>20. /\ Created' = Created
       /\ \A u \in Created : txn'[u] = IF u \in G THEN LockAcquired(xs[u]) ELSE xs[u]
       /\ dbQueue' \in Seq(Tasks) /\ NoTwins(dbQueue') /\ \A task \in ToSet(dbQueue') : TaskOK(task)
       /\ \A u : InDb(u)' <=> u \in G \/ \E task \in ToSet(queue) : task.transaction = u
       /\ G \subseteq Pending(i)
       /\ \A m \in DOMAIN coordinationInfoMap' : InfoOK(m, coordinationInfoMap[m])'
       /\ \A u : InPending(u)' <=> IF NameOf(HandleOf(u)) = n THEN u \in Pending(i) \ G ELSE InPending(u)
       /\ \A u : IsActive(u)' <=> IF NameOf(HandleOf(u)) = n THEN u \in Active(i) \cup G ELSE IsActive(u)
  BY <1>3, <1>9, <1>10, <1>16, <1>18, <1>19, Granting
<1>21. /\ InDb(t)' <=> t \in G
       /\ InPending(t)' <=> t \notin G
       /\ IsActive(t)' <=> t \in G
  BY <1>3, <1>5, <1>13, <1>15, <1>20
<1>22. ASSUME NEW u \in Created, u # t
       PROVE  /\ InDb(u)' <=> InDb(u) \/ u \in G
              /\ InPending(u)' <=> InPending(u) /\ u \notin G
              /\ IsActive(u)' <=> IsActive(u) \/ u \in G
              /\ u \in G => InPending(u)
              /\ InCtx(u)' <=> InCtx(u)
              /\ txn'[u] = IF u \in G THEN LockAcquired(txn[u]) ELSE txn[u]
  <2>1. InDb(u)' <=> InDb(u) \/ u \in G
    BY <1>3, <1>20, <1>22
  <2>2. u \in G => InPending(u) /\ NameOf(HandleOf(u)) = n
    BY <1>17, <1>20, <1>22
  <2>3. (InPending(u)' <=> InPending(u) /\ u \notin G) /\ (IsActive(u)' <=> IsActive(u) \/ u \in G)
    <3>1. CASE NameOf(HandleOf(u)) = n
      <4>1. (InPending(u) <=> u \in Pending(i)) /\ (IsActive(u) <=> u \in Active(i))
        BY <1>6, <1>15, <1>22, <3>1 DEF InPending, IsActive
      <4> QED BY <1>20, <3>1, <4>1
    <3>2. CASE NameOf(HandleOf(u)) # n
      BY <1>20, <2>2, <3>2
    <3> QED BY <3>1, <3>2
  <2>4. InCtx(u)' <=> InCtx(u)
    BY <1>9 DEF InCtx
  <2>5. txn'[u] = IF u \in G THEN LockAcquired(txn[u]) ELSE txn[u]
    BY <1>8, <1>20
  <2> QED BY <2>1, <2>2, <2>3, <2>4, <2>5
<1>23. DOMAIN txn' = Created /\ txn' = [u \in Created |-> txn'[u]]
  BY <1>9 DEF ProcessPending, Created
<1>24. ASSUME NEW u \in Created  PROVE txn'[u] \in SQLTransactions
  <2>1. PICK x : x = xs[u]
    OBVIOUS
  <2>2. x \in SQLTransactions
    BY <1>8, <2>1 DEF IInv, TransactionsOK
  <2>3. LockAcquired(x) \in SQLTransactions
    BY <2>2 DEF LockAcquired, SQLTransactions, Steps, DatabaseSteps
  <2> QED BY <1>20, <2>1, <2>2, <2>3
<1>25. txn' \in [Created -> SQLTransactions]
  BY <1>23, <1>24
<1>26. QueuesOK'
  <2>1. Tasks' = Tasks
    BY <1>10, <1>20 DEF Tasks
  <2>2. \A task \in ToSet(dbQueue') : TaskOK(task)'
    BY <1>10, <1>20 DEF TaskOK
  <2> QED BY <1>9, <1>10, <1>20, <2>1, <2>2 DEF QueuesOK, IInv
<1>27. ~InHandle(t)' /\ ~InLoop(t)' /\ ~InCtx(t)' /\ ~InScript(t)' /\ ~Down' /\ ~Stopped(HandleOf(t))'
  BY <1>4, <1>9, <1>10, <1>11 DEF InHandle, InLoop, InCtx, InScript, Down, Closing, Stopped
<1>28. PICK x : x = txn[t]
  OBVIOUS
<1>29. Life(x, {"db"}, FALSE, FALSE, FALSE) /\ x.nextStep = "acquireLock"
  BY <1>3, <1>4, <1>11, <1>12, <1>28 DEF LifeOf, Life
<1>30. x.sqlite = "none"
  BY <1>29 DEF Life, RecordOK, FirstSteps
<1>31. LifeOf(t)' /\ txn'[t].sqlite = "none"
  <2>1. CASE t \in G
    <3>1. PICK y : y = LockAcquired(x)
      OBVIOUS
    <3>2. Life(y, {"db"}, TRUE, FALSE, FALSE) /\ y.sqlite = "none"
      BY <1>29, <1>30, <3>1, LockAcquiredLife
    <3>3. txn'[t] = y
      BY <1>3, <1>8, <1>20, <1>28, <2>1, <3>1
    <3>4. PlacesOf(t)' = {"db"}
      BY <1>21, <1>27, <2>1, PlacesThen
    <3> QED BY <1>21, <1>27, <2>1, <3>2, <3>3, <3>4 DEF LifeOf, Life
  <2>2. CASE t \notin G
    <3>1. txn'[t] = x
      BY <1>3, <1>8, <1>20, <1>28, <2>2
    <3>2. PlacesOf(t)' = {"pending"}
      BY <1>21, <1>27, <2>2, PlacesThen
    <3>3. Life(x, {"pending"}, FALSE, FALSE, FALSE)
      BY <1>29 DEF Life, Fits
    <3> QED BY <1>21, <1>27, <1>30, <2>2, <3>1, <3>2, <3>3 DEF LifeOf, Life
  <2> QED BY <2>1, <2>2
<1>32. G \in SUBSET Created
  BY <1>17, <1>20
<1>33. PICK at \in {"runStatements", "return"} : at = "return"
  OBVIOUS
<1>34. /\ dbThread' = [at |-> at, transaction |-> t] /\ Created' = Created
       /\ \A m \in DOMAIN coordinationInfoMap' : InfoOK(m, coordinationInfoMap[m])'
       /\ txn'[t].sqlite # "none" => txn[t].sqlite # "none" \/ ~Stopped(HandleOf(t))
  BY <1>9, <1>20, <1>31, <1>33
<1> QED BY <1>3, <1>10, <1>22, <1>25, <1>26, <1>31, <1>32, <1>34, DatabaseMove

\* DatabaseTransactionTask -> performNextStep.
LEMMA PerformTransactionTaskOK ==
  ASSUME IInv, PerformTransactionTask
  PROVE  IInv'
BY CancelledOK, StepPerformedOK, LockAskedOK

-----------------------------------------------------------------------------
(* One lemma per action: scheduleTransaction                               *)

\* Transactions that nobody has made are nowhere.
LEMMA Unknown ==
  ASSUME IInv, NEW t \in Transactions, t \notin Created
  PROVE  /\ ~InHandle(t)  \/ HandleOf(t) \notin DOMAIN handle
         /\ ~InPending(t) /\ ~InDb(t) /\ ~InLoop(t) /\ ~InCtx(t) /\ ~InScript(t) /\ ~IsActive(t)
<1>1. ~InHandle(t) \/ HandleOf(t) \notin DOMAIN handle
  BY DEF IInv, HandlesOK, HandleOK, InHandle
<1>2. ~InPending(t) /\ ~IsActive(t)
  <2>1. InfoOK(NameOf(HandleOf(t)), InfoFor(NameOf(HandleOf(t))))
    BY InfoForOK
  <2> QED BY <2>1 DEF InfoOK, InPending, IsActive
<1>3. ~InDb(t)
  <2>1. ToSet(dbQueue) \subseteq Tasks
    BY SeqElements DEF IInv, QueuesOK
  <2>2. \A task \in Tasks : task.transaction # t
    BY NoTransactionAssumption DEF Tasks
  <2> QED BY <2>1, <2>2 DEF InDb
<1>4. ~InLoop(t)
  BY DEF IInv, ThreadsOK, InLoop
<1>5. ~InCtx(t) /\ ~InScript(t)
  BY NoTransactionAssumption, SeqElements DEF IInv, QueuesOK, InCtx, InScript
<1> QED BY <1>1, <1>2, <1>3, <1>4, <1>5

\* A transaction that goes from its handle's queue to the database thread's.
LEMMA ScheduledFromHandle ==
  ASSUME NEW x, NEW P, NEW active \in BOOLEAN, NEW stopped \in BOOLEAN, NEW down \in BOOLEAN,
         Life(x, P, active, stopped, down), x.nextStep = "acquireLock"
  PROVE  Life(x, {"db"}, active, stopped, down)
  BY DEF Life, Fits, DatabaseSteps

\* The transactions new are made on handle h, which becomes d, and the
\* transactions moved go from its queue to the database thread's.
Moves(h, d, new, moved) ==
  /\ h \in DOMAIN handle /\ d \in Databases /\ handle' = [handle EXCEPT ![h] = d]
  /\ d.opening = handle[h].opening /\ d.opened = handle[h].opened
  /\ d.returned = handle[h].returned /\ d.interrupted = handle[h].interrupted
  /\ new \in SUBSET Transactions /\ moved \in SUBSET Created'
  /\ Created' = Created \cup new /\ new \cap Created = {}
  /\ txn' \in [Created' -> SQLTransactions] /\ \A u \in Created : txn'[u] = txn[u]
  /\ \A u \in new : /\ HandleOf(u) = h /\ handle[h].returned
                     /\ txn'[u].nextStep = "acquireLock" /\ txn'[u].sqlite = "none" /\ LifeOf(u)'
  /\ Distinct(d.transactionQueue)
  /\ \A u \in ToSet(d.transactionQueue) : u \in Created' /\ HandleOf(u) = h
  /\ \A u \in Created' : HandleOf(u) = h =>
       (u \in ToSet(d.transactionQueue) <=> (u \in new \/ InHandle(u)) /\ u \notin moved)
  /\ \A u \in moved : HandleOf(u) = h /\ (u \in new \/ InHandle(u))
  /\ dbQueue' \in Seq(Tasks') /\ NoTwins(dbQueue') /\ \A task \in ToSet(dbQueue') : TaskOK(task)'
  /\ \A u \in Created : InDb(u)' <=> InDb(u) \/ u \in moved
  /\ dbThread' = dbThread \/ (dbThread.at = "return" /\ dbThread' = Loop)
  /\ killed' = killed /\ UNCHANGED <<openDatabaseSet, openSetCopy>> /\ coordinationInfoMap' = coordinationInfoMap
  /\ ctxQueue' = ctxQueue /\ ctxThread' = ctxThread /\ sync' = sync /\ deletion' = deletion
  /\ ~Stopped(h) => \A u, v \in Created' :
       HandleOf(u) = h /\ Started(u)' =>
         /\ d.transactionInProgress
         /\ HandleOf(v) = h /\ Started(v)' => u = v

\* Such a step keeps the invariant.
LEMMA HandleMove ==
  ASSUME IInv, NEW h, NEW d, NEW new, NEW moved, Moves(h, d, new, moved)
  PROVE  IInv'
<1> USE DEF Moves
<1>1. /\ DOMAIN handle' = DOMAIN handle /\ handle'[h] = d
      /\ \A g \in DOMAIN handle : g # h => handle'[g] = handle[g]
      /\ handle' \in [DOMAIN handle -> Databases]
  BY Types
<1>2. \A g \in DOMAIN handle : /\ handle'[g].opened = handle[g].opened
                               /\ handle'[g].returned = handle[g].returned
                               /\ handle'[g].opening = handle[g].opening
                               /\ Stopped(g)' <=> Stopped(g)
  BY <1>1 DEF Stopped
<1>3. \A u \in Created' : HandleOf(u) \in DOMAIN handle /\ handle[HandleOf(u)].returned
  BY DEF IInv, TransactionsOK
<1>4. HandlesOK'
  <2>1. ASSUME NEW g \in DOMAIN handle  PROVE HandleOK(g)'
    <3>1. HandleOK(g)
      BY DEF IInv, HandlesOK
    <3>2. CASE g = h
      BY <1>1, <3>1, <3>2 DEF HandleOK
    <3>3. CASE g # h
      BY <1>1, <3>1, <3>3 DEF HandleOK
    <3> QED BY <3>2, <3>3
  <2> QED BY <1>1, <2>1 DEF IInv, HandlesOK
<1>5. TransactionsOK'
  BY <1>1, <1>2, <1>3 DEF IInv, TransactionsOK
<1>6. QueuesOK'
  <2>1. ctxQueue' \in Seq(Created') /\ Distinct(ctxQueue')
    <3>1. ctxQueue \in Seq(Created) /\ Distinct(ctxQueue)
      BY DEF IInv, QueuesOK
    <3>2. ctxQueue \in Seq(Created')
      BY <3>1, LongerSeq
    <3> QED BY <3>1, <3>2
  <2>2. ctxThread' \in Created' \cup {NoTransaction}
    BY DEF IInv, QueuesOK
  <2> QED BY <2>1, <2>2 DEF QueuesOK
<1>7. ThreadsOK' /\ (Down' <=> Down)
  <2>1. killed' \in BOOLEAN /\ sync' \in [Threads -> {"none", "waiting", "completed"}] /\ ThreadsOK
    BY Types DEF IInv
  <2>2. CASE dbThread' = dbThread
    <3>1. Closing => ~handle'[dbThread.handle].opened
      <4>1. ASSUME Closing  PROVE dbThread.handle \in DOMAIN handle
        BY <2>1, <4>1 DEF ThreadsOK, Closing
      <4> QED BY <1>2, <2>1, <4>1 DEF ThreadsOK
    <3>2. ThreadsOK'
      BY <1>1, <2>1, <2>2, <3>1, ThreadsThen
    <3> QED BY <2>2, <3>2 DEF Down, Closing
  <2>3. CASE dbThread.at = "return" /\ dbThread' = Loop
    <3>1. ~Down /\ ~Down' /\ ~Closing' /\ dbThread'.at # "ended" /\ dbThread' \in [at: {"loop", "exit", "ended"}]
      BY <2>3 DEF Down, Closing, Loop
    <3> QED BY <2>1, <3>1 DEF ThreadsOK
  <2> QED BY <2>2, <2>3
<1>8. CoordinatorOK'
  BY <1>7 DEF IInv, CoordinatorOK, InfoOK
<1>9. DeletionOK'
  BY <1>1, DeletionKept
<1>10. ASSUME NEW u \in Created
       PROVE  /\ InHandle(u)' <=> InHandle(u) /\ u \notin moved
              /\ InPending(u)' <=> InPending(u)
              /\ InLoop(u)' <=> InLoop(u)
              /\ InCtx(u)' <=> InCtx(u)
              /\ InScript(u)' <=> InScript(u)
              /\ IsActive(u)' <=> IsActive(u)
              /\ Stopped(HandleOf(u))' <=> Stopped(HandleOf(u))
              /\ InDb(u)' <=> InDb(u) \/ u \in moved
              /\ u \in moved => InHandle(u)
  <2>1. InHandle(u)' <=> InHandle(u) /\ u \notin moved
    <3>1. u \notin new /\ HandleOf(u) \in DOMAIN handle
      BY <1>3
    <3>2. CASE HandleOf(u) = h
      BY <1>1, <3>1, <3>2 DEF InHandle
    <3>3. CASE HandleOf(u) # h
      BY <1>1, <3>1, <3>3 DEF InHandle
    <3> QED BY <3>2, <3>3
  <2>2. InLoop(u)' <=> InLoop(u)
    BY DEF InLoop, Loop
  <2>3. u \in moved => InHandle(u)
    OBVIOUS
  <2>4. Stopped(HandleOf(u))' <=> Stopped(HandleOf(u))
    BY <1>2, <1>3
  <2>5. (InPending(u)' <=> InPending(u)) /\ (InCtx(u)' <=> InCtx(u)) /\ (InScript(u)' <=> InScript(u)) /\ (IsActive(u)' <=> IsActive(u))
    BY DEF InPending, InCtx, InScript, IsActive, InfoFor
  <2> QED BY <2>1, <2>2, <2>3, <2>4, <2>5
<1>11. ASSUME NEW u \in Created  PROVE LifeOf(u)'
  <2>1. LifeOf(u) /\ txn'[u] = txn[u]
    BY DEF IInv, Lives
  <2>2. CASE u \notin moved
    <3>1. PlacesOf(u)' = PlacesOf(u)
      BY <1>10, <2>2, PlacesKept
    <3> QED BY <1>7, <1>10, <2>1, <3>1, LifeUnchanged
  <2>3. CASE u \in moved
    <3>1. PlacesOf(u) = {"handle"} /\ txn[u].nextStep = "acquireLock"
      BY <1>10, <2>1, <2>3, OnlyPlace
    <3>2. ~InPending(u) /\ ~InLoop(u) /\ ~InCtx(u) /\ ~InScript(u)
      BY <3>1, PlaceMembers
    <3>3. PlacesOf(u)' = {"db"}
      BY <1>10, <2>3, <3>2, PlacesThen
    <3>41. PICK x : x = txn[u]
      OBVIOUS
    <3>42. PICK active \in BOOLEAN : active <=> IsActive(u)
      OBVIOUS
    <3>43. PICK stopped \in BOOLEAN : stopped <=> Stopped(HandleOf(u))
      OBVIOUS
    <3>44. PICK down \in BOOLEAN : down <=> Down
      OBVIOUS
    <3>4. x = txn[u] /\ (active <=> IsActive(u)) /\ (stopped <=> Stopped(HandleOf(u))) /\ (down <=> Down)
      BY <3>41, <3>42, <3>43, <3>44
    <3>5. Life(x, {"handle"}, active, stopped, down)
      BY <2>1, <3>1, <3>4 DEF LifeOf, Life
    <3>6. Life(x, {"db"}, active, stopped, down)
      BY <3>1, <3>4, <3>5, ScheduledFromHandle
    <3> QED BY <1>7, <1>10, <2>1, <3>3, <3>4, <3>6 DEF LifeOf, Life
  <2> QED BY <2>2, <2>3
<1>12. Lives'
  BY <1>11 DEF Lives
<1>13. ASSUME NEW u \in Created, HandleOf(u) # h, Started(u)'  PROVE Started(u)
  <2>1. u \notin moved
    BY <1>13
  <2>2. ~InHandle(u) /\ txn'[u] = txn[u]
    BY <1>10, <1>13, <2>1 DEF Started
  <2>3. (dbThread'.at = "return" /\ dbThread'.transaction = u) => (dbThread.at = "return" /\ dbThread.transaction = u)
    BY DEF Loop
  <2> QED BY <1>13, <2>2, <2>3 DEF Started
<1>14. OneStarted /\ StartedInProgress /\ OneOpen
  BY DEF IInv, OneAtATime
<1>15. \A u \in Created' : HandleOf(u) # h => u \in Created
  OBVIOUS
<1>16. OneStarted'
  <2> SUFFICES ASSUME NEW u \in Created', NEW v \in Created', HandleOf(u) = HandleOf(v), ~Stopped(HandleOf(u))',
                      Started(u)', Started(v)'
               PROVE  u = v
    BY DEF OneStarted
  <2>1. ~Stopped(HandleOf(u))
    BY <1>2, <1>3
  <2>2. CASE HandleOf(u) = h
    BY <2>1, <2>2
  <2>3. CASE HandleOf(u) # h
    BY <1>13, <1>14, <1>15, <2>1, <2>3 DEF OneStarted
  <2> QED BY <2>2, <2>3
<1>17. StartedInProgress'
  <2> SUFFICES ASSUME NEW u \in Created', ~Stopped(HandleOf(u))', Started(u)'
               PROVE  handle'[HandleOf(u)].transactionInProgress
    BY DEF StartedInProgress
  <2>1. ~Stopped(HandleOf(u)) /\ HandleOf(u) \in DOMAIN handle
    BY <1>2, <1>3
  <2>2. CASE HandleOf(u) = h
    BY <1>1, <2>1, <2>2
  <2>3. CASE HandleOf(u) # h
    <3>1. u \in Created /\ Started(u)
      BY <1>13, <1>15, <2>3
    <3>2. handle[HandleOf(u)].transactionInProgress
      BY <1>14, <2>1, <3>1 DEF StartedInProgress
    <3> QED BY <1>1, <2>1, <2>3, <3>2
  <2> QED BY <2>2, <2>3
<1>18. OneOpen'
  BY <1>14 DEF OneOpen
<1>19. OneAtATime'
  BY <1>16, <1>17, <1>18 DEF OneAtATime
<1> QED BY <1>4, <1>5, <1>6, <1>7, <1>8, <1>9, <1>12, <1>19 DEF IInv

\* A transaction task is appended, for a transaction that may be new.
LEMMA TaskScheduled ==
  ASSUME IInv, Created \subseteq Created', DOMAIN handle' = DOMAIN handle,
         \A g \in DOMAIN handle : handle'[g].returned = handle[g].returned /\ handle'[g].opening = handle[g].opening,
         NEW t \in Created', HandleOf(t) \in DOMAIN handle, ~InDb(t), dbQueue' = dbQueue \o <<TransactionTask(t)>>
  PROVE  /\ dbQueue' \in Seq(Tasks') /\ NoTwins(dbQueue') /\ \A task \in ToSet(dbQueue') : TaskOK(task)'
         /\ \A u : InDb(u)' <=> InDb(u) \/ u = t
<1>1. PICK new : new = TransactionTask(t)
  OBVIOUS
<1>2. new \in Tasks' /\ TaskOK(new)' /\ new.kind = "transaction" /\ new.transaction = t
  BY <1>1 DEF TransactionTask, Tasks, TaskOK
<1>3. PICK last : last = <<new>>
  OBVIOUS
<1>4. last \in Seq(Tasks') /\ ToSet(last) = {new} /\ NoTwins(last)
  BY <1>2, <1>3, SingleQueue
<1>5. dbQueue \in Seq(Tasks) /\ NoTwins(dbQueue) /\ \A task \in ToSet(dbQueue) : TaskOK(task) /\ task \in Tasks
  BY SeqElements DEF IInv, QueuesOK
<1>6. Tasks \subseteq Tasks'
  BY DEF Tasks
<1>7. dbQueue \in Seq(Tasks')
  BY <1>5, <1>6, LongerSeq
<1>8. \A task \in ToSet(dbQueue) : TaskOK(task)'
  BY <1>5 DEF TaskOK, Tasks
<1>9. \A a \in ToSet(dbQueue), b \in ToSet(last) : ~Same(a, b) /\ ~Same(b, a)
  BY <1>2, <1>4 DEF Same, InDb
<1>10. dbQueue' = dbQueue \o last
  BY <1>1, <1>3
<1>11. dbQueue' \in Seq(Tasks') /\ ToSet(dbQueue') = ToSet(dbQueue) \cup {new} /\ NoTwins(dbQueue')
  BY <1>4, <1>5, <1>7, <1>9, <1>10, JoinedQueues
<1>12. \A u : InDb(u)' <=> InDb(u) \/ u = t
  BY <1>2, <1>11 DEF InDb
<1> QED BY <1>2, <1>8, <1>11, <1>12

\* No task is appended.
LEMMA NoTaskScheduled ==
  ASSUME IInv, Created \subseteq Created', DOMAIN handle' = DOMAIN handle,
         \A g \in DOMAIN handle : handle'[g].returned = handle[g].returned /\ handle'[g].opening = handle[g].opening,
         dbQueue' = dbQueue \o << >> \/ dbQueue' = dbQueue
  PROVE  /\ dbQueue' \in Seq(Tasks') /\ NoTwins(dbQueue') /\ \A task \in ToSet(dbQueue') : TaskOK(task)'
         /\ \A u : InDb(u)' <=> InDb(u)
<1>1. dbQueue \in Seq(Tasks) /\ NoTwins(dbQueue) /\ \A task \in ToSet(dbQueue) : TaskOK(task) /\ task \in Tasks
  BY SeqElements DEF IInv, QueuesOK
<1>2. dbQueue' = dbQueue
  BY <1>1
<1>3. Tasks \subseteq Tasks'
  BY DEF Tasks
<1>4. dbQueue' \in Seq(Tasks')
  BY <1>1, <1>2, <1>3, LongerSeq
<1>5. \A task \in ToSet(dbQueue') : TaskOK(task)'
  BY <1>1, <1>2 DEF TaskOK, Tasks
<1> QED BY <1>1, <1>2, <1>4, <1>5 DEF InDb

\* performNextStep has returned; a transaction that has ended makes room for
\* the next of its handle.
LEMMA ReturnFromStepOK ==
  ASSUME IInv, ReturnFromStep
  PROVE  IInv'
<1>1. PICK t : t = dbThread.transaction
  OBVIOUS
<1>2. PICK h : h = HandleOf(t)
  OBVIOUS
<1>3. dbThread.at = "return" /\ dbThread' = Loop
  BY DEF ReturnFromStep
<1>4. t \in Created
  BY <1>1, <1>3 DEF IInv, ThreadsOK
<1>5. h \in DOMAIN handle /\ handle[h] \in Databases /\ HandleOK(h)
  BY <1>2, <1>4 DEF IInv, TransactionsOK, HandlesOK
<1>6. /\ txn' = txn /\ killed' = killed /\ UNCHANGED <<openDatabaseSet, openSetCopy>>
      /\ coordinationInfoMap' = coordinationInfoMap /\ ctxQueue' = ctxQueue /\ ctxThread' = ctxThread
      /\ sync' = sync /\ deletion' = deletion
  BY DEF ReturnFromStep
<1>7. /\ Created' = Created /\ txn' \in [Created' -> SQLTransactions] /\ \A u \in Created : txn'[u] = txn[u]
      /\ {} \subseteq Transactions /\ Created' = Created \cup {} /\ {} \cap Created = {}
  BY <1>6 DEF Created, IInv, TransactionsOK
<1>8. PICK none : none = {}
  OBVIOUS
<1>9. \A u \in Created : LifeOf(u)
  BY DEF IInv, Lives
<1>10. ASSUME NEW u \in Created, HandleOf(u) = h, ~InHandle(u), txn[u].nextStep # "none", ~Stopped(h),
              txn[t].nextStep = "none"
       PROVE  FALSE
  <2>1. ~InHandle(t)
    BY <1>4, <1>9, <1>10, OnlyPlace
  <2>2. Started(t) /\ Started(u)
    BY <1>1, <1>3, <1>10, <2>1 DEF Started
  <2>3. u = t
    BY <1>2, <1>4, <1>10, <2>2 DEF IInv, OneAtATime, OneStarted
  <2> QED BY <1>10, <2>3
<1>11. \A u : Started(u)' => ~InHandle(u)' /\ txn'[u].nextStep # "none"
  BY <1>3 DEF Started, Loop
<1>12. PICK q : q = handle[h].transactionQueue
  OBVIOUS
<1>13. q \in Seq(Transactions) /\ Distinct(q) /\ \A u \in ToSet(q) : u \in Created /\ HandleOf(u) = h
  BY <1>5, <1>12 DEF Databases, HandleOK
<1>14. \A u : HandleOf(u) = h => (InHandle(u) <=> u \in ToSet(q))
  BY <1>12 DEF InHandle
<1>15. CASE txn[t].nextStep # "none"
  <2>1. handle' = handle /\ dbQueue' = dbQueue
    BY <1>1, <1>15 DEF ReturnFromStep
  <2>2. PICK d : d = handle[h]
    OBVIOUS
  <2>3. handle' = [handle EXCEPT ![h] = d]
    BY <1>5, <2>1, <2>2, Types
  <2>4. /\ dbQueue' \in Seq(Tasks') /\ NoTwins(dbQueue') /\ \A task \in ToSet(dbQueue') : TaskOK(task)'
        /\ \A u : InDb(u)' <=> InDb(u)
    BY <1>7, <2>1, NoTaskScheduled
  <2>5. \A u : InHandle(u)' <=> InHandle(u)
    BY <2>1 DEF InHandle
  <2>6. \A u : Started(u)' => Started(u)
    BY <1>6, <1>11, <2>5 DEF Started
  <2>7. ~Stopped(h) => \A u, v \in Created' :
           HandleOf(u) = h /\ Started(u)' =>
             /\ d.transactionInProgress
             /\ HandleOf(v) = h /\ Started(v)' => u = v
    BY <1>7, <2>2, <2>6 DEF IInv, OneAtATime, OneStarted, StartedInProgress
  <2>10. PICK moved : moved = {}
    OBVIOUS
  <2>8. /\ none \in SUBSET Transactions /\ moved \in SUBSET Created' /\ Created' = Created \cup none
        /\ none \cap Created = {} /\ (\A u : u \notin none)
        /\ \A u \in moved : HandleOf(u) = h /\ (u \in none \/ InHandle(u))
        /\ \A u \in Created : InDb(u)' <=> InDb(u) \/ u \in moved
    BY <1>7, <1>8, <2>4, <2>5, <2>10
  <2>9. /\ \A u \in Created' : HandleOf(u) = h =>
              (u \in ToSet(d.transactionQueue) <=> (u \in none \/ InHandle(u)) /\ u \notin moved)
        /\ \A u \in ToSet(d.transactionQueue) : u \in Created' /\ HandleOf(u) = h
        /\ Distinct(d.transactionQueue)
    BY <1>7, <1>12, <1>13, <1>14, <2>2, <2>8, <2>10
  <2>11. /\ d \in Databases /\ d.opening = handle[h].opening /\ d.opened = handle[h].opened
         /\ d.returned = handle[h].returned /\ d.interrupted = handle[h].interrupted
    BY <1>5, <2>2
  <2>20. Moves(h, d, none, moved)
    BY <1>3, <1>5, <1>6, <1>7, <2>3, <2>4, <2>7, <2>8, <2>9, <2>11 DEF Moves
  <2> QED BY <2>20, HandleMove
<1>16. CASE txn[t].nextStep = "none" /\ ~(handle[h].transactionQueueEnabled /\ q # << >>)
  <2>1. PICK d : d = [handle[h] EXCEPT !.transactionInProgress = FALSE]
    OBVIOUS
  <2>2. handle' = [handle EXCEPT ![h] = d] /\ dbQueue' = dbQueue \o << >>
    BY <1>1, <1>2, <1>12, <1>16, <2>1 DEF ReturnFromStep, ScheduleTransaction
  <2>3. /\ d \in Databases /\ d.opening = handle[h].opening /\ d.opened = handle[h].opened
        /\ d.returned = handle[h].returned /\ d.interrupted = handle[h].interrupted /\ d.transactionQueue = q
    BY <1>5, <1>12, <2>1 DEF Databases
  <2>4. /\ DOMAIN handle' = DOMAIN handle /\ handle'[h] = d
        /\ \A g \in DOMAIN handle : handle'[g].returned = handle[g].returned /\ handle'[g].opening = handle[g].opening
    BY <1>5, <2>2, <2>3, Types
  <2>5. /\ dbQueue' \in Seq(Tasks') /\ NoTwins(dbQueue') /\ \A task \in ToSet(dbQueue') : TaskOK(task)'
        /\ \A u : InDb(u)' <=> InDb(u)
    BY <1>7, <2>2, <2>4, NoTaskScheduled
  <2>6. \A u : HandleOf(u) = h => (InHandle(u)' <=> InHandle(u))
    BY <1>12, <2>3, <2>4 DEF InHandle
  <2>7. ~Stopped(h) => \A u, v \in Created' :
           HandleOf(u) = h /\ Started(u)' =>
             /\ d.transactionInProgress
             /\ HandleOf(v) = h /\ Started(v)' => u = v
    BY <1>6, <1>7, <1>10, <1>11, <1>16, <2>6
  <2>10. PICK moved : moved = {}
    OBVIOUS
  <2>8. /\ none \in SUBSET Transactions /\ moved \in SUBSET Created' /\ Created' = Created \cup none
        /\ none \cap Created = {} /\ (\A u : u \notin none)
        /\ \A u \in moved : HandleOf(u) = h /\ (u \in none \/ InHandle(u))
        /\ \A u \in Created : InDb(u)' <=> InDb(u) \/ u \in moved
    BY <1>7, <1>8, <2>4, <2>5, <2>10
  <2>9. /\ \A u \in Created' : HandleOf(u) = h =>
              (u \in ToSet(d.transactionQueue) <=> (u \in none \/ InHandle(u)) /\ u \notin moved)
        /\ \A u \in ToSet(d.transactionQueue) : u \in Created' /\ HandleOf(u) = h
        /\ Distinct(d.transactionQueue)
    BY <1>7, <1>13, <1>14, <2>3, <2>8, <2>10
  <2>20. Moves(h, d, none, moved)
    BY <1>3, <1>5, <1>6, <1>7, <2>2, <2>3, <2>5, <2>7, <2>8, <2>9 DEF Moves
  <2> QED BY <2>20, HandleMove
<1>17. CASE txn[t].nextStep = "none" /\ handle[h].transactionQueueEnabled /\ q # << >>
  <2>1. PICK d : d = [handle[h] EXCEPT !.transactionQueue = Tail(q), !.transactionInProgress = TRUE]
    OBVIOUS
  <2>2. PICK v : v = Head(q)
    OBVIOUS
  <2>3. handle' = [handle EXCEPT ![h] = d] /\ dbQueue' = dbQueue \o <<TransactionTask(v)>>
    BY <1>1, <1>2, <1>12, <1>17, <2>1, <2>2 DEF ReturnFromStep, ScheduleTransaction
  <2>4. /\ v \in ToSet(q) /\ Tail(q) \in Seq(Transactions) /\ ToSet(q) = ToSet(Tail(q)) \cup {v}
        /\ Distinct(Tail(q)) /\ v \notin ToSet(Tail(q))
    BY <1>13, <1>17, <2>2, TailOfQueue
  <2>5. /\ d \in Databases /\ d.opening = handle[h].opening /\ d.opened = handle[h].opened
        /\ d.returned = handle[h].returned /\ d.interrupted = handle[h].interrupted /\ d.transactionQueue = Tail(q) /\ d.transactionInProgress
    BY <1>5, <1>12, <2>1, <2>4 DEF Databases
  <2>6. /\ DOMAIN handle' = DOMAIN handle /\ handle'[h] = d
        /\ \A g \in DOMAIN handle : handle'[g].returned = handle[g].returned /\ handle'[g].opening = handle[g].opening
    BY <1>5, <2>3, <2>5, Types
  <2>7. v \in Created /\ HandleOf(v) = h /\ InHandle(v)
    BY <1>13, <1>14, <2>4
  <2>8. ~InDb(v)
    BY <1>9, <2>7, OnlyPlace
  <2>9. /\ dbQueue' \in Seq(Tasks') /\ NoTwins(dbQueue') /\ \A task \in ToSet(dbQueue') : TaskOK(task)'
        /\ \A u : InDb(u)' <=> InDb(u) \/ u = v
    BY <1>5, <1>7, <2>3, <2>6, <2>7, <2>8, TaskScheduled
  <2>10. \A u : HandleOf(u) = h => (InHandle(u)' <=> InHandle(u) /\ u # v)
    BY <1>14, <2>4, <2>5, <2>6 DEF InHandle
  <2>11. ASSUME ~Stopped(h), NEW u \in Created, HandleOf(u) = h, Started(u)'  PROVE u = v
    BY <1>6, <1>10, <1>11, <1>17, <2>10, <2>11
  <2>12. ~Stopped(h) => \A u, w \in Created' :
           HandleOf(u) = h /\ Started(u)' =>
             /\ d.transactionInProgress
             /\ HandleOf(w) = h /\ Started(w)' => u = w
    BY <1>7, <2>5, <2>11
  <2>13. PICK moved : moved = {v}
    OBVIOUS
  <2>14. /\ none \in SUBSET Transactions /\ moved \in SUBSET Created' /\ Created' = Created \cup none
         /\ none \cap Created = {} /\ (\A u : u \notin none)
         /\ \A u \in moved : HandleOf(u) = h /\ (u \in none \/ InHandle(u))
         /\ \A u \in Created : InDb(u)' <=> InDb(u) \/ u \in moved
    BY <1>7, <1>8, <2>7, <2>9, <2>13
  <2>15. /\ \A u \in Created' : HandleOf(u) = h =>
              (u \in ToSet(d.transactionQueue) <=> (u \in none \/ InHandle(u)) /\ u \notin moved)
         /\ \A u \in ToSet(d.transactionQueue) : u \in Created' /\ HandleOf(u) = h
         /\ Distinct(d.transactionQueue)
    BY <1>7, <1>13, <1>14, <2>4, <2>5, <2>13, <2>14
  <2>20. Moves(h, d, none, moved)
    BY <1>3, <1>5, <1>6, <1>7, <2>3, <2>5, <2>9, <2>12, <2>14, <2>15 DEF Moves
  <2> QED BY <2>20, HandleMove
<1> QED BY <1>15, <1>16, <1>17

\* A transaction is put behind the others of its handle.
LEMMA AppendedQueue ==
  ASSUME NEW T, NEW q \in Seq(T), NEW t \in T, t \notin ToSet(q), Distinct(q)
  PROVE  /\ Append(q, t) \in Seq(T) /\ Append(q, t) # << >>
         /\ ToSet(Append(q, t)) = ToSet(q) \cup {t} /\ Distinct(Append(q, t))
<1>1. PICK last : last = <<t>>
  OBVIOUS
<1>2. last \in Seq(T) /\ ToSet(last) = {t} /\ Distinct(last)
  BY <1>1, SingleQueue
<1>3. q \o last \in Seq(T) /\ ToSet(q \o last) = ToSet(q) \cup {t} /\ Distinct(q \o last)
  BY <1>2, JoinedQueues
<1>4. Append(q, t) = q \o last /\ Append(q, t) # << >>
  BY <1>1
<1> QED BY <1>3, <1>4

\* What a new transaction needs, wherever it is put.
LEMMA NewTransactionLife ==
  ASSUME NEW t, NEW callbacks, txn'[t] = NewSQLTransaction(callbacks),
         ~InPending(t)', ~InLoop(t)', ~InCtx(t)', ~InScript(t)', ~IsActive(t)',
         InHandle(t)' <=> ~InDb(t)'
  PROVE  /\ LifeOf(t)' /\ txn'[t] \in SQLTransactions /\ txn'[t].nextStep = "acquireLock" /\ txn'[t].sqlite = "none"
<1>1. PICK x : x = NewSQLTransaction(callbacks)
  OBVIOUS
<1>2. PICK p \in {"handle", "db"} : PlacesOf(t)' = {p}
  BY PlacesThen
<1>3. PICK stopped \in BOOLEAN : stopped <=> Stopped(HandleOf(t))'
  OBVIOUS
<1>4. PICK down \in BOOLEAN : down <=> Down'
  OBVIOUS
<1>5. x \in SQLTransactions /\ x.nextStep = "acquireLock" /\ x.sqlite = "none" /\ Life(x, {p}, FALSE, stopped, down)
  BY <1>1, NewLife
<1>6. txn'[t] = x
  BY <1>1
<1> QED BY <1>2, <1>3, <1>4, <1>5, <1>6 DEF LifeOf, Life

\* The facts about RunTransaction that do not depend on what is scheduled.
Made(t, h, new) ==
  /\ h = HandleOf(t) /\ new = {t} /\ t \in Transactions /\ t \notin Created /\ h \in DOMAIN handle
  /\ handle[h].returned /\ handle[h] \in Databases /\ new \in SUBSET Transactions /\ new \cap Created = {}
  /\ Created' = Created \cup new /\ t \in Created' /\ new \subseteq Created'
  /\ \A u \in Created : txn'[u] = txn[u]
  /\ dbThread' = dbThread /\ killed' = killed /\ UNCHANGED <<openDatabaseSet, openSetCopy>>
  /\ coordinationInfoMap' = coordinationInfoMap /\ ctxQueue' = ctxQueue /\ ctxThread' = ctxThread
  /\ sync' = sync /\ deletion' = deletion
  /\ ~InPending(t)' /\ ~InLoop(t)' /\ ~InCtx(t)' /\ ~InScript(t)' /\ ~IsActive(t)'
  /\ ~InHandle(t) /\ ~InDb(t)

\* RunTransaction makes one transaction, which nobody knows yet.
LEMMA TransactionMade ==
  ASSUME IInv, NEW t \in Transactions, RunTransaction(t)
  PROVE  /\ Made(t, HandleOf(t), {t})
         /\ \E callbacks : txn'[t] = NewSQLTransaction(callbacks)
         /\ txn' = [u \in Created' |-> txn'[u]]
<1>1. PICK callbacks \in CallbackSets(t) :
        txn' = [u \in DOMAIN txn \cup {t} |-> IF u = t THEN NewSQLTransaction(callbacks) ELSE txn[u]]
  BY DEF RunTransaction
<1>2. t \notin Created /\ HandleOf(t) \in DOMAIN handle /\ handle[HandleOf(t)].returned
  BY DEF RunTransaction, Visible, Created
<1>3. /\ Created' = Created \cup {t} /\ txn'[t] = NewSQLTransaction(callbacks)
      /\ \A u \in Created : txn'[u] = txn[u]
      /\ txn' = [u \in Created' |-> txn'[u]]
  BY <1>1, <1>2 DEF Created
<1>4. /\ dbThread' = dbThread /\ killed' = killed /\ UNCHANGED <<openDatabaseSet, openSetCopy>>
      /\ coordinationInfoMap' = coordinationInfoMap /\ ctxQueue' = ctxQueue /\ ctxThread' = ctxThread
      /\ sync' = sync /\ deletion' = deletion
  BY DEF RunTransaction
<1>5. ~InHandle(t) /\ ~InPending(t) /\ ~InDb(t) /\ ~InLoop(t) /\ ~InCtx(t) /\ ~InScript(t) /\ ~IsActive(t)
  BY <1>2, Unknown
<1>6. ~InPending(t)' /\ ~InLoop(t)' /\ ~InCtx(t)' /\ ~InScript(t)' /\ ~IsActive(t)'
  BY <1>4, <1>5 DEF InPending, InLoop, InCtx, InScript, IsActive, InfoFor
<1>7. handle[HandleOf(t)] \in Databases
  BY <1>2 DEF IInv, HandlesOK
<1>8. {t} \in SUBSET Transactions /\ {t} \cap Created = {} /\ t \in Created' /\ {t} \subseteq Created'
  BY <1>2, <1>3
<1>9. Made(t, HandleOf(t), {t})
  BY <1>2, <1>3, <1>4, <1>5, <1>6, <1>7, <1>8 DEF Made
<1> QED BY <1>3, <1>9

\* Handle h becomes d, and moved is scheduled.
Puts(t, h, new, d, moved) ==
  /\ Made(t, h, new) /\ (\E callbacks : txn'[t] = NewSQLTransaction(callbacks))
  /\ txn' = [u \in Created' |-> txn'[u]]
  /\ d \in Databases /\ handle' = [handle EXCEPT ![h] = d]
  /\ d.opening = handle[h].opening /\ d.opened = handle[h].opened
  /\ d.returned = handle[h].returned /\ d.interrupted = handle[h].interrupted
  /\ moved \in SUBSET Created' /\ Distinct(d.transactionQueue)
  /\ \A u \in ToSet(d.transactionQueue) : u \in Created' /\ HandleOf(u) = h
  /\ \A u \in Created' : HandleOf(u) = h =>
       (u \in ToSet(d.transactionQueue) <=> (u \in new \/ InHandle(u)) /\ u \notin moved)
  /\ \A u \in moved : HandleOf(u) = h /\ (u \in new \/ InHandle(u))
  /\ dbQueue' \in Seq(Tasks') /\ NoTwins(dbQueue') /\ \A task \in ToSet(dbQueue') : TaskOK(task)'
  /\ \A u : InDb(u)' <=> InDb(u) \/ u \in moved
  /\ moved # {} => ~handle[h].transactionInProgress /\ d.transactionInProgress
  /\ \A u, v \in moved : u = v
  /\ moved = {} => d.transactionInProgress = handle[h].transactionInProgress

\* transaction, readTransaction and changeVersion, whatever is scheduled.
LEMMA TransactionMadeOK ==
  ASSUME IInv, NEW t, NEW h, NEW new, NEW d, NEW moved, Puts(t, h, new, d, moved)
  PROVE  IInv'
<1> USE DEF Puts
<1>0. PICK callbacks : txn'[t] = NewSQLTransaction(callbacks)
  OBVIOUS
<1> USE DEF Made
<1>1. handle'[h] = d
  BY Types
<1>2. InHandle(t)' <=> t \notin moved
  BY <1>1 DEF InHandle
<1>3. InDb(t)' <=> t \in moved
  OBVIOUS
<1>4. LifeOf(t)' /\ txn'[t] \in SQLTransactions /\ txn'[t].nextStep = "acquireLock" /\ txn'[t].sqlite = "none"
  BY <1>0, <1>2, <1>3, NewTransactionLife
<1>5. txn' \in [Created' -> SQLTransactions]
  <2>1. \A u \in Created' : txn'[u] \in SQLTransactions
    BY <1>4 DEF IInv, TransactionsOK
  <2> QED BY <2>1
<1>6. \A u \in new : /\ HandleOf(u) = h /\ handle[h].returned
                     /\ txn'[u].nextStep = "acquireLock" /\ txn'[u].sqlite = "none" /\ LifeOf(u)'
  BY <1>4
<1>7. ASSUME NEW u \in Created', HandleOf(u) = h, Started(u)', u \notin moved  PROVE u \in Created /\ Started(u)
  <2>1. ~InHandle(u)'
    BY <1>7 DEF Started
  <2>2. u \notin ToSet(d.transactionQueue)
    BY <1>1, <1>7, <2>1 DEF InHandle
  <2>3. u \notin new /\ ~InHandle(u)
    BY <1>7, <2>2
  <2>4. u \in Created /\ txn'[u] = txn[u]
    BY <1>7, <2>3
  <2> QED BY <1>7, <2>3, <2>4 DEF Started
<1>8. ~Stopped(h) => \A u, v \in Created' :
        HandleOf(u) = h /\ Started(u)' =>
          /\ d.transactionInProgress
          /\ HandleOf(v) = h /\ Started(v)' => u = v
  <2>1. OneStarted /\ StartedInProgress
    BY DEF IInv, OneAtATime
  <2>2. CASE moved = {}
    BY <1>7, <2>1, <2>2 DEF OneStarted, StartedInProgress
  <2>3. CASE moved # {}
    <3>1. ASSUME ~Stopped(h), NEW u \in Created', HandleOf(u) = h, Started(u)'  PROVE u \in moved
      BY <1>7, <2>1, <2>3, <3>1 DEF StartedInProgress
    <3> QED BY <2>3, <3>1
  <2> QED BY <2>2, <2>3
<1>9. /\ h \in DOMAIN handle /\ new \in SUBSET Transactions /\ Created' = Created \cup new /\ new \cap Created = {}
      /\ \A u \in Created : txn'[u] = txn[u]
      /\ dbThread' = dbThread /\ killed' = killed /\ UNCHANGED <<openDatabaseSet, openSetCopy>>
      /\ coordinationInfoMap' = coordinationInfoMap /\ ctxQueue' = ctxQueue /\ ctxThread' = ctxThread
      /\ sync' = sync /\ deletion' = deletion
      /\ \A u \in Created : InDb(u)' <=> InDb(u) \/ u \in moved
  OBVIOUS
<1> HIDE DEF Made
<1>10. Moves(h, d, new, moved)
  BY <1>5, <1>6, <1>8, <1>9 DEF Moves
<1> QED BY <1>10, HandleMove

\* transaction, readTransaction and changeVersion.
LEMMA RunTransactionOK ==
  ASSUME IInv, NEW t \in Transactions, RunTransaction(t)
  PROVE  IInv'
<1>1. PICK h, new : h = HandleOf(t) /\ new = {t}
  OBVIOUS
<1>2. Made(t, h, new)
  BY <1>1, TransactionMade
<1>3. PICK callbacks : txn'[t] = NewSQLTransaction(callbacks)
  BY TransactionMade
<1>4. txn' = [u \in Created' |-> txn'[u]]
  BY TransactionMade
<1>5. /\ h \in DOMAIN handle /\ handle[h] \in Databases /\ t \in Created' /\ t \notin Created /\ Created' = Created \cup new
      /\ ~InHandle(t) /\ ~InDb(t)
  BY <1>2 DEF Made
<1>6. PICK q : q = handle[h].transactionQueue
  OBVIOUS
<1>7. q \in Seq(Transactions) /\ Distinct(q) /\ \A u \in ToSet(q) : u \in Created /\ HandleOf(u) = h
  BY <1>5, <1>6 DEF Databases, IInv, HandlesOK, HandleOK
<1>8. \A u : HandleOf(u) = h => (InHandle(u) <=> u \in ToSet(q))
  BY <1>6 DEF InHandle
<1>9. t \notin ToSet(q)
  BY <1>5, <1>7
<1>10. PICK r : r = Append(q, t)
  OBVIOUS
<1>11. r \in Seq(Transactions) /\ r # << >> /\ ToSet(r) = ToSet(q) \cup {t} /\ Distinct(r)
  BY <1>7, <1>9, <1>10, AppendedQueue
<1>12. PICK queued : queued = [handle[h] EXCEPT !.transactionQueue = r]
  OBVIOUS
<1>13. /\ queued \in Databases /\ queued.opening = handle[h].opening /\ queued.opened = handle[h].opened
       /\ queued.returned = handle[h].returned /\ queued.interrupted = handle[h].interrupted /\ queued.transactionQueue = r
       /\ queued.transactionInProgress = handle[h].transactionInProgress
       /\ queued.transactionQueueEnabled = handle[h].transactionQueueEnabled
  BY <1>5, <1>11, <1>12 DEF Databases
<1>14. PICK scheduled : scheduled = IF queued.transactionInProgress THEN <<queued, << >> >> ELSE ScheduleTransaction(queued)
  OBVIOUS
<1>15. handle' = [handle EXCEPT ![h] = scheduled[1]] /\ dbQueue' = dbQueue \o scheduled[2]
  BY <1>1, <1>6, <1>10, <1>12, <1>14 DEF RunTransaction
<1>16. CASE queued.transactionInProgress \/ ~queued.transactionQueueEnabled
  <2>1. PICK d : d = scheduled[1]
    OBVIOUS
  <2>2. /\ d \in Databases /\ d.opening = handle[h].opening /\ d.opened = handle[h].opened
        /\ d.returned = handle[h].returned /\ d.interrupted = handle[h].interrupted /\ d.transactionQueue = r
        /\ d.transactionInProgress = handle[h].transactionInProgress
    <3>1. CASE queued.transactionInProgress
      BY <1>13, <1>14, <2>1, <3>1
    <3>2. CASE ~queued.transactionInProgress
      <4>1. d = [queued EXCEPT !.transactionInProgress = FALSE]
        BY <1>14, <1>16, <2>1, <3>2 DEF ScheduleTransaction
      <4> QED BY <1>13, <3>2, <4>1 DEF Databases
    <3> QED BY <3>1, <3>2
  <2>3. scheduled[2] = << >>
    BY <1>14, <1>16 DEF ScheduleTransaction
  <2>4. handle' = [handle EXCEPT ![h] = d] /\ dbQueue' = dbQueue \o << >>
    BY <1>15, <2>1, <2>3
  <2>5. /\ DOMAIN handle' = DOMAIN handle
        /\ \A g \in DOMAIN handle : handle'[g].returned = handle[g].returned /\ handle'[g].opening = handle[g].opening
    BY <1>5, <2>2, <2>4, Types
  <2>6. PICK moved : moved = {}
    OBVIOUS
  <2>7. /\ dbQueue' \in Seq(Tasks') /\ NoTwins(dbQueue') /\ \A task \in ToSet(dbQueue') : TaskOK(task)'
        /\ \A u : InDb(u)' <=> InDb(u) \/ u \in moved
    <3>1. Created \subseteq Created'
      BY <1>5
    <3>2. /\ dbQueue' \in Seq(Tasks') /\ NoTwins(dbQueue') /\ \A task \in ToSet(dbQueue') : TaskOK(task)'
          /\ \A u : InDb(u)' <=> InDb(u)
      BY <2>4, <2>5, <3>1, NoTaskScheduled
    <3> QED BY <2>6, <3>2
  <2>8. /\ \A u \in ToSet(d.transactionQueue) : u \in Created' /\ HandleOf(u) = h
        /\ \A u \in Created' : HandleOf(u) = h =>
             (u \in ToSet(d.transactionQueue) <=> (u \in new \/ InHandle(u)) /\ u \notin moved)
        /\ Distinct(d.transactionQueue)
    BY <1>1, <1>5, <1>7, <1>8, <1>11, <2>2, <2>6
  <2>9. /\ \A u \in moved : HandleOf(u) = h /\ (u \in new \/ InHandle(u))
        /\ moved \in SUBSET Created' /\ (\A u, v \in moved : u = v)
        /\ moved # {} => ~handle[h].transactionInProgress /\ d.transactionInProgress
        /\ moved = {} => d.transactionInProgress = handle[h].transactionInProgress
    BY <2>2, <2>6
  <2>10. Puts(t, h, new, d, moved)
    BY <1>2, <1>3, <1>4, <2>2, <2>4, <2>7, <2>8, <2>9 DEF Puts
  <2> QED BY <2>10, TransactionMadeOK
<1>17. CASE ~queued.transactionInProgress /\ queued.transactionQueueEnabled
  <2>1. PICK d : d = scheduled[1]
    OBVIOUS
  <2>2. PICK v, rest : v = Head(r) /\ rest = Tail(r)
    OBVIOUS
  <2>3. /\ v \in ToSet(r) /\ rest \in Seq(Transactions) /\ ToSet(r) = ToSet(rest) \cup {v}
        /\ Distinct(rest) /\ v \notin ToSet(rest)
    BY <1>11, <2>2, TailOfQueue
  <2>4. /\ d = [queued EXCEPT !.transactionQueue = rest, !.transactionInProgress = TRUE]
        /\ scheduled[2] = <<TransactionTask(v)>>
    BY <1>11, <1>13, <1>14, <1>17, <2>1, <2>2 DEF ScheduleTransaction
  <2>5. /\ d \in Databases /\ d.opening = handle[h].opening /\ d.opened = handle[h].opened
        /\ d.returned = handle[h].returned /\ d.interrupted = handle[h].interrupted /\ d.transactionQueue = rest /\ d.transactionInProgress
        /\ ~handle[h].transactionInProgress
    BY <1>13, <1>17, <2>3, <2>4 DEF Databases
  <2>6. handle' = [handle EXCEPT ![h] = d] /\ dbQueue' = dbQueue \o <<TransactionTask(v)>>
    BY <1>15, <2>1, <2>4
  <2>7. /\ DOMAIN handle' = DOMAIN handle
        /\ \A g \in DOMAIN handle : handle'[g].returned = handle[g].returned /\ handle'[g].opening = handle[g].opening
    BY <1>5, <2>5, <2>6, Types
  <2>8. v \in Created' /\ HandleOf(v) = h /\ ~InDb(v) /\ (v \in new \/ InHandle(v))
    <3>1. CASE v = t
      BY <1>1, <1>5, <3>1
    <3>2. CASE v # t
      <4>1. v \in Created /\ HandleOf(v) = h /\ InHandle(v)
        BY <1>7, <1>8, <1>11, <2>3, <3>2
      <4>2. LifeOf(v)
        BY <4>1 DEF IInv, Lives
      <4> QED BY <1>5, <4>1, <4>2, OnlyPlace
    <3> QED BY <3>1, <3>2
  <2>9. PICK moved : moved = {v}
    OBVIOUS
  <2>10. /\ dbQueue' \in Seq(Tasks') /\ NoTwins(dbQueue') /\ \A task \in ToSet(dbQueue') : TaskOK(task)'
         /\ \A u : InDb(u)' <=> InDb(u) \/ u \in moved
    <3>1. Created \subseteq Created' /\ HandleOf(v) \in DOMAIN handle
      BY <1>5, <2>8
    <3>2. /\ dbQueue' \in Seq(Tasks') /\ NoTwins(dbQueue') /\ \A task \in ToSet(dbQueue') : TaskOK(task)'
          /\ \A u : InDb(u)' <=> InDb(u) \/ u = v
      BY <2>6, <2>7, <2>8, <3>1, TaskScheduled
    <3> QED BY <2>9, <3>2
  <2>11. /\ \A u \in ToSet(d.transactionQueue) : u \in Created' /\ HandleOf(u) = h
         /\ \A u \in Created' : HandleOf(u) = h =>
              (u \in ToSet(d.transactionQueue) <=> (u \in new \/ InHandle(u)) /\ u \notin moved)
         /\ Distinct(d.transactionQueue)
    BY <1>1, <1>5, <1>7, <1>8, <1>11, <2>3, <2>5, <2>9
  <2>12. /\ \A u \in moved : HandleOf(u) = h /\ (u \in new \/ InHandle(u))
         /\ moved \in SUBSET Created' /\ (\A u, w \in moved : u = w)
         /\ moved # {} => ~handle[h].transactionInProgress /\ d.transactionInProgress
         /\ moved = {} => d.transactionInProgress = handle[h].transactionInProgress
    BY <2>5, <2>8, <2>9
  <2>13. Puts(t, h, new, d, moved)
    BY <1>2, <1>3, <1>4, <2>5, <2>6, <2>10, <2>11, <2>12 DEF Puts
  <2> QED BY <2>13, TransactionMadeOK
<1> QED BY <1>13, <1>16, <1>17

\* A transaction the coordinator has forgotten: the SQLite transaction of one
\* that had the lock is gone, and one that waited for it is nowhere.
Forgotten(x, active) == IF active THEN [x EXCEPT !.sqlite = "none"] ELSE x

\* It goes on without the lock only where it had a place.
LEMMA ForgottenLife ==
  ASSUME NEW x, NEW P, NEW active \in BOOLEAN, NEW stopped \in BOOLEAN, Life(x, P, active, stopped, FALSE)
  PROVE  /\ Life(Forgotten(x, active), P \ {"pending"}, FALSE, stopped, TRUE)
         /\ Forgotten(x, active).sqlite = "none" /\ Forgotten(x, active).nextStep = x.nextStep
<1>0. PICK y, Q : y = Forgotten(x, active) /\ Q = P \ {"pending"}
  OBVIOUS
<1>1. x \in SQLTransactions
  BY DEF Life, RecordOK
<1>2. y.sqlite = "none"
  BY <1>0, <1>1 DEF Life, SQLTransactions, Forgotten
<1>3. /\ y \in SQLTransactions /\ y.nextStep = x.nextStep /\ y.happened = x.happened /\ y.error = x.error
      /\ y.statements = x.statements /\ y.current = x.current /\ y.retry = x.retry /\ y.lockAcquired = x.lockAcquired
  BY <1>0, <1>1 DEF SQLTransactions, Forgotten
<1>4. RecordOK(y)
  BY <1>2, <1>3 DEF Life, RecordOK
<1>5. "pending" \in P => x.nextStep = "acquireLock"
  BY DEF Life, Fits
<1>6. x.nextStep # "acquireLock" => Q = P
  BY <1>0, <1>5
<1>7. Life(y, Q, FALSE, stopped, TRUE)
  BY <1>0, <1>2, <1>3, <1>4, <1>6 DEF Life
<1> QED BY <1>0, <1>2, <1>3, <1>7

\* The coordinator is shut down.
LEMMA ShutdownCoordinatorOK ==
  ASSUME IInv, ShutdownCoordinator
  PROVE  IInv'
<1>0. /\ handle' = handle /\ dbQueue' = dbQueue /\ killed' = killed
      /\ openDatabaseSet' = {} /\ openSetCopy' = openDatabaseSet
      /\ ctxQueue' = ctxQueue /\ ctxThread' = ctxThread /\ sync' = sync /\ deletion' = deletion
  BY DEF ShutdownCoordinator, SwapOpenDatabaseSet
<1>1. /\ Created' = Created /\ DOMAIN coordinationInfoMap' = {}
      /\ txn' = [u \in Created |-> txn'[u]]
      /\ \A u \in Created : txn'[u] = IF u \in ActiveTransactions THEN [txn[u] EXCEPT !.sqlite = "none"] ELSE txn[u]
  BY DEF Created, ShutdownCoordinator
<1>2. \A u : InfoFor(NameOf(HandleOf(u)))' = NewCoordinationInfo
  BY <1>1 DEF InfoFor
<1>3. Pending(NewCoordinationInfo) = {} /\ Active(NewCoordinationInfo) = {}
  BY NewInfoProperties
<1>4. \A u : ~InPending(u)' /\ ~IsActive(u)'
  BY <1>2, <1>3 DEF InPending, IsActive
<1>5. \A u \in Created : u \in ActiveTransactions <=> IsActive(u)
  <2>1. ASSUME NEW u \in Created, u \in ActiveTransactions  PROVE IsActive(u)
    <3>1. PICK n \in DOMAIN coordinationInfoMap : u \in Active(coordinationInfoMap[n])
      BY <2>1 DEF ActiveTransactions
    <3>2. NameOf(HandleOf(u)) = n
      BY <3>1 DEF IInv, CoordinatorOK, InfoOK
    <3> QED BY <3>1, <3>2 DEF IsActive, InfoFor
  <2>2. ASSUME NEW u \in Created, IsActive(u)  PROVE u \in ActiveTransactions
    <3>1. NameOf(HandleOf(u)) \in DOMAIN coordinationInfoMap
      BY <1>3, <2>2 DEF IsActive, InfoFor
    <3> QED BY <2>2, <3>1 DEF IsActive, InfoFor, ActiveTransactions
  <2> QED BY <2>1, <2>2
<1>6. dbThread' = [at |-> "exit"] /\ dbThread = Loop /\ killed /\ killed' = killed
  BY DEF ShutdownCoordinator
<1>7. ~Down /\ Down' /\ ~Closing' /\ ~Closing
  BY <1>6 DEF Down, Closing, Loop
<1>8. ASSUME NEW u \in Created  PROVE LifeOf(u)' /\ txn'[u].sqlite = "none" /\ txn'[u].nextStep = txn[u].nextStep /\ txn'[u] \in SQLTransactions
  <2>1. PICK x, y : x = txn[u] /\ y = txn'[u]
    OBVIOUS
  <2>2. PICK P, Q : P = PlacesOf(u) /\ Q = PlacesOf(u)'
    OBVIOUS
  <2>3. PICK active \in BOOLEAN : active <=> IsActive(u)
    OBVIOUS
  <2>4. PICK stopped \in BOOLEAN : stopped <=> Stopped(HandleOf(u))
    OBVIOUS
  <2>5. Life(x, P, active, stopped, FALSE)
    BY <1>7, <2>1, <2>2, <2>3, <2>4 DEF IInv, Lives, LifeOf, Life
  <2>6. Q = P \ {"pending"}
    <3>1. (InDb(u)' <=> InDb(u)) /\ (InCtx(u)' <=> InCtx(u)) /\ (InScript(u)' <=> InScript(u)) /\ (InHandle(u)' <=> InHandle(u))
      BY <1>0 DEF InDb, InCtx, InScript, InHandle
    <3>2. ~InLoop(u)' /\ ~InLoop(u)
      BY <1>6 DEF InLoop, Loop
    <3> QED BY <1>4, <2>2, <3>1, <3>2 DEF PlacesOf
  <2>7. y = Forgotten(x, active)
    BY <1>1, <1>5, <2>1, <2>3 DEF Forgotten
  <2>8. Life(y, Q, FALSE, stopped, TRUE) /\ y.sqlite = "none" /\ y.nextStep = x.nextStep
    BY <2>5, <2>6, <2>7, ForgottenLife
  <2>9. Stopped(HandleOf(u))' <=> stopped
    BY <1>0, <2>4 DEF Stopped
  <2>10. LifeOf(u)'
    BY <1>4, <1>7, <2>1, <2>2, <2>8, <2>9 DEF LifeOf, Life
  <2>11. y \in SQLTransactions
    BY <2>8 DEF Life, RecordOK
  <2> QED BY <2>1, <2>8, <2>10, <2>11
<1>9. HandlesOK' /\ DeletionOK'
  <2>1. openSetCopy = {}
    BY <1>7 DEF IInv, ThreadsOK
  <2> QED BY <1>0, <1>1, <2>1, DeletionKept DEF IInv, HandlesOK, HandleOK
<1>10. TransactionsOK'
  <2>1. txn' \in [Created -> SQLTransactions]
    BY <1>1, <1>8
  <2> QED BY <1>0, <1>1, <2>1 DEF IInv, TransactionsOK
<1>11. QueuesOK'
  <2>1. Tasks' = Tasks
    BY <1>0, <1>1 DEF Tasks
  <2>2. \A task \in ToSet(dbQueue) : TaskOK(task)'
    BY <1>0, <1>1 DEF TaskOK, IInv, QueuesOK
  <2> QED BY <1>0, <1>1, <2>1, <2>2 DEF IInv, QueuesOK
<1>12. ThreadsOK'
  <2>1. dbThread' \in [at: {"loop", "exit", "ended"}] /\ dbThread'.at # "ended"
    BY <1>6
  <2> QED BY <1>0, <1>6, <1>7, <2>1 DEF IInv, ThreadsOK
<1>13. CoordinatorOK'
  BY <1>1 DEF CoordinatorOK
<1>14. Lives'
  BY <1>1, <1>8 DEF Lives
<1>15. OneAtATime'
  <2>1. ASSUME NEW u \in Created, Started(u)'  PROVE Started(u)
    <3>1. InHandle(u)' <=> InHandle(u)
      BY <1>0 DEF InHandle
    <3>2. dbThread'.at # "return" /\ txn'[u].nextStep = txn[u].nextStep
      BY <1>6, <1>8
    <3> QED BY <2>1, <3>1, <3>2 DEF Started
  <2>2. \A u \in Created : (Stopped(HandleOf(u)) => Stopped(HandleOf(u))') /\ handle' = handle
    BY <1>0 DEF Stopped
  <2> QED BY <1>1, <1>8, <2>1, <2>2, OneAtATimeKept DEF IInv
<1> QED BY <1>9, <1>10, <1>11, <1>12, <1>13, <1>14, <1>15 DEF IInv

-----------------------------------------------------------------------------
(* The theorems                                                            *)

\* No step of any thread leaves the inductive invariant.
LEMMA NextOK ==
  ASSUME IInv, [Next]_vars
  PROVE  IInv'
<1>1. CASE ContextThread
  <2>1. ASSUME NEW h \in Handles, OpenDatabase(h)  PROVE IInv'
    BY <2>1, OpenDatabaseOK
  <2>2. ASSUME NEW h \in Handles, TableNames(h)  PROVE IInv'
    BY <2>2, TableNamesOK
  <2>3. ASSUME RequestTermination  PROVE IInv'
    BY <2>3, RequestTerminationOK
  <2>4. ASSUME NEW t \in Transactions, RunTransaction(t)  PROVE IInv'
    BY <2>4, RunTransactionOK
  <2>5. ASSUME PerformPendingCallback  PROVE IInv'
    BY <2>5, PerformPendingCallbackOK
  <2>6. ASSUME ScriptExecutesSQL  PROVE IInv'
    BY <2>6, ScriptExecutesSQLOK
  <2>7. ASSUME ScriptReturns  PROVE IInv'
    BY <2>7, ScriptReturnsOK
  <2>8. ASSUME WaitForTaskCompletion("context")  PROVE IInv'
    BY <2>8, WaitForTaskCompletionOK DEF Threads
  <2>9. ASSUME NEW h \in Handles, OpenAndVerifyVersion(h)  PROVE IInv'
    BY <2>9, OpenAndVerifyVersionOK
  <2> QED BY <1>1, <2>1, <2>2, <2>3, <2>4, <2>5, <2>6, <2>7, <2>8, <2>9 DEF ContextThread
<1>2. CASE MainThreadRequests
  <2>1. ASSUME NEW h \in Handles, MarkAsDeletedAndClose(h)  PROVE IInv'
    BY <2>1, MarkAsDeletedAndCloseOK
  <2>2. ASSUME NEW h \in Handles, CloseImmediately(h)  PROVE IInv'
    BY <2>2, CloseImmediatelyOK
  <2>3. ASSUME NEW h \in Handles, Interrupt(h)  PROVE IInv'
    BY <2>3, InterruptOK
  <2>4. ASSUME NEW n \in {NameOf(h) : h \in Handles}, DeleteDatabase(n)  PROVE IInv'
    BY <2>4, DeleteDatabaseOK
  <2>5. ASSUME DoneDeletingDatabase  PROVE IInv'
    BY <2>5, DoneDeletingDatabaseOK
  <2>6. ASSUME WaitForTaskCompletion("main")  PROVE IInv'
    BY <2>6, WaitForTaskCompletionOK DEF Threads
  <2>7. ASSUME NEW h \in Handles, ScheduleCloseTask(h)  PROVE IInv'
    BY <2>7, ScheduleCloseTaskOK
  <2> QED BY <1>2, <2>1, <2>2, <2>3, <2>4, <2>5, <2>6, <2>7 DEF MainThreadRequests
<1>3. CASE DatabaseThread
  <2>1. ASSUME PerformOpenTask  PROVE IInv'
    BY <2>1, PerformOpenTaskOK
  <2>2. ASSUME PerformTableNamesTask  PROVE IInv'
    BY <2>2, PerformTableNamesTaskOK
  <2>3. ASSUME PerformCloseTask  PROVE IInv'
    BY <2>3, PerformCloseTaskOK
  <2>4. ASSUME UnscheduleDatabaseTasks  PROVE IInv'
    BY <2>4, UnscheduleDatabaseTasksOK
  <2>5. ASSUME RemoveOpenDatabase  PROVE IInv'
    BY <2>5, RemoveOpenDatabaseOK
  <2>6. ASSUME PerformTransactionTask  PROVE IInv'
    BY <2>6, PerformTransactionTaskOK
  <2>7. ASSUME ContinueStatements  PROVE IInv'
    BY <2>7, ContinueStatementsOK
  <2>8. ASSUME ReturnFromStep  PROVE IInv'
    BY <2>8, ReturnFromStepOK
  <2>9. ASSUME ShutdownCoordinator  PROVE IInv'
    BY <2>9, ShutdownCoordinatorOK
  <2>10. ASSUME EndThread  PROVE IInv'
    BY <2>10, EndThreadOK
  <2>11. ASSUME NEW h \in Handles, CloseAtExit(h)  PROVE IInv'
    BY <2>11, CloseAtExitOK
  <2> QED BY <1>3, <2>1, <2>2, <2>3, <2>4, <2>5, <2>6, <2>7, <2>8, <2>9, <2>10, <2>11 DEF DatabaseThread
<1>4. CASE UNCHANGED vars
  BY <1>4, StutterOK
<1> QED BY <1>1, <1>2, <1>3, <1>4 DEF Next

\* The inductive invariant holds, for any handles, transactions, callbacks,
\* statements and requests, in documents and in workers.
THEOREM Invariance == Spec => []IInv
<1>1. Init => IInv
  BY InitOK
<1>2. IInv /\ [Next]_vars => IInv'
  BY NextOK
<1> QED BY <1>1, <1>2, PTL DEF Spec

\* A set whose members are all equal.
LEMMA AtMostOne ==
  ASSUME NEW S, \A x, y \in S : x = y
  PROVE  Cardinality(S) \in {0, 1} /\ (Cardinality(S) = 0 <=> S = {})
<1>1. CASE S = {}
  BY <1>1, FS_EmptySet
<1>2. CASE S # {}
  <2>1. PICK x \in S : TRUE
    BY <1>2
  <2>2. S = {x}
    BY <2>1
  <2>3. Cardinality(S) = 1
    BY <2>2, FS_Singleton
  <2> QED BY <1>2, <2>3
<1> QED BY <1>1, <1>2

\* A transaction has a ticket exactly while it is somewhere, and never two.
LEMMA TicketCount ==
  ASSUME IInv, NEW t \in Created
  PROVE  Tickets(t) \in {0, 1} /\ (Tickets(t) = 0 <=> PlacesOf(t) = {})
<1>1. PICK S1 : S1 = {i \in DOMAIN dbQueue : dbQueue[i].transaction = t}
  OBVIOUS
<1>2. PICK S2 : S2 = {i \in DOMAIN ctxQueue : ctxQueue[i] = t}
  OBVIOUS
<1>3. PICK S3 : S3 = {t} \cap {ctxThread}
  OBVIOUS
<1>4. PICK S4 : S4 = {t} \cap (IF dbThread.at = "runStatements" THEN {dbThread.transaction} ELSE {})
  OBVIOUS
<1>5. PICK S5 : S5 = {t} \cap Pending(InfoFor(NameOf(HandleOf(t))))
  OBVIOUS
<1>6. PICK S6 : S6 = {t} \cap ToSet(handle[HandleOf(t)].transactionQueue)
  OBVIOUS
<1>7. /\ \A i, j \in S1 : i = j
      /\ S1 # {} <=> InDb(t)
  <2>1. \A i \in DOMAIN dbQueue : dbQueue[i] \in ToSet(dbQueue)
    BY DEF ToSet
  <2>2. \A i \in S1 : TaskOK(dbQueue[i]) /\ dbQueue[i].kind = "transaction" /\ dbQueue[i].transaction = t
    BY <1>1, <2>1, TransactionTasks DEF IInv, QueuesOK
  <2>3. \A i, j \in S1 : Same(dbQueue[i], dbQueue[j])
    BY <2>2 DEF Same, TaskOK
  <2>4. \A i, j \in S1 : i = j
    BY <1>1, <2>3 DEF IInv, QueuesOK, NoTwins
  <2>5. S1 # {} <=> InDb(t)
    BY <1>1 DEF InDb, ToSet
  <2> QED BY <2>4, <2>5
<1>8. /\ \A i, j \in S2 : i = j
      /\ S2 # {} <=> InCtx(t)
  BY <1>2 DEF IInv, QueuesOK, Distinct, InCtx, ToSet
<1>9. /\ \A i, j \in S3 : i = j
      /\ S3 # {} <=> InScript(t)
  BY <1>3 DEF InScript
<1>10. /\ \A i, j \in S4 : i = j
       /\ S4 # {} <=> InLoop(t)
  BY <1>4 DEF InLoop
<1>11. /\ \A i, j \in S5 : i = j
       /\ S5 # {} <=> InPending(t)
  BY <1>5 DEF InPending
<1>12. /\ \A i, j \in S6 : i = j
       /\ S6 # {} <=> InHandle(t)
  BY <1>6 DEF InHandle
<1>13. Cardinality(S1) \in {0, 1} /\ (Cardinality(S1) = 0 <=> ~InDb(t))
  BY <1>7, AtMostOne
<1>14. Cardinality(S2) \in {0, 1} /\ (Cardinality(S2) = 0 <=> ~InCtx(t))
  BY <1>8, AtMostOne
<1>15. Cardinality(S3) \in {0, 1} /\ (Cardinality(S3) = 0 <=> ~InScript(t))
  BY <1>9, AtMostOne
<1>16. Cardinality(S4) \in {0, 1} /\ (Cardinality(S4) = 0 <=> ~InLoop(t))
  BY <1>10, AtMostOne
<1>17. Cardinality(S5) \in {0, 1} /\ (Cardinality(S5) = 0 <=> ~InPending(t))
  BY <1>11, AtMostOne
<1>18. Cardinality(S6) \in {0, 1} /\ (Cardinality(S6) = 0 <=> ~InHandle(t))
  BY <1>12, AtMostOne
<1>19. PICK a, b, c, d, e, f : /\ a = Cardinality(S1) /\ b = Cardinality(S2) /\ c = Cardinality(S3)
                               /\ d = Cardinality(S4) /\ e = Cardinality(S5) /\ f = Cardinality(S6)
  OBVIOUS
<1>20. Tickets(t) = a + b + c + d + e + f
  BY <1>1, <1>2, <1>3, <1>4, <1>5, <1>6, <1>19 DEF Tickets
<1>21. PICK p1, p2, p3, p4, p5, p6 :
         /\ p1 \in BOOLEAN /\ p2 \in BOOLEAN /\ p3 \in BOOLEAN /\ p4 \in BOOLEAN /\ p5 \in BOOLEAN /\ p6 \in BOOLEAN
         /\ (p1 <=> InDb(t)) /\ (p2 <=> InCtx(t)) /\ (p3 <=> InScript(t))
         /\ (p4 <=> InLoop(t)) /\ (p5 <=> InPending(t)) /\ (p6 <=> InHandle(t))
  <2>1. InDb(t) \in BOOLEAN /\ InCtx(t) \in BOOLEAN /\ InScript(t) \in BOOLEAN
    BY DEF InDb, InCtx, InScript
  <2>2. InLoop(t) \in BOOLEAN /\ InPending(t) \in BOOLEAN /\ InHandle(t) \in BOOLEAN
    BY DEF InLoop, InPending, InHandle
  <2> QED BY <2>1, <2>2, Zenon
<1>22. /\ p1 => ~p2 /\ ~p3 /\ ~p4 /\ ~p5 /\ ~p6
       /\ p2 => ~p3 /\ ~p4 /\ ~p5 /\ ~p6
       /\ p3 => ~p4 /\ ~p5 /\ ~p6
       /\ p4 => ~p5 /\ ~p6
       /\ p5 => ~p6
  <2>1. LifeOf(t)
    BY DEF IInv, Lives
  <2>2. InPending(t) => ~InHandle(t)
    BY <2>1, OnlyPlace, PlaceMembers
  <2> QED BY <1>21, <2>1, <2>2, OnlyPlace
<1>23. PlacesOf(t) = {} <=> ~p1 /\ ~p2 /\ ~p3 /\ ~p4 /\ ~p5 /\ ~p6
  <2>1. PlacesOf(t) \subseteq Places
    BY PlaceMembers
  <2> QED BY <1>21, <2>1, PlaceMembers DEF Places
<1>24. /\ a \in {0, 1} /\ b \in {0, 1} /\ c \in {0, 1} /\ d \in {0, 1} /\ e \in {0, 1} /\ f \in {0, 1}
       /\ (a = 0 <=> ~p1) /\ (b = 0 <=> ~p2) /\ (c = 0 <=> ~p3)
       /\ (d = 0 <=> ~p4) /\ (e = 0 <=> ~p5) /\ (f = 0 <=> ~p6)
  BY <1>13, <1>14, <1>15, <1>16, <1>17, <1>18, <1>19, <1>21
<1>25. a + b + c + d + e + f \in {0, 1}
  BY <1>22, <1>24
<1>26. a + b + c + d + e + f = 0 <=> ~p1 /\ ~p2 /\ ~p3 /\ ~p4 /\ ~p5 /\ ~p6
  BY <1>22, <1>24
<1> QED BY <1>20, <1>23, <1>25, <1>26

\* What holds the lock according to some entry of the map.
LEMMA ActiveAnywhere ==
  ASSUME IInv, NEW t
  PROVE  t \in ActiveTransactions <=> t \in Created /\ IsActive(t)
<1>1. ASSUME t \in ActiveTransactions  PROVE t \in Created /\ IsActive(t)
  <2>1. PICK n \in DOMAIN coordinationInfoMap : t \in Active(coordinationInfoMap[n])
    BY <1>1 DEF ActiveTransactions
  <2>2. t \in Created /\ NameOf(HandleOf(t)) = n
    BY <2>1 DEF IInv, CoordinatorOK, InfoOK
  <2> QED BY <2>1, <2>2 DEF IsActive, InfoFor
<1>2. ASSUME t \in Created, IsActive(t)  PROVE t \in ActiveTransactions
  <2>1. NameOf(HandleOf(t)) \in DOMAIN coordinationInfoMap
    BY <1>2, NewInfoProperties DEF IsActive, InfoFor
  <2> QED BY <1>2, <2>1 DEF IsActive, InfoFor, ActiveTransactions
<1> QED BY <1>1, <1>2

\* The types the runs check.
LEMMA TypesFollow ==
  ASSUME IInv
  PROVE  TypeOK
<1>1. DOMAIN handle \subseteq Handles /\ Created \subseteq Transactions
  BY DEF IInv, HandlesOK, TransactionsOK
<1>2. \A t \in Created : txn[t].nextStep \in DatabaseSteps \cup ContextSteps \cup {"none"}
  BY DEF IInv, TransactionsOK, SQLTransactions, Steps
<1>3. ToSet(ctxQueue) \subseteq Created
  BY SeqElements DEF IInv, QueuesOK
<1>4. \A i \in DOMAIN dbQueue : dbQueue[i].handle \in DOMAIN handle
  <2>1. \A i \in DOMAIN dbQueue : dbQueue[i] \in Tasks
    BY DEF IInv, QueuesOK
  <2> QED BY <2>1 DEF Tasks
<1>5. \A n \in DOMAIN coordinationInfoMap : coordinationInfoMap[n] \in CoordinationInfos
  BY DEF IInv, CoordinatorOK, InfoOK
<1>6. sync \in [Threads -> {"none", "waiting", "completed"}]
  BY Types
<1> QED BY <1>1, <1>2, <1>3, <1>4, <1>5, <1>6 DEF TypeOK

\* The state is well typed, a transaction is in one place at a time, and the
\* ASSERTs of performNextStep and performPendingCallback on m_nextStep hold,
\* however the threads interleave.
THEOREM StepsTakeTurnsHolds == Spec => []StepsTakeTurns
<1>1. ASSUME IInv  PROVE StepsTakeTurns
  <2>1. TypeOK
    BY <1>1, TypesFollow
  <2>2. \A t \in Created : Tickets(t) <= 1
    BY <1>1, TicketCount
  <2>3. ASSUME NEW i \in DOMAIN dbQueue, dbQueue[i].kind = "transaction"
        PROVE  txn[dbQueue[i].transaction].nextStep \in DatabaseSteps
    <3>1. PICK t : t = dbQueue[i].transaction
      OBVIOUS
    <3>2. dbQueue[i] \in ToSet(dbQueue)
      BY DEF ToSet
    <3>3. t \in Created /\ InDb(t)
      BY <1>1, <2>3, <3>1, <3>2 DEF IInv, QueuesOK, TaskOK, InDb
    <3>4. LifeOf(t)
      BY <1>1, <3>3 DEF IInv, Lives
    <3> QED BY <3>1, <3>3, <3>4, OnlyPlace
  <2>4. ASSUME NEW i \in DOMAIN ctxQueue  PROVE txn[ctxQueue[i]].nextStep \in ContextSteps
    <3>1. PICK t : t = ctxQueue[i]
      OBVIOUS
    <3>2. t \in Created /\ InCtx(t)
      BY <1>1, <3>1 DEF IInv, QueuesOK, InCtx, ToSet
    <3>3. LifeOf(t)
      BY <1>1, <3>2 DEF IInv, Lives
    <3> QED BY <3>1, <3>2, <3>3, OnlyPlace
  <2> QED BY <2>1, <2>2, <2>3, <2>4 DEF StepsTakeTurns
<1> QED BY <1>1, Invariance, PTL

\* The inductive invariant isolates SQLite transactions.
LEMMA IsolationFollows == IInv => SqliteTransactionsIsolated
<1> SUFFICES ASSUME IInv  PROVE SqliteTransactionsIsolated
  OBVIOUS
<1>1. \A t \in Created : txn[t].sqlite # "none" => IsActive(t)
  BY DEF IInv, Lives, LifeOf, Life
<1>2. \A t \in Created : txn[t].sqlite # "none" => t \in ActiveTransactions
  BY <1>1, ActiveAnywhere
<1>3. OneOpen
  BY DEF IInv, OneAtATime
<1>4. ASSUME NEW t \in Created, NEW u \in Created, txn[t].sqlite # "none", txn[u].sqlite # "none", t # u,
             NameOf(HandleOf(t)) = NameOf(HandleOf(u))
      PROVE  t \in ReadOnly /\ u \in ReadOnly
  <2>1. PICK n : n = NameOf(HandleOf(t))
    OBVIOUS
  <2>2. PICK info : info = InfoFor(n)
    OBVIOUS
  <2>3. InfoOK(n, info)
    BY <2>2, InfoForOK
  <2>4. t \in Active(info) /\ u \in Active(info)
    BY <1>1, <1>4, <2>1, <2>2 DEF IsActive
  <2> QED BY <1>4, <2>3, <2>4 DEF InfoOK, Active, ExclusiveInfo
<1> QED BY <1>2, <1>3, <1>4 DEF SqliteTransactionsIsolated, OneOpen

\* An SQLite transaction is open under the coordinator's lock only, at most one
\* on a connection, and two on one database file are both read-only.
THEOREM SqliteTransactionsIsolatedHolds == Spec => []SqliteTransactionsIsolated
  BY IsolationFollows, Invariance, PTL

\* The success callback runs only after COMMIT, the error callback only when
\* nothing was committed.
THEOREM CallbacksTellTheTruthHolds == Spec => []CallbacksTellTheTruth
<1>1. ASSUME IInv  PROVE CallbacksTellTheTruth
  <2>1. \A t \in Created : txn[t].happened \in Histories
    BY <1>1 DEF IInv, TransactionsOK, SQLTransactions
  <2> QED BY <2>1 DEF CallbacksTellTheTruth, Histories
<1> QED BY <1>1, Invariance, PTL

\* No statement runs after SQLite has rolled its transaction back.
THEOREM StatementsInsideTransactionHolds == Spec => []StatementsInsideTransaction
<1>1. ASSUME IInv  PROVE StatementsInsideTransaction
  <2>1. \A t \in Created : txn[t].happened \in Histories
    BY <1>1 DEF IInv, TransactionsOK, SQLTransactions
  <2> QED BY <2>1 DEF StatementsInsideTransaction, Histories
<1> QED BY <1>1, Invariance, PTL

\* A transaction fails after a statement whose error callback handled the error
\* only when that was a quota error.
THEOREM HandledErrorsContinueHolds == Spec => []HandledErrorsContinue
<1>1. ASSUME IInv  PROVE HandledErrorsContinue
  BY <1>1 DEF HandledErrorsContinue, IInv, Lives, LifeOf, Life, RecordOK
<1> QED BY <1>1, Invariance, PTL

\* A transaction that holds the lock of a database has somewhere to go on, or
\* its handle was closed or interrupted.
THEOREM LocksReturnedHolds == Spec => []LocksReturned
<1>1. ASSUME IInv  PROVE LocksReturned
  <2> SUFFICES ASSUME NEW t \in ActiveTransactions, Tickets(t) = 0  PROVE Stopped(HandleOf(t))
    BY DEF LocksReturned
  <2>1. t \in Created /\ IsActive(t)
    BY <1>1, ActiveAnywhere
  <2>2. PlacesOf(t) = {}
    BY <1>1, <2>1, TicketCount
  <2>3. LifeOf(t)
    BY <1>1, <2>1 DEF IInv, Lives
  <2> QED BY <2>1, <2>2, <2>3 DEF LifeOf, Life
<1> QED BY <1>1, Invariance, PTL

\* When the database thread has ended, no SQLite transaction and no database is
\* open: the ASSERT of ~SQLTransaction.
THEOREM NothingOpenAtEndHolds == Spec => []NothingOpenAtEnd
<1>1. ASSUME IInv  PROVE NothingOpenAtEnd
  <2> SUFFICES ASSUME dbThread.at = "ended"
               PROVE  /\ \A t \in Created : txn[t].sqlite = "none"
                      /\ \A h \in DOMAIN handle : ~handle[h].opened
    BY DEF NothingOpenAtEnd
  <2>1. Down
    BY DEF Down
  <2>2. \A t \in Created : txn[t].sqlite = "none"
    BY <1>1, <2>1 DEF IInv, Lives, LifeOf, Life
  <2>3. openDatabaseSet = {} /\ openSetCopy = {}
    BY <1>1, <2>1 DEF IInv, ThreadsOK
  <2>4. \A h \in DOMAIN handle : ~handle[h].opened
    BY <1>1, <2>3 DEF IInv, HandlesOK, HandleOK
  <2> QED BY <2>2, <2>4
<1> QED BY <1>1, Invariance, PTL

-----------------------------------------------------------------------------
(* Synchronous tasks                                                       *)

\* The queued tasks that are not steps of transactions: a thread waits for them,
\* or they close a database.
OtherTasks(q) == {task \in ToSet(q) : task.kind # "transaction"}
AtMostOneOther(q) ==
  \A i, j \in DOMAIN q : q[i].kind # "transaction" /\ q[j].kind # "transaction" => i = j

\* What happened between the queues q and r concerns transactions only.
SameOthers(q, r) == OtherTasks(r) = OtherTasks(q) /\ (AtMostOneOther(q) => AtMostOneOther(r))

\* The first task of a queue.
LEMMA OthersTail ==
  ASSUME NEW T, NEW q \in Seq(T), q # << >>
  PROVE  /\ Head(q).kind = "transaction" => SameOthers(q, Tail(q))
         /\ Head(q).kind # "transaction" => OtherTasks(q) = OtherTasks(Tail(q)) \cup {Head(q)}
         /\ AtMostOneOther(q) => AtMostOneOther(Tail(q))
         /\ AtMostOneOther(q) /\ Head(q).kind # "transaction" => OtherTasks(Tail(q)) = {}
<1>1. /\ Len(q) \in Nat \ {0} /\ DOMAIN q = 1..Len(q) /\ DOMAIN Tail(q) = 1..(Len(q) - 1)
      /\ Head(q) = q[1] /\ \A i \in 1..(Len(q) - 1) : Tail(q)[i] = q[i + 1]
  OBVIOUS
<1>2. \A i \in 1..(Len(q) - 1) : i + 1 \in 1..Len(q) /\ i + 1 # 1
  BY <1>1
<1>3. ToSet(q) = ToSet(Tail(q)) \cup {Head(q)}
  BY TailOfQueue
<1>4. 1 \in 1..Len(q)
  BY <1>1
<1>5. ASSUME AtMostOneOther(q)  PROVE AtMostOneOther(Tail(q))
  <2> SUFFICES ASSUME NEW i \in 1..(Len(q) - 1), NEW j \in 1..(Len(q) - 1),
                      Tail(q)[i].kind # "transaction", Tail(q)[j].kind # "transaction"
               PROVE  i = j
    BY <1>1 DEF AtMostOneOther
  <2>1. i + 1 = j + 1
    BY <1>1, <1>2, <1>5 DEF AtMostOneOther
  <2> QED BY <2>1
<1>6. ASSUME AtMostOneOther(q), Head(q).kind # "transaction"  PROVE OtherTasks(Tail(q)) = {}
  <2> SUFFICES ASSUME NEW task \in ToSet(Tail(q)), task.kind # "transaction"  PROVE FALSE
    BY DEF OtherTasks
  <2>1. PICK i \in 1..(Len(q) - 1) : Tail(q)[i] = task
    BY <1>1 DEF ToSet
  <2>2. q[i + 1].kind # "transaction" /\ q[1].kind # "transaction"
    BY <1>1, <1>6, <2>1
  <2> QED BY <1>1, <1>2, <1>4, <1>6, <2>2 DEF AtMostOneOther
<1>7. ASSUME Head(q).kind = "transaction"  PROVE OtherTasks(Tail(q)) = OtherTasks(q)
  BY <1>3, <1>7 DEF OtherTasks
<1>8. ASSUME Head(q).kind # "transaction"  PROVE OtherTasks(q) = OtherTasks(Tail(q)) \cup {Head(q)}
  BY <1>3, <1>8 DEF OtherTasks
<1> QED BY <1>5, <1>6, <1>7, <1>8 DEF SameOthers

\* Tasks of transactions p, in front of a queue or behind it.
LEMMA OthersJoined ==
  ASSUME NEW T, NEW p \in Seq(T), NEW q \in Seq(T), OtherTasks(p) = {}
  PROVE  SameOthers(q, p \o q) /\ SameOthers(q, q \o p)
<1>1. ASSUME NEW a \in Seq(T), NEW b \in Seq(T), AtMostOneOther(a), AtMostOneOther(b),
             OtherTasks(a) = {} \/ OtherTasks(b) = {}
      PROVE  AtMostOneOther(a \o b)
  <2> DEFINE m == Len(a)
             n == Len(b)
             r == a \o b
  <2>1. /\ m \in Nat /\ n \in Nat /\ DOMAIN a = 1..m /\ DOMAIN b = 1..n /\ DOMAIN r = 1..(m + n)
        /\ \A i \in 1..m : r[i] = a[i]
        /\ \A i \in 1..(m + n) : i > m => r[i] = b[i - m]
    OBVIOUS
  <2> HIDE DEF m, n, r
  <2>2. \A i \in 1..(m + n) : i \in 1..m \/ (i > m /\ i - m \in 1..n)
    BY <2>1
  <2>3. \A i \in 1..(m + n) : \/ i \in 1..m /\ r[i] = a[i] /\ r[i] \in ToSet(a)
                              \/ i > m /\ i - m \in 1..n /\ r[i] = b[i - m] /\ r[i] \in ToSet(b)
    BY <2>1, <2>2 DEF ToSet
  <2> SUFFICES ASSUME NEW i \in 1..(m + n), NEW j \in 1..(m + n),
                      r[i].kind # "transaction", r[j].kind # "transaction"
               PROVE  i = j
    BY <2>1 DEF AtMostOneOther, r
  <2>4. CASE i \in 1..m /\ j \in 1..m
    BY <2>4, <2>1, <1>1 DEF AtMostOneOther
  <2>5. CASE i > m /\ j > m
    <3>1. i - m \in DOMAIN b /\ j - m \in DOMAIN b /\ b[i - m].kind # "transaction" /\ b[j - m].kind # "transaction"
      BY <2>5, <2>1, <2>2
    <3>2. i - m = j - m
      BY <3>1, <1>1 DEF AtMostOneOther
    <3> QED BY <3>2, <2>1
  <2>6. ~(i \in 1..m /\ j > m) /\ ~(i > m /\ j \in 1..m)
    BY <2>1, <2>3, <1>1 DEF OtherTasks
  <2> QED BY <2>2, <2>4, <2>5, <2>6
<1>2. AtMostOneOther(p)
  BY DEF OtherTasks, AtMostOneOther, ToSet
<1>3. ToSet(p \o q) = ToSet(p) \cup ToSet(q) /\ ToSet(q \o p) = ToSet(q) \cup ToSet(p)
  BY JoinedQueues
<1>4. OtherTasks(p \o q) = OtherTasks(q) /\ OtherTasks(q \o p) = OtherTasks(q)
  BY <1>3 DEF OtherTasks
<1> QED BY <1>1, <1>2, <1>4 DEF SameOthers

\* A task in front of a queue that has no other one.
LEMMA OthersPrepended ==
  ASSUME NEW T, NEW a \in T, NEW q \in Seq(T), a.kind # "transaction"
  PROVE  /\ OtherTasks(<<a>> \o q) = OtherTasks(q) \cup {a}
         /\ OtherTasks(q) = {} => AtMostOneOther(<<a>> \o q)
<1>0. PICK p : p = <<a>>
  OBVIOUS
<1>1. p \in Seq(T) /\ ToSet(p) = {a}
  BY <1>0, SingleQueue
<1>2. ToSet(p \o q) = {a} \cup ToSet(q)
  BY <1>1, JoinedQueues
<1>3. OtherTasks(p \o q) = OtherTasks(q) \cup {a}
  BY <1>2 DEF OtherTasks
<1>4. ASSUME OtherTasks(q) = {}  PROVE AtMostOneOther(p \o q)
  <2>1. SameOthers(p, p \o q)
    BY <1>1, <1>4, OthersJoined
  <2>2. AtMostOneOther(p)
    BY <1>0 DEF AtMostOneOther
  <2> QED BY <2>1, <2>2 DEF SameOthers
<1> QED BY <1>0, <1>3, <1>4

\* Handle record d is as known to the tracker and to scripts as e is.
SameStanding(d, e) == d.registered = e.registered /\ d.returned = e.returned /\ d.opening = e.opening

\* A step that neither adds, performs nor removes such a task, and changes
\* nothing that those tasks change.
Quiet ==
  /\ UNCHANGED <<killed, openDatabaseSet, sync, deletion>> /\ requests' \subseteq requests
  /\ SameOthers(dbQueue, dbQueue')
  /\ Closing' <=> Closing
  /\ Closing => dbThread' = dbThread
  /\ dbThread'.at = "ended" <=> dbThread.at = "ended"
  /\ DOMAIN handle' = DOMAIN handle
  /\ \A h \in DOMAIN handle : SameStanding(handle'[h], handle[h])

\* A step of a transaction schedules steps of transactions.
LEMMA QuietQueue ==
  ASSUME NEW T, NEW q \in Seq(T)
  PROVE  /\ SameOthers(q, q)
         /\ \A t : TransactionTask(t) \in T => SameOthers(q, q \o <<TransactionTask(t)>>)
<1>1. SameOthers(q, q)
  BY DEF SameOthers
<1>2. ASSUME NEW t, TransactionTask(t) \in T  PROVE SameOthers(q, q \o <<TransactionTask(t)>>)
  <2>1. <<TransactionTask(t)>> \in Seq(T) /\ ToSet(<<TransactionTask(t)>>) = {TransactionTask(t)}
    BY <1>2, SingleQueue
  <2>2. OtherTasks(<<TransactionTask(t)>>) = {}
    BY <2>1 DEF OtherTasks, TransactionTask
  <2> QED BY <2>1, <2>2, OthersJoined
<1> QED BY <1>1, <1>2

\* The tasks that are queued, and those of transactions.
LEMMA QueuedTasks ==
  ASSUME IInv
  PROVE  /\ dbQueue \in Seq(Tasks) /\ \A t \in Created : TransactionTask(t) \in Tasks
         /\ \A a : dbQueue \o << >> = dbQueue
<1>1. dbQueue \in Seq(Tasks)
  BY DEF IInv, QueuesOK
<1>2. \A t \in Created : TransactionTask(t) \in Tasks
  BY DEF TransactionTask, Tasks, IInv, TransactionsOK
<1>3. dbQueue \o << >> = dbQueue
  BY <1>1
<1> QED BY <1>1, <1>2, <1>3

\* Steps of transactions on the context thread.
LEMMA QuietContext ==
  ASSUME IInv, PerformPendingCallback \/ ScriptExecutesSQL \/ ScriptReturns
  PROVE  Quiet
<1>1. /\ UNCHANGED <<handle, killed, dbThread, openDatabaseSet, sync, requests, deletion>>
  BY DEF PerformPendingCallback, ScriptExecutesSQL, ScriptReturns
<1>2. dbQueue' = dbQueue \/ \E t \in Created : dbQueue' = dbQueue \o <<TransactionTask(t)>>
  <2>1. CASE ScriptExecutesSQL
    BY <2>1 DEF ScriptExecutesSQL
  <2>2. ASSUME NEW t \in Created, NEW o, FinishContextStep(t, o)
        PROVE  dbQueue' = dbQueue \/ dbQueue' = dbQueue \o <<TransactionTask(t)>>
    BY <2>2, QueuedTasks DEF FinishContextStep
  <2>3. CASE ScriptReturns
    <3>1. ctxThread \in Created
      BY <2>3 DEF ScriptReturns, IInv, QueuesOK
    <3>2. PICK failed \in BOOLEAN : FinishContextStep(ctxThread, AfterScript(txn[ctxThread], failed))
      BY <2>3 DEF ScriptReturns
    <3> QED BY <2>2, <3>1, <3>2
  <2>4. CASE PerformPendingCallback
    <3>1. Head(ctxQueue) \in Created
      BY <2>4, TailOfQueue DEF PerformPendingCallback, IInv, QueuesOK
    <3>2. dbQueue' = dbQueue \/ \E o \in ContextStep(txn[Head(ctxQueue)]) : FinishContextStep(Head(ctxQueue), o)
      BY <2>4 DEF PerformPendingCallback
    <3> QED BY <2>2, <3>1, <3>2
  <2> QED BY <2>1, <2>3, <2>4
<1>3. SameOthers(dbQueue, dbQueue')
  BY <1>2, QueuedTasks, QuietQueue
<1> QED BY <1>1, <1>3 DEF Quiet, Closing, SameStanding

\* processPendingTransactions schedules steps of transactions.
LEMMA QuietGranting ==
  ASSUME NEW n, NEW info \in CoordinationInfos, NEW xs, NEW queue \in Seq(Tasks),
         ProcessPending(n, info, xs, queue)
  PROVE  SameOthers(queue, dbQueue')
<1>1. PICK s : s = Granted(info)
  OBVIOUS
<1>2. s \in Seq(Transactions)
  <2>1. PICK k : k = GrantCount(info)
    OBVIOUS
  <2>2. PICK pending : pending = info.pendingTransactions
    OBVIOUS
  <2>3. pending \in Seq(Transactions) /\ k \in 0..Len(pending) /\ s = SubSeq(pending, 1, k)
    BY <1>1, <2>1, <2>2, GrantCountProperties DEF CoordinationInfos, Granted
  <2> QED BY <2>3
<1>3. PICK q : q = [i \in DOMAIN s |-> TransactionTask(Reverse(s)[i])]
  OBVIOUS
<1>4. DOMAIN q = 1..Len(s) /\ Len(s) \in Nat /\ \A i \in DOMAIN q : q[i].kind = "transaction"
  BY <1>2, <1>3 DEF TransactionTask
<1>5. PICK T : T = Tasks \cup {q[i] : i \in DOMAIN q}
  OBVIOUS
<1>6. q \in Seq(T)
  <2>1. q \in [1..Len(s) -> T]
    BY <1>3, <1>4, <1>5
  <2> QED BY <1>4, <2>1
<1>7. queue \in Seq(T)
  BY <1>5
<1>8. OtherTasks(q) = {}
  BY <1>4 DEF OtherTasks, ToSet
<1>9. dbQueue' = q \o queue
  BY <1>1, <1>3 DEF ProcessPending
<1> QED BY <1>6, <1>7, <1>8, <1>9, OthersJoined

\* What a step on the database thread leaves.
LEMMA QuietFinish ==
  ASSUME IInv, NEW t, NEW o, NEW queue \in Seq(Tasks), FinishDatabaseStep(t, o, queue)
  PROVE  SameOthers(queue, dbQueue') /\ dbThread'.at \in {"runStatements", "return"}
<1>1. dbThread'.at \in {"runStatements", "return"}
  BY DEF FinishDatabaseStep
<1>2. CASE o.release
  <2>1. PICK n : n = NameOf(HandleOf(t))
    OBVIOUS
  <2>2. PICK old : old = InfoFor(n)
    OBVIOUS
  <2>3. PICK info : info = Deactivate(old, t)
    OBVIOUS
  <2>4. old \in CoordinationInfos
    BY <2>2, InfoForOK DEF InfoOK
  <2>5. info \in CoordinationInfos
    BY <2>3, <2>4 DEF Deactivate, CoordinationInfos
  <2>6. PICK xs : xs = [txn EXCEPT ![t] = o.txn]
    OBVIOUS
  <2>7. ProcessPending(n, info, xs, queue)
    BY <1>2, <2>1, <2>2, <2>3, <2>6 DEF FinishDatabaseStep
  <2> QED BY <1>1, <2>5, <2>7, QuietGranting
<1>3. CASE ~o.release
  <2>1. dbQueue' = queue
    BY <1>3 DEF FinishDatabaseStep
  <2> QED BY <1>1, <2>1, QuietQueue
<1> QED BY <1>2, <1>3

\* Steps of transactions on the database thread.
LEMMA QuietDatabase ==
  ASSUME IInv, PerformTransactionTask \/ ContinueStatements
  PROVE  Quiet
<1>1. UNCHANGED <<handle, killed, openDatabaseSet, sync, requests, deletion>>
  BY DEF PerformTransactionTask, ContinueStatements
<1>2. /\ SameOthers(dbQueue, dbQueue') /\ dbThread'.at \in {"runStatements", "return"}
      /\ dbThread.at \in {"loop", "runStatements"}
  <2>1. CASE ContinueStatements
    <3>1. PICK o \in RunStatements(txn[dbThread.transaction]) : FinishDatabaseStep(dbThread.transaction, o, dbQueue)
      BY <2>1 DEF ContinueStatements
    <3>2. dbThread.at = "runStatements"
      BY <2>1 DEF ContinueStatements
    <3> QED BY <3>1, <3>2, QueuedTasks, QuietFinish
  <2>2. CASE PerformTransactionTask
    <3>1. PICK t, queue : t = Head(dbQueue).transaction /\ queue = Tail(dbQueue)
      OBVIOUS
    <3>2. Takable("transaction")
      BY <2>2 DEF PerformTransactionTask
    <3>3. t \in Created /\ queue \in Seq(Tasks) /\ Head(dbQueue).handle = HandleOf(t)
      BY <3>1, <3>2, TransactionTaskTaken DEF Taken
    <3>4. dbThread.at = "loop" /\ dbQueue # << >> /\ Head(dbQueue).kind = "transaction"
      BY <3>2 DEF Takable, Loop
    <3>5. SameOthers(dbQueue, queue)
      BY <3>1, <3>4, QueuedTasks, OthersTail
    <3>6. \/ \E o : FinishDatabaseStep(t, o, queue)
          \/ /\ ProcessPending(NameOf(HandleOf(t)), Enqueue(InfoFor(NameOf(HandleOf(t))), t), txn, queue)
             /\ dbThread' = [at |-> "return", transaction |-> t]
      BY <2>2, <3>1, <3>3 DEF PerformTransactionTask
    <3>7. CASE \E o : FinishDatabaseStep(t, o, queue)
      <4>1. PICK o : FinishDatabaseStep(t, o, queue)
        BY <3>7
      <4>2. SameOthers(queue, dbQueue') /\ dbThread'.at \in {"runStatements", "return"}
        BY <3>3, <4>1, QuietFinish
      <4> QED BY <3>4, <3>5, <4>2 DEF SameOthers
    <3>8. CASE /\ ProcessPending(NameOf(HandleOf(t)), Enqueue(InfoFor(NameOf(HandleOf(t))), t), txn, queue)
               /\ dbThread' = [at |-> "return", transaction |-> t]
      <4>1. PICK n : n = NameOf(HandleOf(t))
        OBVIOUS
      <4>2. PICK old : old = InfoFor(n)
        OBVIOUS
      <4>3. PICK info : info = Enqueue(old, t)
        OBVIOUS
      <4>4. old \in CoordinationInfos /\ t \in Transactions
        BY <3>3, <4>2, InfoForOK DEF InfoOK, IInv, TransactionsOK
      <4>5. info \in CoordinationInfos
        <5>1. PICK pending : pending = old.pendingTransactions
          OBVIOUS
        <5>2. pending \in Seq(Transactions)
          BY <4>4, <5>1 DEF CoordinationInfos
        <5>3. PICK longer : longer = Append(pending, t)
          OBVIOUS
        <5>4. longer \in Seq(Transactions)
          BY <4>4, <5>2, <5>3
        <5>5. info = [old EXCEPT !.pendingTransactions = longer]
          BY <4>3, <5>1, <5>3 DEF Enqueue
        <5> QED BY <4>4, <5>4, <5>5 DEF CoordinationInfos
      <4>6. PICK xs : xs = txn
        OBVIOUS
      <4>7. ProcessPending(n, info, xs, queue)
        BY <3>8, <4>1, <4>2, <4>3, <4>6
      <4>8. SameOthers(queue, dbQueue')
        BY <3>3, <4>5, <4>7, QuietGranting
      <4> QED BY <3>4, <3>5, <3>8, <4>8 DEF SameOthers
    <3> QED BY <3>6, <3>7, <3>8
  <2> QED BY <2>1, <2>2
<1> QED BY <1>1, <1>2 DEF Quiet, Closing, SameStanding

\* Transactions are queued on their handle, and go from there to the thread.
LEMMA QuietScheduling ==
  ASSUME NEW d \in Databases
  PROVE  LET s == ScheduleTransaction(d) IN
         /\ SameStanding(s[1], d)
         /\ s[2] = << >> \/ (d.transactionQueue # << >> /\ s[2] = <<TransactionTask(Head(d.transactionQueue))>>)
<1>1. CASE d.transactionQueueEnabled /\ d.transactionQueue # << >>
  BY <1>1 DEF ScheduleTransaction, Databases, SameStanding
<1>2. CASE ~(d.transactionQueueEnabled /\ d.transactionQueue # << >>)
  BY <1>2 DEF ScheduleTransaction, Databases, SameStanding
<1> QED BY <1>1, <1>2

\* transaction() and inProgressTransactionCompleted().
LEMMA QuietHandles ==
  ASSUME IInv, (\E t \in Transactions : RunTransaction(t)) \/ ReturnFromStep
  PROVE  Quiet
<1>1. ASSUME NEW h \in DOMAIN handle, NEW d, handle' = [handle EXCEPT ![h] = d], SameStanding(d, handle[h])
      PROVE  /\ DOMAIN handle' = DOMAIN handle
             /\ \A g \in DOMAIN handle : SameStanding(handle'[g], handle[g])
  BY <1>1 DEF SameStanding
<1>2. \A h \in DOMAIN handle : handle[h] \in Databases
  BY DEF IInv, HandlesOK
<1>3. \A t : TransactionTask(t).kind = "transaction"
  BY DEF TransactionTask
<1>4. ASSUME NEW t  PROVE SameOthers(dbQueue, dbQueue \o <<TransactionTask(t)>>)
  <2>1. PICK T : T = Tasks \cup {TransactionTask(t)}
    OBVIOUS
  <2>2. dbQueue \in Seq(T) /\ TransactionTask(t) \in T
    BY <2>1, QueuedTasks
  <2> QED BY <2>2, QuietQueue
<1>5. SameOthers(dbQueue, dbQueue) /\ dbQueue \o << >> = dbQueue
  BY QueuedTasks, QuietQueue
<1>6. CASE \E t \in Transactions : RunTransaction(t)
  <2>1. PICK t \in Transactions : RunTransaction(t)
    BY <1>6
  <2>2. PICK h : h = HandleOf(t)
    OBVIOUS
  <2>3. PICK queued : queued = [handle[h] EXCEPT !.transactionQueue = Append(@, t)]
    OBVIOUS
  <2>4. PICK s : s = IF queued.transactionInProgress THEN <<queued, << >> >> ELSE ScheduleTransaction(queued)
    OBVIOUS
  <2>5. h \in DOMAIN handle /\ handle' = [handle EXCEPT ![h] = s[1]] /\ dbQueue' = dbQueue \o s[2]
    BY <2>1, <2>2, <2>3, <2>4 DEF RunTransaction, Visible
  <2>6. UNCHANGED <<killed, dbThread, openDatabaseSet, sync, requests, deletion>>
    BY <2>1 DEF RunTransaction
  <2>7. queued \in Databases /\ SameStanding(queued, handle[h])
    <3>1. PICK q : q = handle[h].transactionQueue
      OBVIOUS
    <3>2. PICK longer : longer = Append(q, t)
      OBVIOUS
    <3>3. q \in Seq(Transactions)
      BY <1>2, <2>5, <3>1 DEF Databases
    <3>4. longer \in Seq(Transactions)
      BY <3>2, <3>3
    <3>5. queued = [handle[h] EXCEPT !.transactionQueue = longer]
      BY <2>3, <3>1, <3>2
    <3> QED BY <1>2, <2>5, <3>4, <3>5 DEF Databases, SameStanding
  <2>8. /\ SameStanding(s[1], handle[h])
        /\ s[2] = << >> \/ \E u : s[2] = <<TransactionTask(u)>>
    <3>1. CASE queued.transactionInProgress
      BY <2>4, <2>7, <3>1
    <3>2. CASE ~queued.transactionInProgress
      <4>1. s = ScheduleTransaction(queued)
        BY <2>4, <3>2
      <4> QED BY <2>7, <4>1, QuietScheduling DEF SameStanding
    <3> QED BY <3>1, <3>2
  <2>9. SameOthers(dbQueue, dbQueue')
    BY <1>4, <1>5, <2>5, <2>8
  <2>10. DOMAIN handle' = DOMAIN handle /\ \A g \in DOMAIN handle : SameStanding(handle'[g], handle[g])
    BY <1>1, <2>5, <2>8
  <2> QED BY <2>6, <2>9, <2>10 DEF Quiet, Closing
<1>7. CASE ReturnFromStep
  <2>1. /\ dbThread.at = "return" /\ dbThread'.at = "loop"
        /\ UNCHANGED <<killed, openDatabaseSet, sync, requests, deletion>>
    BY <1>7 DEF ReturnFromStep, Loop
  <2>2. PICK h : h = HandleOf(dbThread.transaction)
    OBVIOUS
  <2>3. PICK s : s = ScheduleTransaction(handle[h])
    OBVIOUS
  <2>4. h \in DOMAIN handle
    BY <2>1, <2>2 DEF IInv, ThreadsOK, TransactionsOK
  <2>5. /\ SameStanding(s[1], handle[h])
        /\ s[2] = << >> \/ \E u : s[2] = <<TransactionTask(u)>>
    BY <1>2, <2>3, <2>4, QuietScheduling
  <2>6. \/ handle' = [handle EXCEPT ![h] = s[1]] /\ dbQueue' = dbQueue \o s[2]
        \/ handle' = handle /\ dbQueue' = dbQueue
    BY <1>7, <2>2, <2>3 DEF ReturnFromStep
  <2>7. SameOthers(dbQueue, dbQueue')
    <3>1. dbQueue' = dbQueue \/ dbQueue' = dbQueue \o s[2]
      BY <2>6
    <3>2. dbQueue' = dbQueue \/ \E u : dbQueue' = dbQueue \o <<TransactionTask(u)>>
      BY <1>5, <2>5, <3>1
    <3> QED BY <1>4, <1>5, <3>2
  <2>8. DOMAIN handle' = DOMAIN handle /\ \A g \in DOMAIN handle : SameStanding(handle'[g], handle[g])
    BY <1>1, <2>4, <2>5, <2>6 DEF SameStanding
  <2> QED BY <2>1, <2>7, <2>8 DEF Quiet, Closing
<1> QED BY <1>6, <1>7

\* Steps that have nothing to do with the queue.
LEMMA QuietOthers ==
  ASSUME IInv, (\E h \in Handles : Interrupt(h)) \/ UNCHANGED vars
  PROVE  Quiet
<1>1. SameOthers(dbQueue, dbQueue)
  BY QueuedTasks, QuietQueue
<1>2. CASE \E h \in Handles : Interrupt(h)
  <2>1. PICK h \in Handles : Interrupt(h)
    BY <1>2
  <2>2. /\ UNCHANGED <<killed, dbThread, dbQueue, openDatabaseSet, sync, deletion>> /\ requests' \subseteq requests
        /\ handle' = [handle EXCEPT ![h].interrupted = TRUE]
    BY <2>1 DEF Interrupt, Takes
  <2>3. \A g \in DOMAIN handle : handle[g] \in Databases
    BY DEF IInv, HandlesOK
  <2>5. ASSUME NEW d \in Databases  PROVE SameStanding([d EXCEPT !.interrupted = TRUE], d)
    BY DEF Databases, SameStanding
  <2>6. ASSUME NEW g \in DOMAIN handle  PROVE SameStanding(handle'[g], handle[g])
    <3>1. handle'[g] = handle[g] \/ handle'[g] = [handle[g] EXCEPT !.interrupted = TRUE]
      BY <2>2
    <3> QED BY <2>3, <2>5, <3>1 DEF SameStanding
  <2>4. DOMAIN handle' = DOMAIN handle /\ \A g \in DOMAIN handle : SameStanding(handle'[g], handle[g])
    BY <2>2, <2>6
  <2> QED BY <1>1, <2>2, <2>4 DEF Quiet, Closing
<1>3. CASE UNCHANGED vars
  BY <1>1, <1>3 DEF vars, Quiet, Closing, SameStanding
<1> QED BY <1>2, <1>3

\* The context thread schedules a task and waits for it.
LEMMA ScheduledByContext ==
  ASSUME IInv, NEW kind, kind # "transaction", NEW h, ScheduleAndWait(kind, h, "context"),
         NEW task, task = Task(kind, h, "context")
  PROVE  /\ OtherTasks(dbQueue') = OtherTasks(dbQueue) \cup {task}
         /\ OtherTasks(dbQueue) = {} => AtMostOneOther(dbQueue')
         /\ task.kind = kind /\ task.handle = h /\ task.synchronizer = "context"
         /\ sync'["context"] = "waiting" /\ sync'["main"] = sync["main"]
<1>1. task.kind = kind /\ task.handle = h /\ task.synchronizer = "context"
  BY DEF Task
<1>2. PICK T : T = Tasks \cup {task}
  OBVIOUS
<1>3. dbQueue \in Seq(T) /\ task \in T
  BY <1>2, QueuedTasks
<1>4. dbQueue' = <<task>> \o dbQueue /\ sync' = [sync EXCEPT !["context"] = "waiting"]
  BY DEF ScheduleAndWait
<1>5. sync'["context"] = "waiting" /\ sync'["main"] = sync["main"]
  <2>1. "context" \in DOMAIN sync /\ "main" \in DOMAIN sync
    BY DEF IInv, ThreadsOK, Threads
  <2> QED BY <1>4, <2>1
<1>6. /\ OtherTasks(dbQueue') = OtherTasks(dbQueue) \cup {task}
      /\ OtherTasks(dbQueue) = {} => AtMostOneOther(dbQueue')
  BY <1>1, <1>3, <1>4, OthersPrepended
<1> QED BY <1>1, <1>5, <1>6

\* The thread takes a task.
LEMMA TakenOther ==
  ASSUME IInv, NEW kind, kind # "transaction", Takable(kind), dbQueue' = Tail(dbQueue),
         NEW task, task = Head(dbQueue)
  PROVE  /\ OtherTasks(dbQueue) = OtherTasks(dbQueue') \cup {task}
         /\ AtMostOneOther(dbQueue) => OtherTasks(dbQueue') = {} /\ AtMostOneOther(dbQueue')
         /\ task \in Tasks /\ TaskOK(task) /\ task.kind = kind
         /\ dbThread.at = "loop" /\ ~Closing /\ ~killed
<1>1. dbThread = Loop /\ ~killed /\ dbQueue # << >> /\ task.kind = kind
  BY DEF Takable
<1>2. dbThread.at = "loop" /\ ~Closing
  BY <1>1 DEF Loop, Closing
<1>3. task \in ToSet(dbQueue) /\ task \in Tasks
  BY <1>1, QueuedTasks, TailOfQueue
<1>4. TaskOK(task)
  BY <1>3 DEF IInv, QueuesOK
<1>5. /\ OtherTasks(dbQueue) = OtherTasks(dbQueue') \cup {task}
      /\ AtMostOneOther(dbQueue) => OtherTasks(dbQueue') = {} /\ AtMostOneOther(dbQueue')
  BY <1>1, QueuedTasks, OthersTail
<1> QED BY <1>1, <1>2, <1>3, <1>4, <1>5

\* taskCompleted().
LEMMA CompletedSync ==
  ASSUME IInv, NEW p, Complete(p)
  PROVE  \A r \in Threads : sync'[r] = IF r = p THEN "completed" ELSE sync[r]
  BY DEF Complete

\* What a close() in progress leaves in the queue.
LEMMA UnscheduledOthers ==
  ASSUME IInv, UnscheduleDatabaseTasks, NEW h, h = dbThread.handle
  PROVE  /\ OtherTasks(dbQueue') = {task \in OtherTasks(dbQueue) : task.handle # h}
         /\ OtherTasks(dbQueue) = {} => AtMostOneOther(dbQueue')
         /\ dbThread'.at = "unregister" /\ dbThread'.handle = h
         /\ dbThread'.synchronizer = dbThread.synchronizer /\ dbThread'.then = dbThread.then
         /\ Closing /\ Closing'
<1>1. dbQueue' = TasksOfOthers(dbQueue, h)
  BY DEF UnscheduleDatabaseTasks
<1>2. ToSet(dbQueue') = {a \in ToSet(dbQueue) : a.handle # h}
  BY <1>1, QueuedTasks, TasksOfOthersProperties
<1>3. OtherTasks(dbQueue') = {task \in OtherTasks(dbQueue) : task.handle # h}
  BY <1>2 DEF OtherTasks
<1>4. ASSUME OtherTasks(dbQueue') = {}  PROVE AtMostOneOther(dbQueue')
  BY <1>4 DEF AtMostOneOther, OtherTasks, ToSet
<1>5. dbThread \in [at: {"unschedule", "unregister"}, handle: DOMAIN handle,
                    synchronizer: Threads \cup {"none"}, then: {"loop", "exit"}]
  BY DEF UnscheduleDatabaseTasks, IInv, ThreadsOK
<1>6. /\ dbThread'.at = "unregister" /\ dbThread'.handle = h
      /\ dbThread'.synchronizer = dbThread.synchronizer /\ dbThread'.then = dbThread.then
      /\ dbThread.at = "unschedule"
  BY <1>5 DEF UnscheduleDatabaseTasks
<1> QED BY <1>3, <1>4, <1>6 DEF Closing

\* The record of a handle, when another field is set.
LEMMA OtherFields ==
  ASSUME NEW d \in Databases, NEW a, NEW b, NEW c
  PROVE  /\ SameStanding([d EXCEPT !.deleted = a], d)
         /\ LET e == [d EXCEPT !.registered = a]
            IN  e.registered = a /\ e.returned = d.returned /\ e.opening = d.opening
         /\ LET e == [d EXCEPT !.opening = a]
            IN  e.registered = d.registered /\ e.returned = d.returned /\ e.opening = a
         /\ LET e == [d EXCEPT !.opened = a, !.returned = b]
            IN  e.registered = d.registered /\ e.returned = b /\ e.opening = d.opening
         /\ SameStanding([d EXCEPT !.transactionQueueEnabled = a, !.transactionInProgress = b, !.opened = c], d)
  BY DEF Databases, SameStanding

\* DatabaseOpenTask has opened handle h, or not.
OpenedIs(h, b) == handle' = [handle EXCEPT ![h].opened = b, ![h].returned = b]

\* Which handles the tracker knows, and which ones scripts have, after each
\* action that changes a handle.
LEMMA HandlesAfter ==
  ASSUME IInv
  PROVE  /\ \A h \in DOMAIN handle :
              \/ handle' = [handle EXCEPT ![h].deleted = TRUE]
              \/ \E s, then : Close(h, s, then)
              => DOMAIN handle' = DOMAIN handle /\ \A g \in DOMAIN handle : SameStanding(handle'[g], handle[g])
         /\ \A h \in DOMAIN handle : \A b \in BOOLEAN :
              OpenedIs(h, b)
              => /\ DOMAIN handle' = DOMAIN handle
                 /\ \A g \in DOMAIN handle : /\ handle'[g].registered = handle[g].registered
                                             /\ handle'[g].returned = IF g = h THEN b ELSE handle[g].returned
                                             /\ handle'[g].opening = handle[g].opening
         /\ \A h \in DOMAIN handle :
              handle' = [handle EXCEPT ![h].registered = FALSE]
              => /\ DOMAIN handle' = DOMAIN handle
                 /\ \A g \in DOMAIN handle : /\ handle'[g].registered <=> handle[g].registered /\ g # h
                                             /\ handle'[g].returned = handle[g].returned
                                             /\ handle'[g].opening = handle[g].opening
         /\ \A h \in DOMAIN handle :
              handle' = [handle EXCEPT ![h].opening = FALSE]
              => /\ DOMAIN handle' = DOMAIN handle
                 /\ \A g \in DOMAIN handle : /\ handle'[g].registered = handle[g].registered
                                             /\ handle'[g].returned = handle[g].returned
                                             /\ handle'[g].opening <=> handle[g].opening /\ g # h
<1>1. \A h \in DOMAIN handle : handle[h] \in Databases /\ handle[h].registered \in BOOLEAN /\ handle[h].opening \in BOOLEAN
  BY DEF IInv, HandlesOK, Databases
<1>2. ASSUME NEW h \in DOMAIN handle, NEW d, handle' = [handle EXCEPT ![h] = d]
      PROVE  /\ DOMAIN handle' = DOMAIN handle
             /\ \A g \in DOMAIN handle : handle'[g] = IF g = h THEN d ELSE handle[g]
  BY <1>2
<1>3. ASSUME NEW h \in DOMAIN handle,
             handle' = [handle EXCEPT ![h].deleted = TRUE] \/ \E s, then : Close(h, s, then)
      PROVE  DOMAIN handle' = DOMAIN handle /\ \A g \in DOMAIN handle : SameStanding(handle'[g], handle[g])
  <2>1. PICK d : handle' = [handle EXCEPT ![h] = d] /\ SameStanding(d, handle[h])
    <3>1. PICK d, e : /\ d = [handle[h] EXCEPT !.deleted = TRUE]
                      /\ e = [handle[h] EXCEPT !.transactionQueueEnabled = FALSE,
                                               !.transactionInProgress = FALSE, !.opened = FALSE]
      OBVIOUS
    <3>2. SameStanding(d, handle[h]) /\ SameStanding(e, handle[h])
      BY <1>1, <3>1, OtherFields
    <3>3. handle' = [handle EXCEPT ![h] = d] \/ handle' = [handle EXCEPT ![h] = e]
      BY <1>3, <3>1 DEF Close
    <3> QED BY <3>2, <3>3
  <2> QED BY <1>2, <2>1 DEF SameStanding
<1>4. ASSUME NEW h \in DOMAIN handle, NEW b \in BOOLEAN, OpenedIs(h, b)
      PROVE  /\ DOMAIN handle' = DOMAIN handle
             /\ \A g \in DOMAIN handle : /\ handle'[g].registered = handle[g].registered
                                         /\ handle'[g].returned = IF g = h THEN b ELSE handle[g].returned
                                         /\ handle'[g].opening = handle[g].opening
  <2>1. PICK d : d = [handle[h] EXCEPT !.opened = b, !.returned = b]
    OBVIOUS
  <2>2. d.registered = handle[h].registered /\ d.returned = b /\ d.opening = handle[h].opening
    BY <1>1, <2>1, OtherFields DEF SameStanding
  <2>3. handle' = [handle EXCEPT ![h] = d]
    BY <1>4, <2>1 DEF OpenedIs
  <2> QED BY <1>2, <2>2, <2>3
<1>5. ASSUME NEW h \in DOMAIN handle, handle' = [handle EXCEPT ![h].registered = FALSE]
      PROVE  /\ DOMAIN handle' = DOMAIN handle
             /\ \A g \in DOMAIN handle : /\ handle'[g].registered <=> handle[g].registered /\ g # h
                                         /\ handle'[g].returned = handle[g].returned
                                         /\ handle'[g].opening = handle[g].opening
  <2>1. PICK d : d = [handle[h] EXCEPT !.registered = FALSE]
    OBVIOUS
  <2>2. d.registered = FALSE /\ d.returned = handle[h].returned /\ d.opening = handle[h].opening
    BY <1>1, <2>1, OtherFields DEF SameStanding
  <2>3. handle' = [handle EXCEPT ![h] = d]
    BY <1>5, <2>1
  <2> QED BY <1>1, <1>2, <2>2, <2>3
<1>6. ASSUME NEW h \in DOMAIN handle, handle' = [handle EXCEPT ![h].opening = FALSE]
      PROVE  /\ DOMAIN handle' = DOMAIN handle
             /\ \A g \in DOMAIN handle : /\ handle'[g].registered = handle[g].registered
                                         /\ handle'[g].returned = handle[g].returned
                                         /\ handle'[g].opening <=> handle[g].opening /\ g # h
  <2>1. PICK d : d = [handle[h] EXCEPT !.opening = FALSE]
    OBVIOUS
  <2>2. d.registered = handle[h].registered /\ d.returned = handle[h].returned /\ d.opening = FALSE
    BY <1>1, <2>1, OtherFields DEF SameStanding
  <2>3. handle' = [handle EXCEPT ![h] = d]
    BY <1>6, <2>1
  <2> QED BY <1>1, <1>2, <2>2, <2>3
<1> QED BY <1>3, <1>4, <1>5, <1>6

-----------------------------------------------------------------------------
(* A document: its main thread is its context thread, and deletes databases *)
(* through the tracker.                                                     *)

InDocument ==
  MainThread = "context" /\ \A h \in Handles : <<"closeImmediately", h>> \notin Requests

\* The context thread is the only one that waits, for one task at a time; while
\* it waits for a close nothing else is in progress.  The database that is
\* closed is recorded as open until it is unscheduled.
DocumentQueue ==
  /\ AtMostOneOther(dbQueue)
  /\ \A task \in OtherTasks(dbQueue) :
       /\ task.synchronizer = "context" /\ sync["context"] = "waiting" /\ ~Closing
       /\ task.kind = "close" => task.handle \in openDatabaseSet /\ task.handle \notin deletion.handles
  /\ Closing => /\ dbThread.synchronizer = "context" /\ sync["context"] = "waiting"
                /\ dbThread.handle \notin deletion.handles
  /\ sync["context"] = "waiting" => Closing \/ OtherTasks(dbQueue) # {}
  /\ dbThread.at = "unschedule" => dbThread.handle \in openDatabaseSet

\* The tracker knows the databases that are recorded as open, and one that is
\* being opened or closed; those it is asked to delete are open.
DocumentHandles ==
  /\ \A h \in DOMAIN handle : handle[h].registered =>
       \/ h \in openDatabaseSet
       \/ Closing /\ dbThread.handle = h
       \/ ~handle[h].returned /\ (sync["context"] # "none" \/ handle[h].opening)
  /\ deletion.handles \subseteq openDatabaseSet

\* The context thread is between constructing a handle and scheduling its open
\* task, or between asking whether the thread runs and scheduling a close task.
\* It does nothing else there: nobody waits and nobody stops the thread.
Pausing == deletion.checked # {} \/ \E h \in DOMAIN handle : handle[h].opening
DocumentPauses ==
  Pausing => /\ ~killed /\ sync["context"] = "none"
             /\ \A g, h \in DOMAIN handle : handle[g].opening /\ handle[h].opening => g = h
             /\ (\E h \in DOMAIN handle : handle[h].opening) => deletion = NoDeletion
             /\ deletion.checked \subseteq openDatabaseSet \ deletion.handles

DocumentInv ==
  /\ requests \subseteq Requests /\ sync["main"] = "none" /\ DocumentPauses
  /\ killed => sync["context"] = "none" /\ (Closing => dbThread.synchronizer = "none")
  /\ ~killed => DocumentQueue /\ DocumentHandles

\* Nothing is queued at first.
LEMMA DocumentInit ==
  ASSUME Init
  PROVE  DocumentInv
<1>1. OtherTasks(<< >>) = {} /\ AtMostOneOther(<< >>)
  BY DEF OtherTasks, AtMostOneOther, ToSet
<1>2. DOMAIN handle = {} /\ deletion.checked = {}
  BY DEF Init, NoDeletion
<1>3. DocumentPauses
  BY <1>2 DEF DocumentPauses, Pausing
<1> QED BY <1>1, <1>2, <1>3 DEF Init, DocumentInv, DocumentQueue, DocumentHandles, Closing, Loop, NoDeletion, Threads

\* A step between two such places keeps the context thread out of them.
LEMMA NotPausing ==
  ASSUME ~Pausing, deletion'.checked = {}, DOMAIN handle' = DOMAIN handle,
         \A h \in DOMAIN handle : handle'[h].opening = handle[h].opening
  PROVE  DocumentPauses'
  BY DEF Pausing, DocumentPauses

\* Where the context thread waits, is free, or has stopped the thread, it is in
\* neither of them.
LEMMA DocumentBusy ==
  ASSUME DocumentInv, killed \/ sync["context"] # "none"
  PROVE  ~Pausing /\ deletion.checked = {}
  BY DEF DocumentInv, DocumentPauses, Pausing

\* Steps of transactions keep the invariant.
LEMMA DocumentQuiet ==
  ASSUME IInv, DocumentInv, Quiet
  PROVE  DocumentInv'
<1>1. /\ killed' = killed /\ sync' = sync /\ deletion' = deletion /\ openDatabaseSet' = openDatabaseSet
      /\ DOMAIN handle' = DOMAIN handle
      /\ \A h \in DOMAIN handle : /\ handle'[h].registered = handle[h].registered
                                  /\ handle'[h].returned = handle[h].returned
                                  /\ handle'[h].opening = handle[h].opening
  BY DEF Quiet, SameStanding
<1>2. OtherTasks(dbQueue') = OtherTasks(dbQueue) /\ (AtMostOneOther(dbQueue) => AtMostOneOther(dbQueue'))
  BY DEF Quiet, SameOthers
<1>3. /\ Closing' <=> Closing
      /\ Closing => dbThread' = dbThread
      /\ dbThread'.at = "unschedule" => dbThread' = dbThread
  BY DEF Quiet, Closing
<1>4. requests' \subseteq Requests
  BY DEF Quiet, DocumentInv
<1>5. DocumentQueue => DocumentQueue'
  BY <1>1, <1>2, <1>3 DEF DocumentQueue
<1>6. DocumentHandles => DocumentHandles'
  BY <1>1, <1>3 DEF DocumentHandles
<1>7. DocumentPauses => DocumentPauses'
  BY <1>1 DEF DocumentPauses, Pausing
<1> QED BY <1>1, <1>3, <1>4, <1>5, <1>6, <1>7 DEF DocumentInv

\* The thread that waited goes on.
LEMMA DocumentWaits ==
  ASSUME IInv, DocumentInv, NEW p \in Threads, WaitForTaskCompletion(p)
  PROVE  DocumentInv'
<1>1. /\ UNCHANGED <<dbQueue, killed, dbThread, openDatabaseSet, requests, deletion>>
      /\ sync[p] = "completed" /\ sync' = [sync EXCEPT ![p] = "none"]
  BY DEF WaitForTaskCompletion
<1>2. p = "context" /\ ~killed /\ sync["context"] # "waiting" /\ sync'["context"] = "none" /\ sync'["main"] = "none"
  BY <1>1 DEF DocumentInv, Threads, IInv, ThreadsOK
<1>3. Closing' <=> Closing
  BY <1>1 DEF Closing
<1>4. DocumentQueue'
  BY <1>1, <1>2, <1>3 DEF DocumentInv, DocumentQueue
<1>5. DocumentHandles'
  <2>1. DOMAIN handle' = DOMAIN handle
    BY DEF WaitForTaskCompletion
  <2>2. ASSUME NEW h \in DOMAIN handle, handle'[h].registered
        PROVE  handle[h].registered /\ handle[h].returned
    <3>1. handle[h] \in Databases
      BY DEF IInv, HandlesOK
    <3>2. handle'[h] = [handle[h] EXCEPT !.registered = @ /\ (p = "context" => handle[h].returned)]
      BY DEF WaitForTaskCompletion
    <3>3. handle'[h].registered = (handle[h].registered /\ (p = "context" => handle[h].returned))
      BY <3>1, <3>2 DEF Databases
    <3> QED BY <1>2, <2>2, <3>3
  <2> QED BY <1>1, <1>2, <1>3, <2>1, <2>2 DEF DocumentInv, DocumentHandles
<1>6. DocumentPauses'
  <2>1. ~Pausing /\ deletion.checked = {}
    BY <1>1, <1>2, DocumentBusy
  <2>2. DOMAIN handle' = DOMAIN handle
    BY DEF WaitForTaskCompletion
  <2>3. ASSUME NEW h \in DOMAIN handle  PROVE handle'[h].opening = handle[h].opening
    <3>1. handle[h] \in Databases
      BY DEF IInv, HandlesOK
    <3>2. handle'[h] = [handle[h] EXCEPT !.registered = @ /\ (p = "context" => handle[h].returned)]
      BY DEF WaitForTaskCompletion
    <3> QED BY <3>1, <3>2 DEF Databases
  <2> QED BY <1>1, <2>1, <2>2, <2>3, NotPausing
<1> QED BY <1>1, <1>2, <1>4, <1>5, <1>6 DEF DocumentInv

\* Nothing is queued while the context thread is free.
LEMMA DocumentFree ==
  ASSUME IInv, DocumentInv, ~killed, sync["context"] = "none"
  PROVE  /\ OtherTasks(dbQueue) = {} /\ ~Closing /\ dbThread.at # "unschedule"
         /\ \A h \in DOMAIN handle : handle[h].registered => h \in openDatabaseSet \/ handle[h].opening
<1>1. ~Closing /\ dbThread.at # "unschedule"
  BY DEF DocumentInv, DocumentQueue, Closing
<1> QED BY <1>1 DEF DocumentInv, DocumentQueue, DocumentHandles

\* openDatabase constructs the handle.
LEMMA DocumentOpens ==
  ASSUME InDocument, IInv, DocumentInv, NEW h \in Handles, OpenDatabase(h)
  PROVE  DocumentInv'
<1>1. /\ UNCHANGED <<killed, dbThread, dbQueue, openDatabaseSet, requests, deletion, sync>>
      /\ ~killed /\ sync["context"] = "none" /\ deletion = NoDeletion
      /\ \A g \in DOMAIN handle : ~handle[g].opening
      /\ handle' = [g \in DOMAIN handle \cup {h} |-> IF g = h THEN NewDatabase ELSE handle[g]]
      /\ h \notin DOMAIN handle
  BY DEF OpenDatabase, ContextIsFree, InDocument
<1>2. DOMAIN handle' = DOMAIN handle \cup {h} /\ ~handle'[h].returned /\ handle'[h].opening
  BY <1>1 DEF NewDatabase
<1>3. \A g \in DOMAIN handle : handle'[g] = handle[g]
  BY <1>1
<1>4. Closing' <=> Closing
  BY <1>1 DEF Closing
<1>5. DocumentQueue'
  BY <1>1, <1>4 DEF DocumentInv, DocumentQueue
<1>6. DocumentHandles'
  <2>1. \A g \in DOMAIN handle : handle[g].registered => g \in openDatabaseSet
    BY <1>1, DocumentFree
  <2>2. \A g \in DOMAIN handle' : g = h \/ g \in DOMAIN handle
    BY <1>2
  <2>3. deletion'.handles = {}
    BY <1>1 DEF NoDeletion
  <2> QED BY <1>1, <1>2, <1>3, <2>1, <2>2, <2>3 DEF DocumentHandles
<1>7. DocumentPauses'
  <2>1. \A g \in DOMAIN handle' : handle'[g].opening => g = h
    BY <1>1, <1>2, <1>3
  <2>2. deletion'.checked = {}
    BY <1>1 DEF NoDeletion
  <2> QED BY <1>1, <2>1, <2>2 DEF DocumentPauses
<1> QED BY <1>1, <1>5, <1>6, <1>7 DEF DocumentInv

\* openAndVerifyVersion schedules the open task and waits.
LEMMA DocumentSchedulesOpen ==
  ASSUME InDocument, IInv, DocumentInv, NEW h \in Handles, OpenAndVerifyVersion(h)
  PROVE  DocumentInv'
<1>1. /\ UNCHANGED <<killed, dbThread, openDatabaseSet, requests, deletion>>
      /\ h \in DOMAIN handle /\ handle[h].opening /\ handle' = [handle EXCEPT ![h].opening = FALSE]
      /\ ScheduleAndWait("open", h, "context")
  BY DEF OpenAndVerifyVersion
<1>2. /\ ~killed /\ sync["context"] = "none" /\ deletion = NoDeletion
      /\ \A g \in DOMAIN handle : handle[g].opening => g = h
  BY <1>1 DEF DocumentInv, DocumentPauses, Pausing
<1>3. OtherTasks(dbQueue) = {} /\ ~Closing /\ dbThread.at # "unschedule"
  BY <1>2, DocumentFree
<1>4. PICK task : task = Task("open", h, "context")
  OBVIOUS
<1>5. /\ OtherTasks(dbQueue') = {task} /\ AtMostOneOther(dbQueue')
      /\ task.kind = "open" /\ task.synchronizer = "context"
      /\ sync'["context"] = "waiting" /\ sync'["main"] = sync["main"]
  <2>1. ScheduleAndWait("open", h, "context")
    BY <1>1
  <2>2. /\ OtherTasks(dbQueue') = OtherTasks(dbQueue) \cup {task}
        /\ OtherTasks(dbQueue) = {} => AtMostOneOther(dbQueue')
        /\ task.kind = "open" /\ task.handle = h /\ task.synchronizer = "context"
        /\ sync'["context"] = "waiting" /\ sync'["main"] = sync["main"]
    BY <1>4, <2>1, ScheduledByContext
  <2> QED BY <1>3, <2>2
<1>6. ~Closing'
  BY <1>1, <1>3 DEF Closing
<1>7. /\ DOMAIN handle' = DOMAIN handle
      /\ \A g \in DOMAIN handle : /\ handle'[g].registered = handle[g].registered
                                  /\ handle'[g].returned = handle[g].returned
                                  /\ handle'[g].opening <=> handle[g].opening /\ g # h
  BY <1>1, HandlesAfter
<1>8. DocumentQueue'
  BY <1>1, <1>3, <1>5, <1>6 DEF DocumentQueue
<1>9. DocumentHandles'
  <2>1. DocumentHandles
    BY <1>2 DEF DocumentInv
  <2> QED BY <1>1, <1>3, <1>5, <1>7, <2>1 DEF DocumentHandles
<1>10. DocumentPauses'
  <2>1. deletion'.checked = {}
    BY <1>1, <1>2 DEF NoDeletion
  <2> QED BY <1>2, <1>7, <2>1 DEF DocumentPauses, Pausing
<1> QED BY <1>1, <1>2, <1>5, <1>8, <1>9, <1>10 DEF DocumentInv

\* The inspector schedules its task and waits.
LEMMA DocumentLists ==
  ASSUME InDocument, IInv, DocumentInv, NEW h \in Handles, TableNames(h)
  PROVE  DocumentInv'
<1>1. /\ UNCHANGED <<handle, killed, dbThread, openDatabaseSet, deletion>> /\ requests' \subseteq requests
      /\ ~killed /\ sync["context"] = "none" /\ deletion = NoDeletion
      /\ \A g \in DOMAIN handle : ~handle[g].opening
      /\ ScheduleAndWait("tableNames", h, "context")
  BY DEF TableNames, ContextIsFree, InDocument, Takes
<1>2. OtherTasks(dbQueue) = {} /\ ~Closing /\ dbThread.at # "unschedule"
  BY <1>1, DocumentFree
<1>3. PICK task : task = Task("tableNames", h, "context")
  OBVIOUS
<1>4. /\ OtherTasks(dbQueue') = {task} /\ AtMostOneOther(dbQueue')
      /\ task.kind = "tableNames" /\ task.synchronizer = "context"
      /\ sync'["context"] = "waiting" /\ sync'["main"] = sync["main"]
  <2>1. /\ OtherTasks(dbQueue') = OtherTasks(dbQueue) \cup {task}
        /\ OtherTasks(dbQueue) = {} => AtMostOneOther(dbQueue')
        /\ task.kind = "tableNames" /\ task.handle = h /\ task.synchronizer = "context"
        /\ sync'["context"] = "waiting" /\ sync'["main"] = sync["main"]
    <3>1. ScheduleAndWait("tableNames", h, "context")
      BY <1>1
    <3> QED BY <1>3, <3>1, ScheduledByContext
  <2> QED BY <1>2, <2>1
<1>5. ~Closing'
  BY <1>1, <1>2 DEF Closing
<1>6. DocumentQueue'
  BY <1>1, <1>2, <1>4, <1>5 DEF DocumentQueue
<1>7. DocumentHandles'
  <2>1. deletion'.handles = {}
    BY <1>1 DEF NoDeletion
  <2>2. \A g \in DOMAIN handle : handle[g].registered => g \in openDatabaseSet
    BY <1>1, DocumentFree
  <2> QED BY <1>1, <2>1, <2>2 DEF DocumentHandles
<1>8. DocumentPauses'
  <2>1. deletion'.checked = {}
    BY <1>1 DEF NoDeletion
  <2> QED BY <1>1, <2>1 DEF DocumentPauses, Pausing
<1> QED BY <1>1, <1>4, <1>6, <1>7, <1>8 DEF DocumentInv

\* The context thread asks for termination only while it does not wait.
LEMMA DocumentTerminates ==
  ASSUME InDocument, IInv, DocumentInv, RequestTermination
  PROVE  DocumentInv'
<1>1. /\ UNCHANGED <<handle, deletion, dbThread, sync>> /\ requests' \subseteq requests
      /\ ~killed /\ killed' = TRUE /\ sync["context"] = "none"
      /\ deletion = NoDeletion /\ \A h \in DOMAIN handle : ~handle[h].opening
  BY DEF RequestTermination, ContextIsFree, InDocument, Takes
<1>2. ~Closing
  BY <1>1, DocumentFree
<1>3. ~Closing'
  BY <1>1, <1>2 DEF Closing
<1>4. DocumentPauses'
  BY <1>1 DEF DocumentPauses, Pausing, NoDeletion
<1> QED BY <1>1, <1>3, <1>4 DEF DocumentInv

\* deleteDatabase, before and after its loop.
LEMMA DocumentDeletes ==
  ASSUME InDocument, IInv, DocumentInv, (\E n : DeleteDatabase(n)) \/ DoneDeletingDatabase
  PROVE  DocumentInv'
<1>1. /\ UNCHANGED <<handle, dbQueue, killed, dbThread, openDatabaseSet, sync>> /\ requests' \subseteq requests
      /\ sync["context"] = "none" /\ deletion'.checked = {} /\ \A h \in DOMAIN handle : ~handle[h].opening
      /\ \A g \in deletion'.handles : g \in DOMAIN handle /\ handle[g].registered
  <2>1. ASSUME NEW n, DeleteDatabase(n)
        PROVE  /\ UNCHANGED <<handle, dbQueue, killed, dbThread, openDatabaseSet, sync>> /\ requests' \subseteq requests
               /\ sync["context"] = "none" /\ deletion'.checked = {}
               /\ \A h \in DOMAIN handle : ~handle[h].opening
               /\ deletion'.handles = {h \in DOMAIN handle : handle[h].registered /\ NameOf(h) = n}
    BY <2>1 DEF DeleteDatabase, MainThreadIsFree, ContextIsFree, InDocument, Takes
  <2>2. ASSUME DoneDeletingDatabase
        PROVE  /\ UNCHANGED <<handle, dbQueue, killed, dbThread, openDatabaseSet, sync, requests>>
               /\ sync["context"] = "none" /\ deletion'.handles = {} /\ deletion'.checked = {}
               /\ \A h \in DOMAIN handle : ~handle[h].opening
    BY <2>2 DEF DoneDeletingDatabase, InDocument, NoDeletion, DocumentInv, DocumentPauses, Pausing
  <2>3. CASE \E n : DeleteDatabase(n)
    BY <2>1, <2>3
  <2>4. CASE DoneDeletingDatabase
    BY <2>2, <2>4
  <2> QED BY <2>3, <2>4
<1>2. DocumentPauses'
  BY <1>1 DEF DocumentPauses, Pausing
<1>3. CASE killed
  BY <1>1, <1>2, <1>3 DEF DocumentInv, Closing
<1>4. CASE ~killed
  <2>1. /\ OtherTasks(dbQueue) = {} /\ ~Closing /\ dbThread.at # "unschedule"
        /\ \A h \in DOMAIN handle : handle[h].registered => h \in openDatabaseSet
    BY <1>1, <1>4, DocumentFree
  <2>2. DocumentQueue' /\ DocumentHandles'
    BY <1>1, <1>4, <2>1 DEF DocumentInv, DocumentQueue, DocumentHandles, Closing
  <2> QED BY <1>1, <1>2, <1>4, <2>2 DEF DocumentInv
<1> QED BY <1>3, <1>4

\* deleteDatabaseFile marks a database, which is open.
LEMMA DocumentCloses ==
  ASSUME InDocument, IInv, DocumentInv, NEW h \in Handles, MarkAsDeletedAndClose(h)
  PROVE  DocumentInv'
<1>1. /\ UNCHANGED <<dbQueue, killed, dbThread, openDatabaseSet, requests, sync>>
      /\ sync["context"] = "none" /\ h \in deletion.handles /\ handle' = [handle EXCEPT ![h].deleted = TRUE]
      /\ deletion' = [deletion EXCEPT !.handles = @ \ {h},
                                      !.checked = IF handle[h].deleted \/ killed THEN {} ELSE {h}]
  BY DEF MarkAsDeletedAndClose, InDocument
<1>2. /\ deletion'.handles = deletion.handles \ {h} /\ h \in DOMAIN handle
      /\ deletion'.checked = {} \/ (~killed /\ deletion'.checked = {h})
  BY <1>1 DEF IInv, DeletionOK
<1>3. /\ DOMAIN handle' = DOMAIN handle
      /\ \A g \in DOMAIN handle : /\ handle'[g].registered = handle[g].registered
                                  /\ handle'[g].returned = handle[g].returned
                                  /\ handle'[g].opening = handle[g].opening
  BY <1>1, <1>2, HandlesAfter DEF SameStanding
<1>4. \A g \in DOMAIN handle : ~handle[g].opening
  BY <1>1 DEF DocumentInv, DocumentPauses, Pausing, NoDeletion
<1>5. Closing' <=> Closing
  BY <1>1 DEF Closing
<1>6. CASE killed
  <2>1. DocumentPauses'
    BY <1>2, <1>3, <1>4, <1>6 DEF DocumentPauses, Pausing
  <2> QED BY <1>1, <1>5, <1>6, <2>1 DEF DocumentInv
<1>7. CASE ~killed
  <2>1. DocumentQueue /\ DocumentHandles
    BY <1>7 DEF DocumentInv
  <2>2. DocumentHandles'
    BY <1>1, <1>2, <1>3, <1>5, <2>1 DEF DocumentHandles
  <2>3. DocumentQueue'
    BY <1>1, <1>2, <1>5, <2>1 DEF DocumentQueue
  <2>4. DocumentPauses'
    BY <1>1, <1>2, <1>3, <1>4, <1>7, <2>1 DEF DocumentPauses, DocumentHandles
  <2> QED BY <1>1, <1>7, <2>2, <2>3, <2>4 DEF DocumentInv
<1> QED BY <1>6, <1>7

\* It schedules the close task and waits: nothing else is queued.
LEMMA DocumentSchedulesClose ==
  ASSUME InDocument, IInv, DocumentInv, NEW h \in Handles, ScheduleCloseTask(h)
  PROVE  DocumentInv'
<1>1. /\ UNCHANGED <<handle, killed, dbThread, openDatabaseSet, requests>>
      /\ h \in deletion.checked /\ deletion' = [deletion EXCEPT !.checked = {}]
      /\ ScheduleAndWait("close", h, "context")
  BY DEF ScheduleCloseTask, InDocument
<1>2. /\ ~killed /\ sync["context"] = "none" /\ h \in openDatabaseSet /\ h \notin deletion.handles
      /\ \A g \in DOMAIN handle : ~handle[g].opening
  BY <1>1 DEF DocumentInv, DocumentPauses, Pausing, NoDeletion
<1>3. deletion'.handles = deletion.handles /\ deletion'.checked = {}
  BY <1>1 DEF IInv, DeletionOK
<1>4. OtherTasks(dbQueue) = {} /\ ~Closing /\ dbThread.at # "unschedule"
  BY <1>2, DocumentFree
<1>5. PICK task : task = Task("close", h, "context")
  OBVIOUS
<1>6. /\ OtherTasks(dbQueue') = {task} /\ AtMostOneOther(dbQueue')
      /\ task.handle = h /\ task.synchronizer = "context"
      /\ sync'["context"] = "waiting" /\ sync'["main"] = sync["main"]
  <2>1. ScheduleAndWait("close", h, "context")
    BY <1>1
  <2>2. /\ OtherTasks(dbQueue') = OtherTasks(dbQueue) \cup {task}
        /\ OtherTasks(dbQueue) = {} => AtMostOneOther(dbQueue')
        /\ task.kind = "close" /\ task.handle = h /\ task.synchronizer = "context"
        /\ sync'["context"] = "waiting" /\ sync'["main"] = sync["main"]
    BY <1>5, <2>1, ScheduledByContext
  <2> QED BY <1>4, <2>2
<1>7. ~Closing'
  BY <1>1, <1>4 DEF Closing
<1>8. DocumentQueue'
  BY <1>1, <1>2, <1>3, <1>4, <1>6, <1>7 DEF DocumentQueue
<1>9. DocumentHandles'
  <2>1. DocumentHandles
    BY <1>2 DEF DocumentInv
  <2> QED BY <1>1, <1>2, <1>3, <1>4, <2>1 DEF DocumentHandles
<1>10. DocumentPauses'
  BY <1>1, <1>2, <1>3 DEF DocumentPauses, Pausing
<1> QED BY <1>1, <1>2, <1>6, <1>8, <1>9, <1>10 DEF DocumentInv

\* The tracker of a document does not call closeImmediately.
LEMMA DocumentNeverClosesImmediately ==
  ASSUME InDocument, DocumentInv, NEW h \in Handles
  PROVE  ~CloseImmediately(h)
  BY DEF CloseImmediately, Takes, InDocument, DocumentInv

\* DatabaseOpenTask: the database is recorded as open, or the open failed.
LEMMA DocumentPerformsOpen ==
  ASSUME IInv, DocumentInv, PerformOpenTask
  PROVE  DocumentInv'
<1>1. PICK task : task = Head(dbQueue)
  OBVIOUS
<1>2. /\ Takable("open") /\ dbQueue' = Tail(dbQueue) /\ Complete(task.synchronizer)
      /\ UNCHANGED <<killed, dbThread, requests, deletion>>
  BY <1>1 DEF PerformOpenTask
<1>3. PICK b \in BOOLEAN :
        /\ handle' = [handle EXCEPT ![task.handle].opened = b, ![task.handle].returned = b]
        /\ openDatabaseSet' = IF b THEN openDatabaseSet \cup {task.handle} ELSE openDatabaseSet
  BY <1>1 DEF PerformOpenTask
<1>4. /\ OtherTasks(dbQueue) = OtherTasks(dbQueue') \cup {task}
      /\ AtMostOneOther(dbQueue) => OtherTasks(dbQueue') = {} /\ AtMostOneOther(dbQueue')
      /\ task \in Tasks /\ TaskOK(task) /\ task.kind = "open"
      /\ dbThread.at = "loop" /\ ~Closing /\ ~killed
  BY <1>1, <1>2, TakenOther
<1>5. DocumentQueue /\ DocumentHandles
  BY <1>4 DEF DocumentInv
<1>6. OtherTasks(dbQueue') = {} /\ AtMostOneOther(dbQueue') /\ task.synchronizer = "context"
  BY <1>4, <1>5 DEF DocumentQueue
<1>7. sync'["context"] = "completed" /\ sync'["main"] = "none"
  BY <1>2, <1>6, CompletedSync DEF Threads, DocumentInv
<1>8. ~Closing' /\ task.handle \in DOMAIN handle
  BY <1>2, <1>4 DEF Closing, Tasks
<1>9. /\ DOMAIN handle' = DOMAIN handle
      /\ \A g \in DOMAIN handle : /\ handle'[g].registered = handle[g].registered
                                  /\ handle'[g].returned = IF g = task.handle THEN b ELSE handle[g].returned
                                  /\ handle'[g].opening = handle[g].opening
  <2>1. PICK h : h = task.handle
    OBVIOUS
  <2>2. h \in DOMAIN handle /\ OpenedIs(h, b)
    BY <1>3, <1>8, <2>1 DEF OpenedIs
  <2> QED BY <2>1, <2>2, HandlesAfter
<1>10. DocumentQueue'
  BY <1>2, <1>4, <1>6, <1>7, <1>8 DEF DocumentQueue
<1>11. DocumentHandles'
  BY <1>2, <1>3, <1>4, <1>5, <1>7, <1>9 DEF DocumentHandles
<1>12. DocumentPauses'
  <2>1. ~Pausing /\ deletion.checked = {}
    BY <1>4, <1>5, DocumentBusy DEF DocumentQueue
  <2> QED BY <1>2, <1>9, <2>1, NotPausing
<1> QED BY <1>2, <1>4, <1>7, <1>10, <1>11, <1>12 DEF DocumentInv

\* DatabaseTableNamesTask.
LEMMA DocumentPerformsTableNames ==
  ASSUME IInv, DocumentInv, PerformTableNamesTask
  PROVE  DocumentInv'
<1>1. PICK task : task = Head(dbQueue)
  OBVIOUS
<1>2. /\ Takable("tableNames") /\ dbQueue' = Tail(dbQueue) /\ Complete(task.synchronizer)
      /\ UNCHANGED <<handle, killed, dbThread, openDatabaseSet, requests, deletion>>
  BY <1>1 DEF PerformTableNamesTask
<1>3. /\ OtherTasks(dbQueue) = OtherTasks(dbQueue') \cup {task}
      /\ AtMostOneOther(dbQueue) => OtherTasks(dbQueue') = {} /\ AtMostOneOther(dbQueue')
      /\ dbThread.at = "loop" /\ ~Closing /\ ~killed
  BY <1>1, <1>2, TakenOther
<1>4. DocumentQueue /\ DocumentHandles
  BY <1>3 DEF DocumentInv
<1>5. OtherTasks(dbQueue') = {} /\ AtMostOneOther(dbQueue') /\ task.synchronizer = "context"
  BY <1>3, <1>4 DEF DocumentQueue
<1>6. sync'["context"] = "completed" /\ sync'["main"] = "none"
  BY <1>2, <1>5, CompletedSync DEF Threads, DocumentInv
<1>7. ~Closing'
  BY <1>2, <1>3 DEF Closing
<1>8. DocumentQueue'
  BY <1>2, <1>3, <1>5, <1>6, <1>7 DEF DocumentQueue
<1>9. DocumentHandles'
  BY <1>2, <1>3, <1>4, <1>6 DEF DocumentHandles
<1>10. DocumentPauses'
  <2>1. ~Pausing /\ deletion.checked = {}
    BY <1>3, <1>4, DocumentBusy DEF DocumentQueue
  <2> QED BY <1>2, <2>1, NotPausing
<1> QED BY <1>2, <1>3, <1>6, <1>8, <1>9, <1>10 DEF DocumentInv

\* DatabaseCloseTask: the close that the context thread waits for begins.
LEMMA DocumentPerformsClose ==
  ASSUME IInv, DocumentInv, PerformCloseTask
  PROVE  DocumentInv'
<1>1. PICK task : task = Head(dbQueue)
  OBVIOUS
<1>2. /\ Takable("close") /\ dbQueue' = Tail(dbQueue) /\ Close(task.handle, task.synchronizer, "loop")
      /\ UNCHANGED <<killed, openDatabaseSet, sync, requests, deletion>>
  BY <1>1 DEF PerformCloseTask
<1>3. /\ OtherTasks(dbQueue) = OtherTasks(dbQueue') \cup {task}
      /\ AtMostOneOther(dbQueue) => OtherTasks(dbQueue') = {} /\ AtMostOneOther(dbQueue')
      /\ task \in Tasks /\ task.kind = "close"
      /\ dbThread.at = "loop" /\ ~Closing /\ ~killed
  BY <1>1, <1>2, TakenOther
<1>4. DocumentQueue /\ DocumentHandles
  BY <1>3 DEF DocumentInv
<1>5. /\ OtherTasks(dbQueue') = {} /\ AtMostOneOther(dbQueue') /\ task.synchronizer = "context"
      /\ task.handle \in openDatabaseSet /\ task.handle \notin deletion.handles /\ sync["context"] = "waiting"
  BY <1>3, <1>4 DEF DocumentQueue
<1>6. Closing' /\ dbThread'.handle = task.handle /\ dbThread'.synchronizer = "context"
  BY <1>2, <1>5 DEF Close, Closing
<1>7. /\ DOMAIN handle' = DOMAIN handle
      /\ \A g \in DOMAIN handle : /\ handle'[g].registered = handle[g].registered
                                  /\ handle'[g].returned = handle[g].returned
                                  /\ handle'[g].opening = handle[g].opening
  <2>1. task.handle \in DOMAIN handle
    BY <1>3 DEF Tasks
  <2> QED BY <1>2, <2>1, HandlesAfter DEF SameStanding
<1>8. DocumentQueue'
  BY <1>2, <1>5, <1>6 DEF DocumentQueue
<1>9. DocumentHandles'
  BY <1>2, <1>3, <1>4, <1>7 DEF DocumentHandles
<1>10. DocumentPauses'
  <2>1. ~Pausing /\ deletion.checked = {}
    BY <1>5, DocumentBusy
  <2> QED BY <1>2, <1>7, <2>1, NotPausing
<1> QED BY <1>2, <1>3, <1>8, <1>9, <1>10 DEF DocumentInv

\* unscheduleDatabaseTasks drops no task that the context thread waits for.
LEMMA DocumentUnschedules ==
  ASSUME IInv, DocumentInv, UnscheduleDatabaseTasks
  PROVE  DocumentInv'
<1>1. PICK h : h = dbThread.handle
  OBVIOUS
<1>2. /\ OtherTasks(dbQueue') = {task \in OtherTasks(dbQueue) : task.handle # h}
      /\ OtherTasks(dbQueue) = {} => AtMostOneOther(dbQueue')
      /\ dbThread'.at = "unregister" /\ dbThread'.handle = h
      /\ dbThread'.synchronizer = dbThread.synchronizer /\ Closing /\ Closing'
  BY <1>1, UnscheduledOthers
<1>3. /\ UNCHANGED <<handle, killed, sync, requests, deletion>> /\ openDatabaseSet' = openDatabaseSet \ {h}
  BY <1>1 DEF UnscheduleDatabaseTasks
<1>6. DocumentPauses'
  <2>1. killed \/ sync["context"] # "none"
    BY <1>2 DEF DocumentInv, DocumentQueue
  <2>2. ~Pausing /\ deletion.checked = {}
    BY <2>1, DocumentBusy
  <2> QED BY <1>3, <2>2, NotPausing
<1>4. CASE killed
  BY <1>2, <1>3, <1>4, <1>6 DEF DocumentInv
<1>5. CASE ~killed
  <2>1. DocumentQueue /\ DocumentHandles
    BY <1>5 DEF DocumentInv
  <2>2. OtherTasks(dbQueue) = {} /\ h \notin deletion.handles
    BY <1>1, <1>2, <2>1 DEF DocumentQueue
  <2>3. DocumentQueue'
    BY <1>1, <1>2, <1>3, <2>1, <2>2 DEF DocumentQueue
  <2>4. DocumentHandles'
    BY <1>1, <1>2, <1>3, <2>1, <2>2 DEF DocumentHandles
  <2> QED BY <1>3, <1>5, <1>6, <2>3, <2>4 DEF DocumentInv
<1> QED BY <1>4, <1>5

\* The tracker forgets the handle, and the context thread is signalled.
LEMMA DocumentUnregisters ==
  ASSUME IInv, DocumentInv, RemoveOpenDatabase
  PROVE  DocumentInv'
<1>1. PICK h : h = dbThread.handle
  OBVIOUS
<1>2. /\ UNCHANGED <<dbQueue, killed, openDatabaseSet, requests, deletion>>
      /\ handle' = [handle EXCEPT ![h].registered = FALSE]
      /\ Complete(dbThread.synchronizer) /\ dbThread.at = "unregister" /\ dbThread' = [at |-> dbThread.then]
  BY <1>1 DEF RemoveOpenDatabase
<1>3. h \in DOMAIN handle /\ dbThread.then \in {"loop", "exit"} /\ Closing
  BY <1>1, <1>2 DEF IInv, ThreadsOK, Closing
<1>4. ~Closing' /\ dbThread'.at # "unschedule"
  BY <1>2, <1>3 DEF Closing
<1>5. /\ DOMAIN handle' = DOMAIN handle
      /\ \A g \in DOMAIN handle : /\ handle'[g].registered <=> handle[g].registered /\ g # h
                                  /\ handle'[g].returned = handle[g].returned
                                  /\ handle'[g].opening = handle[g].opening
  BY <1>2, <1>3, HandlesAfter
<1>6. \A r \in Threads : sync'[r] = IF r = dbThread.synchronizer THEN "completed" ELSE sync[r]
  BY <1>2, CompletedSync
<1>9. DocumentPauses'
  <2>1. killed \/ sync["context"] # "none"
    BY <1>3 DEF DocumentInv, DocumentQueue
  <2>2. ~Pausing /\ deletion.checked = {}
    BY <2>1, DocumentBusy
  <2> QED BY <1>2, <1>5, <2>2, NotPausing
<1>7. CASE killed
  BY <1>2, <1>3, <1>4, <1>6, <1>7, <1>9 DEF DocumentInv, Threads
<1>8. CASE ~killed
  <2>1. DocumentQueue /\ DocumentHandles
    BY <1>8 DEF DocumentInv
  <2>2. OtherTasks(dbQueue) = {} /\ sync'["context"] = "completed" /\ sync'["main"] = "none"
    BY <1>3, <1>6, <2>1 DEF DocumentQueue, DocumentInv, Threads
  <2>3. DocumentQueue'
    BY <1>2, <1>4, <2>1, <2>2 DEF DocumentQueue
  <2>4. DocumentHandles'
    BY <1>1, <1>2, <1>5, <2>1, <2>2 DEF DocumentHandles
  <2> QED BY <1>2, <1>8, <1>9, <2>2, <2>3, <2>4 DEF DocumentInv
<1> QED BY <1>7, <1>8

\* The end of the thread: nobody waits for what it closes.
LEMMA DocumentEnds ==
  ASSUME InDocument, IInv, DocumentInv,
         ShutdownCoordinator \/ EndThread \/ \E h \in Handles : CloseAtExit(h)
  PROVE  DocumentInv'
<1>1. killed /\ UNCHANGED <<killed, sync, requests, deletion>>
  <2>1. CASE ShutdownCoordinator
    BY <2>1 DEF ShutdownCoordinator
  <2>2. CASE EndThread \/ \E h \in Handles : CloseAtExit(h)
    BY <2>2 DEF EndThread, CloseAtExit, InDocument, IInv, ThreadsOK, Down
  <2> QED BY <2>1, <2>2
<1>2. /\ Closing' => dbThread'.synchronizer = "none"
      /\ DOMAIN handle' = DOMAIN handle /\ \A g \in DOMAIN handle : handle'[g].opening = handle[g].opening
  <2>1. CASE ShutdownCoordinator \/ EndThread
    BY <2>1 DEF ShutdownCoordinator, EndThread, Closing
  <2>2. CASE \E h \in Handles : CloseAtExit(h)
    <3>1. PICK h \in Handles : CloseAtExit(h)
      BY <2>2
    <3>2. Close(h, "none", "exit") /\ h \in DOMAIN handle
      BY <3>1 DEF CloseAtExit, IInv, HandlesOK
    <3>3. dbThread'.synchronizer = "none"
      BY <3>2 DEF Close
    <3>4. DOMAIN handle' = DOMAIN handle /\ \A g \in DOMAIN handle : SameStanding(handle'[g], handle[g])
      BY <3>2, HandlesAfter
    <3> QED BY <3>3, <3>4 DEF SameStanding
  <2> QED BY <2>1, <2>2
<1>3. DocumentPauses'
  <2>1. ~Pausing /\ deletion.checked = {}
    BY <1>1, DocumentBusy
  <2> QED BY <1>1, <1>2, <2>1, NotPausing
<1> QED BY <1>1, <1>2, <1>3 DEF DocumentInv

\* No step of a document leaves the invariant.
LEMMA DocumentNext ==
  ASSUME InDocument, IInv, DocumentInv, [Next]_vars
  PROVE  DocumentInv'
<1>1. CASE \/ \E t \in Transactions : RunTransaction(t)
           \/ PerformPendingCallback \/ ScriptExecutesSQL \/ ScriptReturns
           \/ PerformTransactionTask \/ ContinueStatements \/ ReturnFromStep
           \/ \E h \in Handles : Interrupt(h)
           \/ UNCHANGED vars
  <2>1. Quiet
    BY <1>1, QuietContext, QuietDatabase, QuietHandles, QuietOthers
  <2> QED BY <2>1, DocumentQuiet
<1>2. ASSUME NEW p \in Threads, WaitForTaskCompletion(p)  PROVE DocumentInv'
  BY <1>2, DocumentWaits
<1>3. ASSUME NEW h \in Handles, \/ OpenDatabase(h) \/ OpenAndVerifyVersion(h) \/ TableNames(h)
                                \/ MarkAsDeletedAndClose(h) \/ ScheduleCloseTask(h)
                                \/ CloseImmediately(h) \/ CloseAtExit(h)
      PROVE  DocumentInv'
  BY <1>3, DocumentOpens, DocumentSchedulesOpen, DocumentLists, DocumentCloses, DocumentSchedulesClose,
     DocumentNeverClosesImmediately, DocumentEnds
<1>4. CASE RequestTermination
  BY <1>4, DocumentTerminates
<1>5. CASE (\E n \in {NameOf(h) : h \in Handles} : DeleteDatabase(n)) \/ DoneDeletingDatabase
  BY <1>5, DocumentDeletes
<1>6. CASE \/ PerformOpenTask \/ PerformTableNamesTask \/ PerformCloseTask
           \/ UnscheduleDatabaseTasks \/ RemoveOpenDatabase \/ ShutdownCoordinator \/ EndThread
  BY <1>6, DocumentPerformsOpen, DocumentPerformsTableNames, DocumentPerformsClose,
     DocumentUnschedules, DocumentUnregisters, DocumentEnds
<1>7. "context" \in Threads /\ "main" \in Threads
  BY DEF Threads
<1> QED BY <1>1, <1>2, <1>3, <1>4, <1>5, <1>6, <1>7 DEF Next, ContextThread, MainThreadRequests, DatabaseThread

\* In a document: no task that the context thread waits for is lost, whatever
\* is deleted and whenever the thread is asked to terminate.
THEOREM SynchronousTasksSurviveInDocument ==
  ASSUME InDocument
  PROVE  Spec => []SynchronousTasksSurvive
<1>1. Init => DocumentInv
  BY DocumentInit
<1>2. IInv /\ DocumentInv /\ [Next]_vars => DocumentInv'
  BY DocumentNext
<1>3. IInv /\ DocumentInv => SynchronousTasksSurvive
  <2> SUFFICES ASSUME IInv, DocumentInv, NEW p \in Threads, sync[p] = "waiting"
               PROVE  \/ ~killed /\ \E i \in DOMAIN dbQueue : dbQueue[i].synchronizer = p
                      \/ dbThread.at \in {"unschedule", "unregister"} /\ dbThread.synchronizer = p
    BY DEF SynchronousTasksSurvive, TaskSurvives
  <2>1. p = "context" /\ ~killed
    BY DEF DocumentInv, Threads
  <2>2. \/ Closing /\ dbThread.synchronizer = "context"
        \/ \E task \in ToSet(dbQueue) : task.synchronizer = "context"
    BY <2>1 DEF DocumentInv, DocumentQueue, OtherTasks
  <2> QED BY <2>1, <2>2 DEF Closing, ToSet
<1> QED BY <1>1, <1>2, <1>3, Invariance, PTL DEF Spec

\* In a document: close() finds the database recorded as open, unless the
\* thread is being terminated.
THEOREM ClosesOnlyOpenDatabasesInDocument ==
  ASSUME InDocument
  PROVE  Spec => []ClosesOnlyOpenDatabases
<1>1. Init => DocumentInv
  BY DocumentInit
<1>2. IInv /\ DocumentInv /\ [Next]_vars => DocumentInv'
  BY DocumentNext
<1>3. DocumentInv => ClosesOnlyOpenDatabases
  BY DEF DocumentInv, DocumentQueue, ClosesOnlyOpenDatabases
<1> QED BY <1>1, <1>2, <1>3, Invariance, PTL DEF Spec

-----------------------------------------------------------------------------
(* A worker: another thread interrupts and closes its databases, while its *)
(* own thread opens databases and waits for the end of the database        *)
(* thread.                                                                 *)

InWorker ==
  /\ MainThread = "main"
  /\ \A h \in Handles : <<"tableNames", h>> \notin Requests
  /\ \A n \in {NameOf(h) : h \in Handles} : <<"deleteDatabase", n>> \notin Requests

\* A database is closed only when scripts have it, so that closing drops no
\* open task; nobody waits for a close.  The worker's thread stops the database
\* thread itself, so not while it opens a database.
WorkerInv ==
  /\ requests \subseteq Requests /\ sync["main"] = "none" /\ deletion = NoDeletion
  /\ killed => \A h \in DOMAIN handle : ~handle[h].opening
  /\ \A task \in OtherTasks(dbQueue) :
       \/ task.kind = "open"
       \/ task.kind = "close" /\ task.synchronizer = "none" /\ handle[task.handle].returned
  /\ Closing => dbThread.synchronizer = "none" /\ (killed \/ handle[dbThread.handle].returned)
  /\ sync["context"] = "waiting" =>
       IF killed THEN dbThread.at # "ended"
                 ELSE \E task \in OtherTasks(dbQueue) : task.kind = "open"

\* Nothing is queued at first.
LEMMA WorkerInit ==
  ASSUME Init
  PROVE  WorkerInv
<1>1. OtherTasks(<< >>) = {}
  BY DEF OtherTasks, ToSet
<1>2. DOMAIN handle = {}
  BY DEF Init
<1> QED BY <1>1, <1>2 DEF Init, WorkerInv, Closing, Loop, Threads

\* The queued tasks and the closing thread refer to handles.
LEMMA OthersHaveHandles ==
  ASSUME IInv
  PROVE  /\ \A task \in OtherTasks(dbQueue) : /\ task.handle \in DOMAIN handle
                                              /\ task.kind = "open" => /\ ~handle[task.handle].returned
                                                                       /\ task.synchronizer = "context"
         /\ Closing => dbThread.handle \in DOMAIN handle
<1>1. \A task \in ToSet(dbQueue) : task \in Tasks /\ TaskOK(task)
  BY QueuedTasks DEF IInv, QueuesOK, ToSet
<1>2. Closing => dbThread.handle \in DOMAIN handle
  BY DEF IInv, ThreadsOK, Closing
<1> QED BY <1>1, <1>2 DEF OtherTasks, Tasks, TaskOK

\* Steps of transactions keep the invariant.
LEMMA WorkerQuiet ==
  ASSUME IInv, WorkerInv, Quiet
  PROVE  WorkerInv'
<1>1. killed' = killed /\ sync' = sync /\ deletion' = deletion /\ requests' \subseteq requests
  BY DEF Quiet
<1>2. OtherTasks(dbQueue') = OtherTasks(dbQueue)
  BY DEF Quiet, SameOthers
<1>3. /\ Closing' <=> Closing
      /\ Closing => dbThread' = dbThread
      /\ dbThread'.at = "ended" <=> dbThread.at = "ended"
      /\ DOMAIN handle' = DOMAIN handle
      /\ \A h \in DOMAIN handle : handle'[h].returned = handle[h].returned /\ handle'[h].opening = handle[h].opening
  BY DEF Quiet, SameStanding
<1> QED BY <1>1, <1>2, <1>3, OthersHaveHandles DEF WorkerInv

\* The thread that waited goes on.
LEMMA WorkerWaits ==
  ASSUME IInv, WorkerInv, NEW p \in Threads, WaitForTaskCompletion(p)
  PROVE  WorkerInv'
<1>1. /\ UNCHANGED <<dbQueue, killed, dbThread, requests, deletion>>
      /\ sync' = [sync EXCEPT ![p] = "none"]
  BY DEF WaitForTaskCompletion
<1>2. \A r \in Threads : sync'[r] \in {sync[r], "none"}
  BY <1>1 DEF IInv, ThreadsOK
<1>3. /\ DOMAIN handle' = DOMAIN handle
      /\ \A h \in DOMAIN handle : handle'[h].returned = handle[h].returned /\ handle'[h].opening = handle[h].opening
  <2> SUFFICES ASSUME NEW h \in DOMAIN handle
               PROVE  handle'[h].returned = handle[h].returned /\ handle'[h].opening = handle[h].opening
    BY DEF WaitForTaskCompletion
  <2>1. handle[h] \in Databases
    BY DEF IInv, HandlesOK
  <2>2. handle'[h] = [handle[h] EXCEPT !.registered = @ /\ (p = "context" => handle[h].returned)]
    BY DEF WaitForTaskCompletion
  <2> QED BY <2>1, <2>2 DEF Databases
<1>4. Closing' <=> Closing
  BY <1>1 DEF Closing
<1> QED BY <1>1, <1>2, <1>3, <1>4, OthersHaveHandles DEF WorkerInv, Threads

\* openDatabase constructs the handle.
LEMMA WorkerOpens ==
  ASSUME IInv, WorkerInv, NEW h \in Handles, OpenDatabase(h)
  PROVE  WorkerInv'
<1>1. /\ UNCHANGED <<killed, dbThread, dbQueue, sync, requests, deletion>> /\ ~killed
      /\ handle' = [g \in DOMAIN handle \cup {h} |-> IF g = h THEN NewDatabase ELSE handle[g]]
      /\ h \notin DOMAIN handle
  BY DEF OpenDatabase
<1>2. \A g \in DOMAIN handle : handle'[g] = handle[g]
  BY <1>1
<1>3. Closing' <=> Closing
  BY <1>1 DEF Closing
<1> QED BY <1>1, <1>2, <1>3, OthersHaveHandles DEF WorkerInv

\* openAndVerifyVersion schedules the open task and waits.
LEMMA WorkerSchedulesOpen ==
  ASSUME IInv, WorkerInv, NEW h \in Handles, OpenAndVerifyVersion(h)
  PROVE  WorkerInv'
<1>1. /\ UNCHANGED <<killed, dbThread, requests, deletion>>
      /\ h \in DOMAIN handle /\ handle[h].opening /\ handle' = [handle EXCEPT ![h].opening = FALSE]
      /\ ScheduleAndWait("open", h, "context")
  BY DEF OpenAndVerifyVersion
<1>2. ~killed
  BY <1>1 DEF WorkerInv
<1>3. PICK task : task = Task("open", h, "context")
  OBVIOUS
<1>4. /\ OtherTasks(dbQueue') = OtherTasks(dbQueue) \cup {task} /\ task.kind = "open"
      /\ sync'["context"] = "waiting" /\ sync'["main"] = sync["main"]
  <2>1. /\ OtherTasks(dbQueue') = OtherTasks(dbQueue) \cup {task}
        /\ OtherTasks(dbQueue) = {} => AtMostOneOther(dbQueue')
        /\ task.kind = "open" /\ task.handle = h /\ task.synchronizer = "context"
        /\ sync'["context"] = "waiting" /\ sync'["main"] = sync["main"]
    BY <1>1, <1>3, ScheduledByContext
  <2> QED BY <2>1
<1>5. \A g \in DOMAIN handle : handle'[g].returned = handle[g].returned
  BY <1>1, HandlesAfter
<1>6. Closing' <=> Closing
  BY <1>1 DEF Closing
<1> QED BY <1>1, <1>2, <1>4, <1>5, <1>6, OthersHaveHandles DEF WorkerInv

\* A worker's databases are not inspected and not deleted while it runs.
LEMMA WorkerNever ==
  ASSUME InWorker, IInv, WorkerInv
  PROVE  /\ \A h \in Handles : ~TableNames(h) /\ ~MarkAsDeletedAndClose(h) /\ ~ScheduleCloseTask(h)
         /\ \A n \in {NameOf(h) : h \in Handles} : ~DeleteDatabase(n)
         /\ ~DoneDeletingDatabase /\ ~PerformTableNamesTask
<1>1. \A h \in Handles : ~TableNames(h)
  BY DEF TableNames, Takes, InWorker, WorkerInv
<1>2. \A n \in {NameOf(h) : h \in Handles} : ~DeleteDatabase(n)
  BY DEF DeleteDatabase, Takes, InWorker, WorkerInv
<1>3. ~DoneDeletingDatabase /\ \A h \in Handles : ~MarkAsDeletedAndClose(h) /\ ~ScheduleCloseTask(h)
  BY DEF DoneDeletingDatabase, MarkAsDeletedAndClose, ScheduleCloseTask, WorkerInv, NoDeletion
<1>4. ~PerformTableNamesTask
  <2> SUFFICES ASSUME PerformTableNamesTask  PROVE FALSE
    OBVIOUS
  <2>1. PICK task : task = Head(dbQueue)
    OBVIOUS
  <2>2. Takable("tableNames") /\ dbQueue' = Tail(dbQueue)
    BY DEF PerformTableNamesTask
  <2>3. task \in OtherTasks(dbQueue) /\ task.kind = "tableNames"
    BY <2>1, <2>2, TakenOther
  <2> QED BY <2>3 DEF WorkerInv
<1> QED BY <1>1, <1>2, <1>3, <1>4

\* closeImmediately schedules a close that nobody waits for, of an open database.
LEMMA WorkerCloses ==
  ASSUME IInv, WorkerInv, NEW h \in Handles, CloseImmediately(h)
  PROVE  WorkerInv'
<1>1. /\ UNCHANGED <<handle, killed, dbThread, sync, deletion>> /\ requests' \subseteq requests
      /\ h \in DOMAIN handle /\ handle[h].opened
      /\ dbQueue' = <<Task("close", h, "none")>> \o dbQueue
  BY DEF CloseImmediately, Takes
<1>2. handle[h].returned
  BY <1>1 DEF IInv, HandlesOK, HandleOK
<1>3. PICK task : task = Task("close", h, "none")
  OBVIOUS
<1>4. task.kind = "close" /\ task.handle = h /\ task.synchronizer = "none"
  BY <1>3 DEF Task
<1>5. OtherTasks(dbQueue') = OtherTasks(dbQueue) \cup {task}
  <2>1. PICK T : T = Tasks \cup {task}
    OBVIOUS
  <2>2. dbQueue \in Seq(T) /\ task \in T /\ task.kind # "transaction" /\ dbQueue' = <<task>> \o dbQueue
    BY <1>1, <1>3, <1>4, <2>1, QueuedTasks
  <2> QED BY <2>2, OthersPrepended
<1>6. Closing' <=> Closing
  BY <1>1 DEF Closing
<1> QED BY <1>1, <1>2, <1>4, <1>5, <1>6 DEF WorkerInv

\* The worker waits for the end of the thread.
LEMMA WorkerTerminates ==
  ASSUME InWorker, IInv, WorkerInv, RequestTermination
  PROVE  WorkerInv'
<1>1. /\ UNCHANGED <<handle, dbQueue, dbThread, deletion>> /\ requests' \subseteq requests
      /\ ~killed /\ killed' = TRUE /\ sync' = [sync EXCEPT !["context"] = "waiting"]
      /\ \A h \in DOMAIN handle : ~handle[h].opening
  BY DEF RequestTermination, ContextIsFree, InWorker, Takes
<1>2. dbThread.at # "ended"
  BY <1>1 DEF IInv, ThreadsOK, Down
<1>3. sync'["main"] = sync["main"]
  BY <1>1 DEF IInv, ThreadsOK, Threads
<1>4. Closing' <=> Closing
  BY <1>1 DEF Closing
<1> QED BY <1>1, <1>2, <1>3, <1>4 DEF WorkerInv

\* DatabaseOpenTask signals the worker; the handle is no other task's.
LEMMA WorkerPerformsOpen ==
  ASSUME IInv, WorkerInv, PerformOpenTask
  PROVE  WorkerInv'
<1>1. PICK task : task = Head(dbQueue)
  OBVIOUS
<1>2. PICK h : h = task.handle
  OBVIOUS
<1>3. /\ Takable("open") /\ dbQueue' = Tail(dbQueue) /\ Complete(task.synchronizer)
      /\ UNCHANGED <<killed, dbThread, requests, deletion>>
  BY <1>1 DEF PerformOpenTask
<1>4. PICK b \in BOOLEAN : OpenedIs(h, b)
  BY <1>1, <1>2 DEF PerformOpenTask, OpenedIs
<1>5. /\ OtherTasks(dbQueue) = OtherTasks(dbQueue') \cup {task} /\ task.kind = "open" /\ ~Closing /\ ~killed
  BY <1>1, <1>3, TakenOther
<1>6. h \in DOMAIN handle /\ ~handle[h].returned /\ task.synchronizer = "context"
  BY <1>2, <1>5, OthersHaveHandles
<1>7. \A g \in DOMAIN handle : handle[g].returned => handle'[g].returned
  <2>1. \A g \in DOMAIN handle : handle'[g].returned = IF g = h THEN b ELSE handle[g].returned
    BY <1>4, <1>6, HandlesAfter
  <2> QED BY <1>6, <2>1
<1>8. sync'["context"] = "completed" /\ sync'["main"] = sync["main"]
  BY <1>3, <1>6, CompletedSync DEF Threads
<1>9. ~Closing'
  BY <1>3, <1>5 DEF Closing
<1> QED BY <1>3, <1>5, <1>7, <1>8, <1>9, OthersHaveHandles DEF WorkerInv

\* A close begins, at the request of the main thread or at the end of the thread.
LEMMA WorkerPerformsClose ==
  ASSUME IInv, WorkerInv, PerformCloseTask \/ \E h \in Handles : CloseAtExit(h)
  PROVE  WorkerInv'
<1>1. CASE PerformCloseTask
  <2>1. PICK task : task = Head(dbQueue)
    OBVIOUS
  <2>2. PICK h : h = task.handle
    OBVIOUS
  <2>3. /\ Takable("close") /\ dbQueue' = Tail(dbQueue) /\ Close(h, task.synchronizer, "loop")
        /\ UNCHANGED <<killed, sync, requests, deletion>>
    BY <1>1, <2>1, <2>2 DEF PerformCloseTask
  <2>4. /\ OtherTasks(dbQueue) = OtherTasks(dbQueue') \cup {task} /\ task.kind = "close" /\ ~killed
    BY <2>1, <2>3, TakenOther
  <2>5. h \in DOMAIN handle /\ handle[h].returned /\ task.synchronizer = "none"
    BY <2>2, <2>4, OthersHaveHandles DEF WorkerInv
  <2>6. \A g \in DOMAIN handle : handle'[g].returned = handle[g].returned
    BY <2>3, <2>5, HandlesAfter DEF SameStanding
  <2>7. dbThread'.handle = h /\ dbThread'.synchronizer = "none"
    BY <2>3, <2>5 DEF Close
  <2> QED BY <2>3, <2>4, <2>5, <2>6, <2>7, OthersHaveHandles DEF WorkerInv
<1>2. CASE \E h \in Handles : CloseAtExit(h)
  <2>1. PICK h \in Handles : CloseAtExit(h)
    BY <1>2
  <2>2. /\ dbThread.at = "exit" /\ h \in openSetCopy /\ Close(h, "none", "exit")
        /\ UNCHANGED <<dbQueue, killed, sync, requests, deletion>>
    BY <2>1 DEF CloseAtExit
  <2>3. killed /\ h \in DOMAIN handle
    BY <2>2 DEF IInv, ThreadsOK, Down, HandlesOK
  <2>4. /\ DOMAIN handle' = DOMAIN handle
        /\ \A g \in DOMAIN handle : handle'[g].returned = handle[g].returned /\ handle'[g].opening = handle[g].opening
    BY <2>2, <2>3, HandlesAfter DEF SameStanding
  <2>5. dbThread'.at = "unschedule" /\ dbThread'.synchronizer = "none"
    BY <2>2 DEF Close
  <2> QED BY <2>2, <2>3, <2>4, <2>5, OthersHaveHandles DEF WorkerInv
<1> QED BY <1>1, <1>2

\* unscheduleDatabaseTasks drops no open task: scripts have the handle.
LEMMA WorkerUnschedules ==
  ASSUME IInv, WorkerInv, UnscheduleDatabaseTasks
  PROVE  WorkerInv'
<1>1. PICK h : h = dbThread.handle
  OBVIOUS
<1>2. /\ OtherTasks(dbQueue') = {task \in OtherTasks(dbQueue) : task.handle # h}
      /\ dbThread'.at = "unregister" /\ dbThread'.handle = h
      /\ dbThread'.synchronizer = dbThread.synchronizer /\ Closing /\ Closing'
  BY <1>1, UnscheduledOthers
<1>3. UNCHANGED <<handle, killed, sync, requests, deletion>>
  BY DEF UnscheduleDatabaseTasks
<1>4. ~killed => \A task \in OtherTasks(dbQueue) : task.kind = "open" => task.handle # h
  BY <1>1, <1>2, OthersHaveHandles DEF WorkerInv
<1> QED BY <1>1, <1>2, <1>3, <1>4 DEF WorkerInv

\* The tracker forgets the handle; the thread ends.
LEMMA WorkerUnregisters ==
  ASSUME InWorker, IInv, WorkerInv, RemoveOpenDatabase \/ EndThread
  PROVE  WorkerInv'
<1>1. CASE RemoveOpenDatabase
  <2>1. PICK h : h = dbThread.handle
    OBVIOUS
  <2>2. /\ UNCHANGED <<dbQueue, killed, requests, deletion>>
        /\ handle' = [handle EXCEPT ![h].registered = FALSE]
        /\ Complete(dbThread.synchronizer) /\ dbThread.at = "unregister" /\ dbThread' = [at |-> dbThread.then]
    BY <1>1, <2>1 DEF RemoveOpenDatabase
  <2>3. h \in DOMAIN handle /\ dbThread.then \in {"loop", "exit"} /\ Closing
    BY <2>1, <2>2 DEF IInv, ThreadsOK, Closing
  <2>4. ~Closing' /\ dbThread'.at # "ended"
    BY <2>2, <2>3 DEF Closing
  <2>5. /\ DOMAIN handle' = DOMAIN handle
        /\ \A g \in DOMAIN handle : handle'[g].returned = handle[g].returned /\ handle'[g].opening = handle[g].opening
    BY <2>2, <2>3, HandlesAfter
  <2>6. sync'["context"] = sync["context"] /\ sync'["main"] = sync["main"]
    BY <2>2, <2>3, CompletedSync DEF WorkerInv, Threads
  <2> QED BY <2>2, <2>4, <2>5, <2>6, OthersHaveHandles DEF WorkerInv
<1>2. CASE EndThread
  <2>1. /\ UNCHANGED <<handle, dbQueue, killed, requests, deletion>> /\ dbThread' = [at |-> "ended"]
        /\ sync' = [sync EXCEPT !["context"] = "completed"]
    BY <1>2 DEF EndThread, InWorker
  <2>2. sync'["context"] = "completed" /\ sync'["main"] = sync["main"]
    BY <2>1 DEF IInv, ThreadsOK, Threads
  <2>3. ~Closing'
    BY <2>1 DEF Closing
  <2> QED BY <2>1, <2>2, <2>3 DEF WorkerInv
<1> QED BY <1>1, <1>2

\* The loop of the thread has ended.
LEMMA WorkerShutsDown ==
  ASSUME IInv, WorkerInv, ShutdownCoordinator
  PROVE  WorkerInv'
<1>1. UNCHANGED <<handle, dbQueue, killed, sync, requests, deletion>> /\ killed /\ dbThread' = [at |-> "exit"]
  BY DEF ShutdownCoordinator
<1>2. ~Closing' /\ dbThread'.at # "ended"
  BY <1>1 DEF Closing
<1> QED BY <1>1, <1>2 DEF WorkerInv

\* No step of a worker leaves the invariant.
LEMMA WorkerNext ==
  ASSUME InWorker, IInv, WorkerInv, [Next]_vars
  PROVE  WorkerInv'
<1>1. CASE \/ \E t \in Transactions : RunTransaction(t)
           \/ PerformPendingCallback \/ ScriptExecutesSQL \/ ScriptReturns
           \/ PerformTransactionTask \/ ContinueStatements \/ ReturnFromStep
           \/ \E h \in Handles : Interrupt(h)
           \/ UNCHANGED vars
  <2>1. Quiet
    BY <1>1, QuietContext, QuietDatabase, QuietHandles, QuietOthers
  <2> QED BY <2>1, WorkerQuiet
<1>2. ASSUME NEW p \in Threads, WaitForTaskCompletion(p)  PROVE WorkerInv'
  BY <1>2, WorkerWaits
<1>3. ASSUME NEW h \in Handles, \/ OpenDatabase(h) \/ OpenAndVerifyVersion(h) \/ TableNames(h)
                                \/ MarkAsDeletedAndClose(h) \/ ScheduleCloseTask(h)
                                \/ CloseImmediately(h) \/ CloseAtExit(h)
      PROVE  WorkerInv'
  BY <1>3, WorkerOpens, WorkerSchedulesOpen, WorkerNever, WorkerCloses, WorkerPerformsClose
<1>4. CASE RequestTermination
  BY <1>4, WorkerTerminates
<1>5. CASE (\E n \in {NameOf(h) : h \in Handles} : DeleteDatabase(n)) \/ DoneDeletingDatabase
  BY <1>5, WorkerNever
<1>6. CASE \/ PerformOpenTask \/ PerformTableNamesTask \/ PerformCloseTask
           \/ UnscheduleDatabaseTasks \/ RemoveOpenDatabase \/ ShutdownCoordinator \/ EndThread
  BY <1>6, WorkerPerformsOpen, WorkerNever, WorkerPerformsClose, WorkerUnschedules, WorkerUnregisters,
     WorkerShutsDown
<1>7. "context" \in Threads /\ "main" \in Threads
  BY DEF Threads
<1> QED BY <1>1, <1>2, <1>3, <1>4, <1>5, <1>6, <1>7 DEF Next, ContextThread, MainThreadRequests, DatabaseThread

\* In a worker: the task that opens a database is not lost when the main thread
\* closes or interrupts databases at the same time, and the worker waits for
\* the end of a thread that has not ended.
THEOREM SynchronousTasksSurviveInWorker ==
  ASSUME InWorker
  PROVE  Spec => []SynchronousTasksSurvive
<1>1. Init => WorkerInv
  BY WorkerInit
<1>2. IInv /\ WorkerInv /\ [Next]_vars => WorkerInv'
  BY WorkerNext
<1>3. IInv /\ WorkerInv => SynchronousTasksSurvive
  <2> SUFFICES ASSUME IInv, WorkerInv, NEW p \in Threads, sync[p] = "waiting"
               PROVE  \/ ~killed /\ \E i \in DOMAIN dbQueue : dbQueue[i].synchronizer = p
                      \/ killed /\ p = "context" /\ dbThread.at # "ended"
    BY DEF SynchronousTasksSurvive, TaskSurvives
  <2>1. p = "context"
    BY DEF WorkerInv, Threads
  <2>2. ~killed => \E task \in ToSet(dbQueue) : task.synchronizer = "context"
    BY <2>1, OthersHaveHandles DEF WorkerInv, OtherTasks
  <2>3. killed => dbThread.at # "ended"
    BY <2>1 DEF WorkerInv
  <2> QED BY <2>1, <2>2, <2>3 DEF ToSet
<1> QED BY <1>1, <1>2, <1>3, Invariance, PTL DEF Spec

-----------------------------------------------------------------------------
(* WebDatabase implements TransactionService: the abstract actions, handle *)
(* by handle and transaction by transaction.                               *)

\* What the abstract specification sees of the transactions outside T, of the
\* handles outside H, and of what scripts were told outside U.
ServiceKeeps(H, T, U) ==
  /\ \A h \in Handles \ H : WaitingOn(h)' = WaitingOn(h)
  /\ \A t \in Transactions \ T : StatusOf(t)' = StatusOf(t)
  /\ \A t \in Transactions \ U : ToldOf(t)' = ToldOf(t)

\* Nothing changes.
LEMMA ServiceStutters ==
  ASSUME StoppedHandles' = StoppedHandles, ServiceKeeps({}, {}, {})
  PROVE  UNCHANGED Service!vars
<1>1. [h \in Handles |-> WaitingOn(h)]' = [h \in Handles |-> WaitingOn(h)]
  BY DEF ServiceKeeps
<1>2. [t \in Transactions |-> StatusOf(t)]' = [t \in Transactions |-> StatusOf(t)]
  BY DEF ServiceKeeps
<1>3. [t \in Transactions |-> ToldOf(t)]' = [t \in Transactions |-> ToldOf(t)]
  BY DEF ServiceKeeps
<1> QED BY <1>1, <1>2, <1>3 DEF Service!vars

\* A transaction is requested.
LEMMA ServiceRequests ==
  ASSUME StoppedHandles' = StoppedHandles, NEW t \in Transactions, HandleOf(t) \in Handles,
         ServiceKeeps({HandleOf(t)}, {t}, {}), StatusOf(t) = "new",
         \/ /\ HandleOf(t) \notin StoppedHandles /\ StatusOf(t)' = "waiting"
            /\ WaitingOn(HandleOf(t))' = Append(WaitingOn(HandleOf(t)), t)
         \/ /\ HandleOf(t) \in StoppedHandles /\ StatusOf(t)' = "undone"
            /\ WaitingOn(HandleOf(t))' = WaitingOn(HandleOf(t))
  PROVE  Service!Next
<1> DEFINE waiting == [h \in Handles |-> WaitingOn(h)]
           status == [u \in Transactions |-> StatusOf(u)]
           told == [u \in Transactions |-> ToldOf(u)]
<1>1. told' = told
  BY DEF ServiceKeeps
<1>2. status' = [status EXCEPT ![t] = StatusOf(t)'] /\ status[t] = "new"
  BY DEF ServiceKeeps
<1>3. waiting' = [waiting EXCEPT ![HandleOf(t)] = WaitingOn(HandleOf(t))'] /\ waiting[HandleOf(t)] = WaitingOn(HandleOf(t))
  BY DEF ServiceKeeps
<1>4. Service!Request(t) \/ Service!Refuse(t)
  BY <1>1, <1>2, <1>3 DEF Service!Request, Service!Refuse
<1> QED BY <1>4 DEF Service!Next

\* The first in line is opened, or fails.
LEMMA ServiceLeaves ==
  ASSUME StoppedHandles' = StoppedHandles, NEW t \in Transactions, HandleOf(t) \in Handles,
         ServiceKeeps({HandleOf(t)}, {t}, {}), StatusOf(t) = "waiting",
         WaitingOn(HandleOf(t)) # << >>, t = Head(WaitingOn(HandleOf(t))),
         WaitingOn(HandleOf(t))' = Tail(WaitingOn(HandleOf(t))),
         \/ StatusOf(t)' = "undone"
         \/ StatusOf(t)' = "open" /\ Service!Isolated([u \in Transactions |-> StatusOf(u)]')
  PROVE  Service!Next
<1> DEFINE waiting == [h \in Handles |-> WaitingOn(h)]
           status == [u \in Transactions |-> StatusOf(u)]
           told == [u \in Transactions |-> ToldOf(u)]
<1>1. told' = told
  BY DEF ServiceKeeps
<1>2. status' = [status EXCEPT ![t] = StatusOf(t)'] /\ status[t] = "waiting"
  BY DEF ServiceKeeps
<1>3. waiting' = [waiting EXCEPT ![HandleOf(t)] = WaitingOn(HandleOf(t))'] /\ waiting[HandleOf(t)] = WaitingOn(HandleOf(t))
  BY DEF ServiceKeeps
<1>4. Service!Open(t) \/ Service!Fail(t)
  BY <1>1, <1>2, <1>3 DEF Service!Open, Service!Fail, Service!Leave
<1> QED BY <1>4 DEF Service!Next

\* An open transaction is committed or undone.
LEMMA ServiceEnds ==
  ASSUME StoppedHandles' = StoppedHandles, NEW t \in Transactions, ServiceKeeps({}, {t}, {}), StatusOf(t) = "open",
         StatusOf(t)' = "undone" \/ (StatusOf(t)' = "committed" /\ ToldOf(t) = "nothing")
  PROVE  Service!Next
<1> DEFINE waiting == [h \in Handles |-> WaitingOn(h)]
           status == [u \in Transactions |-> StatusOf(u)]
           told == [u \in Transactions |-> ToldOf(u)]
<1>1. told' = told /\ waiting' = waiting /\ told[t] = ToldOf(t)
  BY DEF ServiceKeeps
<1>2. status' = [status EXCEPT ![t] = StatusOf(t)'] /\ status[t] = "open"
  BY DEF ServiceKeeps
<1>3. Service!Commit(t) \/ Service!Undo(t)
  BY <1>1, <1>2 DEF Service!Commit, Service!Undo
<1> QED BY <1>3 DEF Service!Next

\* The script is told of the end.
LEMMA ServiceTells ==
  ASSUME StoppedHandles' = StoppedHandles, NEW t \in Transactions, ServiceKeeps({}, {}, {t}), ToldOf(t) = "nothing",
         \/ ToldOf(t)' = "success" /\ StatusOf(t) = "committed"
         \/ ToldOf(t)' = "error" /\ StatusOf(t) \in {"open", "undone"}
  PROVE  Service!Next
<1> DEFINE waiting == [h \in Handles |-> WaitingOn(h)]
           status == [u \in Transactions |-> StatusOf(u)]
           told == [u \in Transactions |-> ToldOf(u)]
<1>1. status' = status /\ waiting' = waiting /\ status[t] = StatusOf(t)
  BY DEF ServiceKeeps
<1>2. told' = [told EXCEPT ![t] = ToldOf(t)'] /\ told[t] = "nothing"
  BY DEF ServiceKeeps
<1>3. Service!Tell(t, "success") \/ Service!Tell(t, "error")
  BY <1>1, <1>2 DEF Service!Tell
<1> QED BY <1>3 DEF Service!Next

\* A handle is stopped.
LEMMA ServiceStops ==
  ASSUME NEW h \in Handles, h \notin StoppedHandles, StoppedHandles' = StoppedHandles \cup {h},
         ServiceKeeps({h}, Transactions, {}), WaitingOn(h)' = << >>,
         \A t \in Transactions :
           StatusOf(t)' = IF StatusOf(t) = "waiting" /\ HandleOf(t) = h THEN "undone" ELSE StatusOf(t)
  PROVE  Service!Next
<1> DEFINE waiting == [g \in Handles |-> WaitingOn(g)]
           status == [u \in Transactions |-> StatusOf(u)]
           told == [u \in Transactions |-> ToldOf(u)]
<1>1. told' = told
  BY DEF ServiceKeeps
<1>2. status' = [t \in Transactions |-> IF status[t] = "waiting" /\ HandleOf(t) = h THEN "undone" ELSE status[t]]
  OBVIOUS
<1>3. waiting' = [waiting EXCEPT ![h] = << >>]
  BY DEF ServiceKeeps
<1>4. Service!Stop(h)
  BY <1>1, <1>2, <1>3 DEF Service!Stop
<1> QED BY <1>4 DEF Service!Next

\* The database thread ends.
LEMMA ServiceUndoesAll ==
  ASSUME StoppedHandles' = StoppedHandles, ServiceKeeps({}, Transactions, {}),
         \A t \in Transactions : StatusOf(t)' = IF StatusOf(t) = "open" THEN "undone" ELSE StatusOf(t)
  PROVE  Service!Next
<1> DEFINE waiting == [h \in Handles |-> WaitingOn(h)]
           status == [u \in Transactions |-> StatusOf(u)]
           told == [u \in Transactions |-> ToldOf(u)]
<1>1. told' = told /\ waiting' = waiting
  BY DEF ServiceKeeps
<1>2. status' = [t \in Transactions |-> IF status[t] = "open" THEN "undone" ELSE status[t]]
  OBVIOUS
<1>3. Service!UndoAll
  BY <1>1, <1>2 DEF Service!UndoAll
<1> QED BY <1>3 DEF Service!Next

-----------------------------------------------------------------------------
(* What the steps of a transaction look like to the abstract specification. *)

\* A step of the database thread turns x into y: it may commit an open
\* transaction of which nothing was told, and opens one only in its step.
DatabaseEffect(x, y) ==
  /\ y.nextStep \notin FirstSteps
  /\ \/ y.happened = x.happened
     \/ x.happened = {} /\ y.happened = {"committed"} /\ x.sqlite = "inProgress"
  /\ y.sqlite = "inProgress" => x.sqlite = "inProgress" \/ x.nextStep = "openTransactionAndPreflight"

\* A step of the context thread turns x into y: it may tell the script.
ContextEffect(x, y) ==
  /\ y.nextStep \notin FirstSteps /\ y.sqlite = x.sqlite
  /\ \/ y.happened = x.happened
     \/ x.happened = {} /\ y.happened = {"errorCallback"}
     \/ x.happened = {"committed"} /\ y.happened = {"committed", "successCallback"}

\* handleTransactionError on the database thread.
LEMMA ErrorEffect ==
  ASSUME NEW x \in SQLTransactions, NEW why
  PROVE  LET y == HandleTransactionError(x, why, FALSE).txn IN
         y.nextStep \notin FirstSteps /\ y.happened = x.happened /\ y.sqlite \in {x.sqlite, "none"}
<1> DEFINE z == [x EXCEPT !.error = why]
           context == [z EXCEPT !.nextStep = "deliverTransactionErrorCallback"]
           ended == [z EXCEPT !.sqlite = "none", !.statements = << >>, !.nextStep = "none"]
<1>1. HandleTransactionError(x, why, FALSE).txn = IF x.errorCallback THEN context ELSE ended
  BY DEF HandleTransactionError, ToContext, Outcome, CleanupAfterTransactionErrorCallback
<1>2. context.nextStep = "deliverTransactionErrorCallback" /\ context.happened = x.happened /\ context.sqlite = x.sqlite
  BY DEF SQLTransactions
<1>3. ended.nextStep = "none" /\ ended.happened = x.happened /\ ended.sqlite = "none"
  BY DEF SQLTransactions
<1> HIDE DEF context, ended
<1> QED BY <1>1, <1>2, <1>3 DEF FirstSteps

\* handleCurrentStatementError.
LEMMA StatementErrorEffect ==
  ASSUME NEW x \in SQLTransactions
  PROVE  LET y == HandleCurrentStatementError(x).txn IN
         y.nextStep \notin FirstSteps /\ y.happened = x.happened /\ y.sqlite \in {x.sqlite, "none"}
<1>1. CASE x.current.errorCallback /\ x.sqlite # "rolledBack"
  <2> DEFINE y == [x EXCEPT !.nextStep = "deliverStatementCallback"]
  <2>1. HandleCurrentStatementError(x).txn = y
    BY <1>1 DEF HandleCurrentStatementError, ToContext, Outcome
  <2>2. y.nextStep = "deliverStatementCallback" /\ y.happened = x.happened /\ y.sqlite = x.sqlite
    BY DEF SQLTransactions
  <2> HIDE DEF y
  <2> QED BY <2>1, <2>2 DEF FirstSteps
<1>2. CASE ~(x.current.errorCallback /\ x.sqlite # "rolledBack")
  BY <1>2, ErrorEffect DEF HandleCurrentStatementError
<1> QED BY <1>1, <1>2

\* runCurrentStatement inside an open transaction.
LEMMA StatementEffect ==
  ASSUME NEW x \in SQLTransactions, x.sqlite = "inProgress", x.nextStep = "runStatements",
         NEW o \in RunCurrentStatement(x)
  PROVE  o.txn.nextStep \notin FirstSteps /\ o.txn.happened = x.happened
<1> DEFINE After(error, s) == [x EXCEPT !.current.error = error, !.sqlite = s]
<1>1. \A error \in {"none", "quota", "other"}, s \in {"inProgress", "rolledBack"} :
        LET y == After(error, s) IN
        y \in SQLTransactions /\ y.nextStep = "runStatements" /\ y.happened = x.happened
  <2> SUFFICES ASSUME NEW error \in {"none", "quota", "other"}, NEW s \in {"inProgress", "rolledBack"}
               PROVE  LET y == After(error, s) IN
                      y \in SQLTransactions /\ y.nextStep = "runStatements" /\ y.happened = x.happened
    OBVIOUS
  <2>1. PICK c : c = [x.current EXCEPT !.error = error]
    OBVIOUS
  <2>2. c \in Statements
    BY <2>1 DEF SQLTransactions, Statements
  <2>3. PICK y : y = [x EXCEPT !.current = c, !.sqlite = s]
    OBVIOUS
  <2>4. y \in SQLTransactions /\ y.nextStep = "runStatements" /\ y.happened = x.happened
    BY <2>2, <2>3 DEF SQLTransactions
  <2>5. y = After(error, s)
    BY <2>1, <2>3
  <2> QED BY <2>4, <2>5, Zenon
<1>2. [x EXCEPT !.current.error = "none"] = After("none", "inProgress")
  BY DEF SQLTransactions
<1> HIDE DEF After
<1>3. \/ o = HandleCurrentStatementError(x)
      \/ o = ToContext(After("none", "inProgress"), "deliverStatementCallback")
      \/ o = Outcome(After("none", "inProgress"), "again")
      \/ \E s \in {"inProgress", "rolledBack"} :
           \/ o = ToContext(After("quota", s), "deliverQuotaIncreaseCallback")
           \/ o = HandleCurrentStatementError(After("other", s))
  BY <1>2, Zenon DEF RunCurrentStatement, After
<1>4. ASSUME NEW y \in SQLTransactions, y.happened = x.happened,
             NEW step \in {"deliverStatementCallback", "deliverQuotaIncreaseCallback"}, o = ToContext(y, step)
      PROVE  o.txn.nextStep \notin FirstSteps /\ o.txn.happened = x.happened
  <2>1. o.txn = [y EXCEPT !.nextStep = step]
    BY <1>4 DEF ToContext, Outcome
  <2> QED BY <1>4, <2>1 DEF SQLTransactions, FirstSteps
<1>5. ASSUME NEW y \in SQLTransactions, y.happened = x.happened, o = HandleCurrentStatementError(y)
      PROVE  o.txn.nextStep \notin FirstSteps /\ o.txn.happened = x.happened
  BY <1>5, StatementErrorEffect
<1>6. CASE o = Outcome(After("none", "inProgress"), "again")
  <2>1. o.txn = After("none", "inProgress")
    BY <1>6 DEF Outcome
  <2> QED BY <1>1, <2>1 DEF FirstSteps
<1> QED BY <1>1, <1>3, <1>4, <1>5, <1>6

\* postflightAndCommit.
LEMMA CommitEffect ==
  ASSUME NEW x \in SQLTransactions, x.sqlite = "inProgress", x.happened = {}, NEW o \in PostflightAndCommit(x)
  PROVE  o.txn.nextStep \notin FirstSteps /\ o.txn.happened \in {{}, {"committed"}}
<1> DEFINE quiet == [x EXCEPT !.successCallback = FALSE]
           done == Record([x EXCEPT !.sqlite = "ended", !.errorCallback = FALSE], "committed")
           deliver == [done EXCEPT !.nextStep = "deliverSuccessCallback"]
           ended == [done EXCEPT !.sqlite = "none", !.nextStep = "none"]
<1>1. \/ o = HandleTransactionError(x, "postflight", FALSE)
      \/ o = HandleTransactionError(quiet, "commit", FALSE)
      \/ o = [txn |-> deliver, schedule |-> "callback", release |-> FALSE]
      \/ o = [txn |-> ended, schedule |-> "none", release |-> TRUE]
  BY DEF PostflightAndCommit, ToContext, Outcome, CleanupAfterSuccessCallback
<1>2. quiet \in SQLTransactions /\ quiet.happened = {}
  BY DEF SQLTransactions
<1>3. deliver.nextStep = "deliverSuccessCallback" /\ deliver.happened = {"committed"}
  BY DEF SQLTransactions, Record
<1>4. ended.nextStep = "none" /\ ended.happened = {"committed"}
  BY DEF SQLTransactions, Record
<1> HIDE DEF quiet, deliver, ended
<1>5. ASSUME NEW y \in SQLTransactions, y.happened = {}, NEW why, o = HandleTransactionError(y, why, FALSE)
      PROVE  o.txn.nextStep \notin FirstSteps /\ o.txn.happened = {}
  BY <1>5, ErrorEffect
<1>6. CASE \/ o = [txn |-> deliver, schedule |-> "callback", release |-> FALSE]
           \/ o = [txn |-> ended, schedule |-> "none", release |-> TRUE]
  BY <1>3, <1>4, <1>6 DEF FirstSteps
<1> QED BY <1>1, <1>2, <1>5, <1>6

\* A turn of the loop of runStatements.
LEMMA StatementsEffect ==
  ASSUME NEW x, RecordOK(x), SqliteFits(x), x.nextStep = "runStatements", NEW o \in RunStatements(x)
  PROVE  DatabaseEffect(x, o.txn)
<1>1. /\ x \in SQLTransactions /\ x.sqlite \in {"inProgress", "rolledBack"} /\ x.happened = {}
      /\ x.sqlite = "rolledBack" => x.current.error = "quota"
  BY DEF RecordOK, SqliteFits, FirstSteps, RunningSteps
<1>2. CASE x.retry /\ x.sqlite # "rolledBack"
  <2> DEFINE y == [x EXCEPT !.retry = FALSE]
  <2>1. y \in SQLTransactions /\ y.sqlite = "inProgress" /\ y.nextStep = "runStatements" /\ y.happened = {}
    BY <1>1, <1>2 DEF SQLTransactions
  <2>2. o \in RunCurrentStatement(y)
    BY <1>2 DEF RunStatements
  <2> HIDE DEF y
  <2> QED BY <1>1, <1>2, <2>1, <2>2, StatementEffect DEF DatabaseEffect
<1>3. CASE ~(x.retry /\ x.sqlite # "rolledBack") /\ x.current.error = "quota"
  <2>1. o = HandleCurrentStatementError(x)
    BY <1>3 DEF RunStatements
  <2> QED BY <1>1, <2>1, StatementErrorEffect DEF DatabaseEffect
<1>4. CASE ~(x.retry /\ x.sqlite # "rolledBack") /\ x.current.error # "quota"
  <2>1. PICK y : y = GetNextStatement(x)
    OBVIOUS
  <2>2. o \in IF y.current = NoStatement THEN PostflightAndCommit(y) ELSE RunCurrentStatement(y)
    BY <1>4, <2>1 DEF RunStatements
  <2>3. y \in SQLTransactions /\ y.sqlite = "inProgress" /\ y.nextStep = "runStatements" /\ y.happened = {}
    <3>1. CASE x.statements = << >>
      <4>1. y = [x EXCEPT !.current = NoStatement] /\ NoStatement \in Statements
        BY <2>1, <3>1 DEF GetNextStatement, NoStatement, Statements
      <4> QED BY <1>1, <1>4, <4>1 DEF SQLTransactions
    <3>2. CASE x.statements # << >>
      <4>1. y = [x EXCEPT !.current = Head(x.statements), !.statements = Tail(x.statements)]
        BY <2>1, <3>2 DEF GetNextStatement
      <4>2. x.statements \in Seq(NewStatements)
        BY <1>1 DEF SQLTransactions
      <4>3. Head(x.statements) \in NewStatements /\ Tail(x.statements) \in Seq(NewStatements)
        BY <3>2, <4>2
      <4>4. Head(x.statements) \in Statements
        BY <4>3 DEF NewStatements, Statements
      <4> QED BY <1>1, <1>4, <4>1, <4>3, <4>4 DEF SQLTransactions
    <3> QED BY <3>1, <3>2
  <2>4. o.txn.nextStep \notin FirstSteps /\ o.txn.happened \in {{}, {"committed"}}
    BY <2>2, <2>3, StatementEffect, CommitEffect
  <2> QED BY <1>1, <1>4, <2>4 DEF DatabaseEffect
<1> QED BY <1>2, <1>3, <1>4

\* A step of the database thread.
LEMMA DatabaseStepEffect ==
  ASSUME NEW x, RecordOK(x), SqliteFits(x),
         x.nextStep \in DatabaseSteps \ {"acquireLock", "postflightAndCommit"},
         NEW deleted, NEW o \in DatabaseStep(x, deleted)
  PROVE  DatabaseEffect(x, o.txn)
<1>1. x \in SQLTransactions
  BY DEF RecordOK
<1>2. CASE x.nextStep = "openTransactionAndPreflight"
  <2> DEFINE y == [[x EXCEPT !.sqlite = "inProgress"] EXCEPT !.nextStep = "deliverTransactionCallback"]
  <2>1. \/ o = HandleTransactionError(x, "deleted", FALSE)
        \/ o = HandleTransactionError(x, "open", FALSE)
        \/ o = [txn |-> y, schedule |-> "callback", release |-> FALSE]
    BY <1>2 DEF DatabaseStep, OpenTransactionAndPreflight, ToContext, Outcome
  <2>2. y.nextStep = "deliverTransactionCallback" /\ y.happened = x.happened
    BY <1>1 DEF SQLTransactions
  <2> HIDE DEF y
  <2>3. CASE o = [txn |-> y, schedule |-> "callback", release |-> FALSE]
    BY <1>2, <2>2, <2>3 DEF DatabaseEffect, FirstSteps
  <2>4. ASSUME NEW why, o = HandleTransactionError(x, why, FALSE)  PROVE DatabaseEffect(x, o.txn)
    BY <1>1, <1>2, <2>4, ErrorEffect DEF DatabaseEffect
  <2> QED BY <2>1, <2>3, <2>4
<1>3. CASE x.nextStep = "runStatements"
  <2>1. o \in RunStatements(x)
    BY <1>3 DEF DatabaseStep
  <2> QED BY <1>3, <2>1, StatementsEffect
<1>4. CASE x.nextStep = "cleanupAfterSuccessCallback"
  <2>1. o.txn = [x EXCEPT !.sqlite = "none", !.nextStep = "none"]
    BY <1>4 DEF DatabaseStep, CleanupAfterSuccessCallback
  <2> QED BY <1>1, <2>1 DEF SQLTransactions, DatabaseEffect, FirstSteps
<1>5. CASE x.nextStep = "cleanupAfterTransactionErrorCallback"
  <2>1. o.txn = [x EXCEPT !.sqlite = "none", !.statements = << >>, !.nextStep = "none"]
    BY <1>5 DEF DatabaseStep, CleanupAfterTransactionErrorCallback
  <2> QED BY <1>1, <2>1 DEF SQLTransactions, DatabaseEffect, FirstSteps
<1> QED BY <1>2, <1>3, <1>4, <1>5 DEF DatabaseSteps

\* The error callback runs, if there is one.
LEMMA ErrorTold ==
  ASSUME NEW x \in SQLTransactions, x.happened = {}
  PROVE  ContextEffect(x, DeliverTransactionErrorCallback(x).txn)
<1> DEFINE step == "cleanupAfterTransactionErrorCallback"
           y == [x EXCEPT !.nextStep = step]
           z == [Record([x EXCEPT !.errorCallback = FALSE], "errorCallback") EXCEPT !.nextStep = step]
<1>1. DeliverTransactionErrorCallback(x).txn = IF x.errorCallback THEN z ELSE y
  BY DEF DeliverTransactionErrorCallback, ToDatabase, Outcome
<1>2. y.nextStep = step /\ y.sqlite = x.sqlite /\ y.happened = x.happened
  BY DEF SQLTransactions
<1>3. z.nextStep = step /\ z.sqlite = x.sqlite /\ z.happened = {"errorCallback"}
  BY DEF SQLTransactions, Record
<1> HIDE DEF y, z
<1> QED BY <1>1, <1>2, <1>3 DEF ContextEffect, FirstSteps

\* A script has returned.
LEMMA AfterScriptEffect ==
  ASSUME NEW x, RecordOK(x), x.nextStep \in {"deliverTransactionCallback", "deliverStatementCallback"},
         NEW failed \in BOOLEAN
  PROVE  ContextEffect(x, AfterScript(x, failed).txn)
<1>1. x \in SQLTransactions /\ x.happened = {}
  BY DEF RecordOK, RunningSteps
<1>2. ASSUME NEW why
      PROVE  LET y == [x EXCEPT !.error = why] IN
             /\ ContextEffect(x, DeliverTransactionErrorCallback(y).txn)
             /\ ContextEffect(x, [y EXCEPT !.nextStep = "cleanupAfterTransactionErrorCallback"])
  <2> DEFINE y == [x EXCEPT !.error = why]
             z == [y EXCEPT !.nextStep = "cleanupAfterTransactionErrorCallback"]
  <2>1. y.happened = {} /\ y.sqlite = x.sqlite
    BY <1>1 DEF SQLTransactions
  <2>2. z.happened = {} /\ z.sqlite = x.sqlite /\ z.nextStep = "cleanupAfterTransactionErrorCallback"
    BY <1>1 DEF SQLTransactions
  <2>3. ContextEffect(x, DeliverTransactionErrorCallback(y).txn)
    <3> DEFINE step == "cleanupAfterTransactionErrorCallback"
               v == [Record([y EXCEPT !.errorCallback = FALSE], "errorCallback") EXCEPT !.nextStep = step]
    <3>1. DeliverTransactionErrorCallback(y).txn = IF y.errorCallback THEN v ELSE z
      BY DEF DeliverTransactionErrorCallback, ToDatabase, Outcome
    <3>2. v.nextStep = step /\ v.sqlite = x.sqlite /\ v.happened = {"errorCallback"}
      BY <1>1 DEF SQLTransactions, Record
    <3> HIDE DEF y, z, v
    <3> QED BY <1>1, <2>2, <3>1, <3>2 DEF ContextEffect, FirstSteps
  <2>4. ContextEffect(x, z)
    <3> HIDE DEF z
    <3> QED BY <1>1, <2>2 DEF ContextEffect, FirstSteps
  <2> QED BY <2>3, <2>4
<1>3. CASE x.nextStep = "deliverTransactionCallback" /\ failed
  <2>1. AfterScript(x, failed) = DeliverTransactionErrorCallback([x EXCEPT !.error = "callback"])
    BY <1>3 DEF AfterScript
  <2> QED BY <1>2, <2>1
<1>4. CASE x.nextStep = "deliverTransactionCallback" /\ ~failed
  <2>1. AfterScript(x, failed).txn = [x EXCEPT !.nextStep = "runStatements"]
    BY <1>4 DEF AfterScript, ToDatabase, Outcome
  <2> QED BY <1>1, <2>1 DEF SQLTransactions, ContextEffect, FirstSteps
<1>5. CASE x.nextStep = "deliverStatementCallback" /\ failed
  <2> DEFINE y == [x EXCEPT !.error = "callback"]
  <2>1. \/ AfterScript(x, failed).txn = DeliverTransactionErrorCallback(y).txn
        \/ AfterScript(x, failed).txn = [y EXCEPT !.nextStep = "cleanupAfterTransactionErrorCallback"]
    BY <1>5 DEF AfterScript, HandleTransactionError, ToDatabase, Outcome
  <2>2. /\ ContextEffect(x, DeliverTransactionErrorCallback(y).txn)
        /\ ContextEffect(x, [y EXCEPT !.nextStep = "cleanupAfterTransactionErrorCallback"])
    BY <1>2
  <2> HIDE DEF y
  <2> QED BY <2>1, <2>2
<1>6. CASE x.nextStep = "deliverStatementCallback" /\ ~failed
  <2>1. AfterScript(x, failed).txn =
          [[x EXCEPT !.current.handled = x.current.error # "none"] EXCEPT !.nextStep = "runStatements"]
    BY <1>6 DEF AfterScript, ToDatabase, Outcome
  <2> QED BY <1>1, <2>1 DEF SQLTransactions, ContextEffect, FirstSteps
<1> QED BY <1>3, <1>4, <1>5, <1>6

\* A step of the context thread that calls no statement script.
LEMMA ContextStepEffect ==
  ASSUME NEW x, RecordOK(x), x.nextStep \in ContextSteps, ~EntersScript(x), NEW o \in ContextStep(x)
  PROVE  ContextEffect(x, o.txn)
<1>1. x \in SQLTransactions
  BY DEF RecordOK
<1>2. CASE x.nextStep = "deliverTransactionCallback"
  <2>1. o.txn = [x EXCEPT !.nextStep = "runStatements"]
    BY <1>2 DEF ContextStep, ToDatabase, Outcome
  <2> QED BY <1>1, <2>1 DEF SQLTransactions, ContextEffect, FirstSteps
<1>3. CASE x.nextStep = "deliverQuotaIncreaseCallback"
  <2>1. PICK granted, n : o.txn = [[x EXCEPT !.retry = granted, !.increases = n] EXCEPT !.nextStep = "runStatements"]
    <3>1. PICK granted \in BOOLEAN :
            o = ToDatabase([x EXCEPT !.retry = granted, !.increases = IF granted THEN x.increases + 1 ELSE x.increases],
                           "runStatements")
      BY <1>3 DEF ContextStep
    <3> QED BY <3>1 DEF ToDatabase, Outcome
  <2> QED BY <1>1, <2>1 DEF SQLTransactions, ContextEffect, FirstSteps
<1>4. CASE x.nextStep = "deliverSuccessCallback"
  <2>1. x.happened = {"committed"}
    BY <1>4 DEF RecordOK
  <2> DEFINE y == [Record([x EXCEPT !.successCallback = FALSE], "successCallback")
                     EXCEPT !.nextStep = "cleanupAfterSuccessCallback"]
  <2>a. o = [txn |-> y, schedule |-> "step", release |-> FALSE]
    BY <1>4 DEF ContextStep, ToDatabase, Outcome
  <2>2. o.txn = y
    BY <2>a
  <2>3. o.txn.nextStep = "cleanupAfterSuccessCallback" /\ o.txn.sqlite = x.sqlite
        /\ o.txn.happened = {"committed"} \cup {"successCallback"}
    BY <1>1, <2>1, <2>2 DEF Record, SQLTransactions
  <2> QED BY <2>1, <2>3 DEF ContextEffect, FirstSteps
<1>5. CASE x.nextStep = "deliverTransactionErrorCallback"
  <2>1. o = DeliverTransactionErrorCallback(x) /\ x.happened = {}
    BY <1>5 DEF ContextStep, RecordOK
  <2> QED BY <1>1, <2>1, ErrorTold
<1> QED BY <1>2, <1>3, <1>4, <1>5 DEF ContextSteps, EntersScript

-----------------------------------------------------------------------------
(* The refinement, action by action.                                       *)

ServiceStep == [Service!Next]_(Service!vars)

\* The abstract specification sees no difference in transaction u.
Alike(u) ==
  /\ txn'[u].happened = txn[u].happened /\ txn'[u].sqlite = txn[u].sqlite
  /\ txn'[u].nextStep \in FirstSteps <=> txn[u].nextStep \in FirstSteps

\* Transactions on another thread than T's are as they were.
LEMMA AlikeSeen ==
  ASSUME handle' = handle, Created' = Created, NEW T, \A u \in Created \ T : Alike(u)
  PROVE  /\ StoppedHandles' = StoppedHandles
         /\ \A u \in Transactions \ T : StatusOf(u)' = StatusOf(u) /\ ToldOf(u)' = ToldOf(u)
         /\ \A h : \/ h \in StoppedHandles
                   \/ \A u \in Created \cap T : HandleOf(u) = h => (u \in Begun(h)' <=> u \in Begun(h))
                   => WaitingOn(h)' = WaitingOn(h)
<1>1. StoppedHandles' = StoppedHandles
  BY DEF StoppedHandles
<1>2. ASSUME NEW u \in Transactions \ T  PROVE StatusOf(u)' = StatusOf(u) /\ ToldOf(u)' = ToldOf(u)
  <2>1. CASE u \in Created
    <3>1. Alike(u)
      BY <2>1
    <3> QED BY <1>1, <2>1, <3>1 DEF StatusOf, ToldOf, Alike
  <2>2. CASE u \notin Created
    BY <2>2 DEF StatusOf, ToldOf
  <2> QED BY <2>1, <2>2
<1>3. ASSUME NEW h, h \in StoppedHandles  PROVE WaitingOn(h)' = WaitingOn(h)
  BY <1>1, <1>3 DEF WaitingOn
<1>4. ASSUME NEW h, \A u \in Created \cap T : HandleOf(u) = h => (u \in Begun(h)' <=> u \in Begun(h))
      PROVE  WaitingOn(h)' = WaitingOn(h)
  <2>1. \A u \in Created : u \in Begun(h)' <=> u \in Begun(h)
    BY <1>4 DEF Begun, Alike
  <2>2. Begun(h)' = Begun(h)
    BY <2>1 DEF Begun
  <2> QED BY <1>1, <2>2 DEF WaitingOn
<1> QED BY <1>1, <1>2, <1>3, <1>4

\* A step of the context thread on t.
LEMMA ContextSeen ==
  ASSUME NEW t \in Created, Created \subseteq Transactions, handle' = handle, Created' = Created,
         \A u \in Created : u # t => txn'[u] = txn[u],
         txn[t].nextStep \notin FirstSteps, ContextEffect(txn[t], txn'[t])
  PROVE  ServiceStep
<1>1. PICK x, y : x = txn[t] /\ y = txn'[t]
  OBVIOUS
<1>2. x.nextStep \notin FirstSteps /\ ContextEffect(x, y)
  BY <1>1
<1>3. \A u \in Created \ {t} : Alike(u)
  BY DEF Alike
<1>4. /\ StoppedHandles' = StoppedHandles
      /\ \A u \in Transactions \ {t} : StatusOf(u)' = StatusOf(u) /\ ToldOf(u)' = ToldOf(u)
      /\ \A h : WaitingOn(h)' = WaitingOn(h)
  <2>1. PICK T : T = {t}
    OBVIOUS
  <2>2. \A u \in Created \ T : Alike(u)
    BY <1>3, <2>1
  <2>3. /\ StoppedHandles' = StoppedHandles
        /\ \A u \in Transactions \ T : StatusOf(u)' = StatusOf(u) /\ ToldOf(u)' = ToldOf(u)
        /\ \A h : \/ h \in StoppedHandles
                  \/ \A u \in Created \cap T : HandleOf(u) = h => (u \in Begun(h)' <=> u \in Begun(h))
                  => WaitingOn(h)' = WaitingOn(h)
    BY <2>2, AlikeSeen
  <2>4. \A h : \A u \in Created \cap T : u \notin Begun(h) /\ u \notin Begun(h)'
    BY <1>1, <1>2, <2>1 DEF Begun, ContextEffect
  <2> QED BY <2>1, <2>3, <2>4
<1>5. /\ StatusOf(t) = IF "committed" \in x.happened THEN "committed" ELSE IF x.sqlite = "inProgress" THEN "open" ELSE "undone"
      /\ StatusOf(t)' = IF "committed" \in y.happened THEN "committed" ELSE IF y.sqlite = "inProgress" THEN "open" ELSE "undone"
  BY <1>1, <1>2 DEF StatusOf, ContextEffect
<1>6. /\ ToldOf(t) = IF "successCallback" \in x.happened THEN "success" ELSE IF "errorCallback" \in x.happened THEN "error" ELSE "nothing"
      /\ ToldOf(t)' = IF "successCallback" \in y.happened THEN "success" ELSE IF "errorCallback" \in y.happened THEN "error" ELSE "nothing"
  BY <1>1 DEF ToldOf
<1>7. y.sqlite = x.sqlite
  BY <1>2 DEF ContextEffect
<1>8. StatusOf(t)' = StatusOf(t)
  BY <1>2, <1>5, <1>7 DEF ContextEffect
<1>9. CASE y.happened = x.happened
  <2>1. ServiceKeeps({}, {}, {})
    BY <1>4, <1>6, <1>8, <1>9 DEF ServiceKeeps
  <2> QED BY <1>4, <2>1, ServiceStutters DEF ServiceStep
<1>10. CASE y.happened # x.happened
  <2>1. ServiceKeeps({}, {}, {t}) /\ t \in Transactions
    BY <1>4, <1>8 DEF ServiceKeeps
  <2>2. /\ ToldOf(t) = "nothing"
        /\ \/ ToldOf(t)' = "success" /\ StatusOf(t) = "committed"
           \/ ToldOf(t)' = "error" /\ StatusOf(t) \in {"open", "undone"}
    BY <1>2, <1>5, <1>6, <1>10 DEF ContextEffect
  <2> QED BY <1>4, <2>1, <2>2, ServiceTells DEF ServiceStep
<1> QED BY <1>9, <1>10

\* So are the open transactions of the abstract specification.
LEMMA OpenIsolated == IInv => Service!Isolated([u \in Transactions |-> StatusOf(u)])
<1> SUFFICES ASSUME IInv  PROVE Service!Isolated([u \in Transactions |-> StatusOf(u)])
  OBVIOUS
<1>1. SqliteTransactionsIsolated
  BY IsolationFollows
<1>2. ASSUME NEW t \in Transactions, StatusOf(t) = "open"  PROVE t \in Created /\ txn[t].sqlite # "none"
  BY <1>2 DEF StatusOf
<1> QED BY <1>1, <1>2 DEF Service!Isolated, SqliteTransactionsIsolated

\* A handle of a transaction is stopped for both specifications, or for none.
LEMMA StoppedSeen ==
  ASSUME IInv, NEW t \in Created
  PROVE  /\ HandleOf(t) \in StoppedHandles <=> Stopped(HandleOf(t))
         /\ HandleOf(t) \in DOMAIN handle /\ HandleOf(t) \in Handles /\ t \in Transactions
  BY DEF IInv, TransactionsOK, HandlesOK, StoppedHandles, Stopped, Databases

\* A handle that was not stopped has begun one transaction at most.
LEMMA OneBegun ==
  ASSUME IInv, NEW h \in DOMAIN handle \ StoppedHandles, NEW t \in Begun(h), NEW u \in Created,
         HandleOf(u) = h, ~InHandle(u), txn[u].nextStep # "none"
  PROVE  u = t
<1>1. t \in Created /\ HandleOf(t) = h /\ ~InHandle(t) /\ txn[t].nextStep # "none"
  BY DEF Begun, InHandle, FirstSteps
<1>2. Started(t) /\ Started(u)
  BY <1>1 DEF Started
<1>3. ~Stopped(h)
  BY <1>1, StoppedSeen
<1> QED BY <1>1, <1>2, <1>3 DEF IInv, OneAtATime, OneStarted

\* Who waits on a handle when t is the one that was begun.
LEMMA BegunWaits ==
  ASSUME NEW h \in DOMAIN handle \ StoppedHandles, NEW t, Begun(h) = {t}
  PROVE  WaitingOn(h) = <<t>> \o handle[h].transactionQueue
<1>1. (CHOOSE u \in Begun(h) : TRUE) = t
  OBVIOUS
<1> QED BY <1>1 DEF WaitingOn

\* Who waits on a handle when nobody was begun.
LEMMA NobodyBegun ==
  ASSUME NEW h \in DOMAIN handle \ StoppedHandles, Begun(h) = {}, NEW S, handle[h].transactionQueue \in Seq(S)
  PROVE  WaitingOn(h) = handle[h].transactionQueue
<1>1. << >> \o handle[h].transactionQueue = handle[h].transactionQueue
  OBVIOUS
<1> QED BY <1>1 DEF WaitingOn

\* A step of the database thread on t, which did not open it.
LEMMA DatabaseSeen ==
  ASSUME NEW t \in Created, Created \subseteq Transactions, handle' = handle, Created' = Created,
         \A u \in Created : u # t => Alike(u), DatabaseEffect(txn[t], txn'[t]),
         \/ txn[t].nextStep \notin FirstSteps
         \/ HandleOf(t) \in StoppedHandles /\ txn'[t].sqlite = "none"
  PROVE  ServiceStep
<1>1. PICK x, y : x = txn[t] /\ y = txn'[t]
  OBVIOUS
<1>2. DatabaseEffect(x, y) /\ (x.nextStep \notin FirstSteps \/ (HandleOf(t) \in StoppedHandles /\ y.sqlite = "none"))
  BY <1>1
<1>3. PICK T : T = {t}
  OBVIOUS
<1>4. \A u \in Created \ T : Alike(u)
  BY <1>3
<1>5. /\ StoppedHandles' = StoppedHandles
      /\ \A u \in Transactions \ T : StatusOf(u)' = StatusOf(u) /\ ToldOf(u)' = ToldOf(u)
      /\ \A h : \/ h \in StoppedHandles
                \/ \A u \in Created \cap T : HandleOf(u) = h => (u \in Begun(h)' <=> u \in Begun(h))
                => WaitingOn(h)' = WaitingOn(h)
  BY <1>4, AlikeSeen
<1>6. ASSUME NEW h, h \notin StoppedHandles
      PROVE  \A u \in Created \cap T : HandleOf(u) = h => (u \in Begun(h)' <=> u \in Begun(h))
  BY <1>1, <1>2, <1>3, <1>6 DEF Begun, DatabaseEffect
<1>7. \A h : WaitingOn(h)' = WaitingOn(h)
  BY <1>5, <1>6
<1>8. /\ StatusOf(t) = IF "committed" \in x.happened THEN "committed" ELSE IF x.sqlite = "inProgress" THEN "open" ELSE "undone"
      /\ StatusOf(t)' = IF "committed" \in y.happened THEN "committed" ELSE IF y.sqlite = "inProgress" THEN "open" ELSE "undone"
  BY <1>1, <1>2, <1>5 DEF StatusOf, DatabaseEffect
<1>9. /\ ToldOf(t) = IF "successCallback" \in x.happened THEN "success" ELSE IF "errorCallback" \in x.happened THEN "error" ELSE "nothing"
      /\ ToldOf(t)' = IF "successCallback" \in y.happened THEN "success" ELSE IF "errorCallback" \in y.happened THEN "error" ELSE "nothing"
  BY <1>1 DEF ToldOf
<1>10. ToldOf(t)' = ToldOf(t)
  BY <1>2, <1>9 DEF DatabaseEffect
<1>11. x.sqlite # "inProgress" => y.sqlite # "inProgress"
  BY <1>2 DEF DatabaseEffect, FirstSteps
<1>12. CASE StatusOf(t)' = StatusOf(t)
  <2>1. ServiceKeeps({}, {}, {})
    BY <1>3, <1>5, <1>7, <1>10, <1>12 DEF ServiceKeeps
  <2> QED BY <1>5, <2>1, ServiceStutters DEF ServiceStep
<1>13. CASE StatusOf(t)' # StatusOf(t)
  <2>1. ServiceKeeps({}, {t}, {}) /\ t \in Transactions
    BY <1>3, <1>5, <1>7, <1>10 DEF ServiceKeeps
  <2>2. /\ StatusOf(t) = "open"
        /\ StatusOf(t)' = "undone" \/ (StatusOf(t)' = "committed" /\ ToldOf(t) = "nothing")
    BY <1>2, <1>8, <1>9, <1>11, <1>13 DEF DatabaseEffect
  <2> QED BY <1>5, <2>1, <2>2, ServiceEnds DEF ServiceStep
<1> QED BY <1>12, <1>13

\* openTransactionAndPreflight on a handle that was not stopped: the first in
\* line is opened, or fails.
LEMMA OpeningSeen ==
  ASSUME IInv, IInv', NEW t \in Created, handle' = handle, Created' = Created,
         \A u \in Created : u # t => Alike(u), DatabaseEffect(txn[t], txn'[t]),
         txn[t].nextStep = "openTransactionAndPreflight", ~InHandle(t), ~Stopped(HandleOf(t))
  PROVE  ServiceStep
<1>1. PICK x, y : x = txn[t] /\ y = txn'[t]
  OBVIOUS
<1>2. x.sqlite = "none" /\ x.happened = {} /\ x.nextStep \in FirstSteps
  BY <1>1 DEF IInv, Lives, LifeOf, Life, RecordOK, FirstSteps
<1>3. y.nextStep \notin FirstSteps /\ y.happened = {}
  BY <1>1, <1>2 DEF DatabaseEffect
<1>4. PICK h : h = HandleOf(t)
  OBVIOUS
<1>5. h \in DOMAIN handle \ StoppedHandles /\ h \in Handles /\ t \in Transactions
  BY <1>4, StoppedSeen
<1>6. PICK T : T = {t}
  OBVIOUS
<1>7. \A u \in Created \ T : Alike(u)
  BY <1>6
<1>8. /\ StoppedHandles' = StoppedHandles
      /\ \A u \in Transactions \ T : StatusOf(u)' = StatusOf(u) /\ ToldOf(u)' = ToldOf(u)
      /\ \A g : \/ g \in StoppedHandles
                \/ \A u \in Created \cap T : HandleOf(u) = g => (u \in Begun(g)' <=> u \in Begun(g))
                => WaitingOn(g)' = WaitingOn(g)
  BY <1>7, AlikeSeen
<1>9. \A g : g # h => WaitingOn(g)' = WaitingOn(g)
  BY <1>4, <1>6, <1>8
<1>10. t \in Begun(h)
  BY <1>1, <1>2, <1>4 DEF Begun, InHandle
<1>11. Begun(h) = {t}
  <2>1. ASSUME NEW u \in Begun(h)  PROVE u = t
    <3>1. u \in Created /\ HandleOf(u) = h /\ ~InHandle(u) /\ txn[u].nextStep # "none"
      BY <2>1 DEF Begun, InHandle, FirstSteps
    <3> QED BY <1>5, <1>10, <3>1, OneBegun
  <2> QED BY <1>10, <2>1
<1>12. Begun(h)' = {}
  <2>1. \A u \in Created : u \in Begun(h)' => u \in Begun(h) /\ u # t
    BY <1>1, <1>3 DEF Begun, Alike
  <2>2. Begun(h)' \subseteq Created
    BY DEF Begun
  <2> QED BY <1>11, <2>1, <2>2
<1>13. PICK q : q = handle[h].transactionQueue
  OBVIOUS
<1>14. q \in Seq(Transactions)
  BY <1>5, <1>13 DEF IInv, HandlesOK, Databases
<1>15. WaitingOn(h) = <<t>> \o q
  BY <1>5, <1>11, <1>13, BegunWaits
<1>16. WaitingOn(h)' = q
  <2>1. WaitingOn(h)' = << >> \o q
    BY <1>5, <1>8, <1>12, <1>13 DEF WaitingOn
  <2> QED BY <1>14, <2>1
<1>17. <<t>> \o q # << >> /\ Head(<<t>> \o q) = t /\ Tail(<<t>> \o q) = q
  BY <1>5, <1>14
<1>18. StatusOf(t) = "waiting"
  BY <1>1, <1>2, <1>4, <1>5 DEF StatusOf
<1>19. StatusOf(t)' \in {"open", "undone"}
  BY <1>1, <1>3 DEF StatusOf
<1>20. ToldOf(t) = "nothing" /\ ToldOf(t)' = "nothing"
  BY <1>1, <1>2, <1>3 DEF ToldOf
<1>21. ServiceKeeps({HandleOf(t)}, {t}, {})
  BY <1>4, <1>6, <1>8, <1>9, <1>20 DEF ServiceKeeps
<1>22. Service!Isolated([u \in Transactions |-> StatusOf(u)]')
  <2>1. IInv' => Service!Isolated([u \in Transactions |-> StatusOf(u)])'
    BY OpenIsolated, PTL
  <2> QED BY <2>1 DEF Service!Isolated
<1>23. Service!Next
  BY <1>4, <1>5, <1>8, <1>15, <1>16, <1>17, <1>18, <1>19, <1>21, <1>22, ServiceLeaves
<1> QED BY <1>23 DEF ServiceStep

\* FinishDatabaseStep changes t as the outcome says; the transactions that get
\* the lock still wait.
LEMMA FinishSeen ==
  ASSUME IInv, NEW t \in Created, ~InPending(t), NEW o, NEW queue, FinishDatabaseStep(t, o, queue),
         o.release \in BOOLEAN, o.release => IsActive(t)
  PROVE  Created' = Created /\ txn'[t] = o.txn /\ \A u \in Created : u # t => Alike(u)
<1> DEFINE n == NameOf(HandleOf(t))
           after == [txn EXCEPT ![t] = o.txn]
<1>1. after[t] = o.txn /\ DOMAIN after = Created /\ \A u \in Created : u # t => after[u] = txn[u]
  BY DEF IInv, TransactionsOK
<1>2. CASE ~o.release
  <2>1. txn' = after
    BY <1>2 DEF FinishDatabaseStep
  <2> HIDE DEF after
  <2> QED BY <1>1, <2>1 DEF Created, Alike
<1>3. CASE o.release
  <2>1. PICK old, i : old = InfoFor(n) /\ i = Deactivate(old, t)
    OBVIOUS
  <2>2. InfoOK(n, old) /\ t \in Active(old)
    BY <1>3, <2>1, InfoForOK DEF IsActive
  <2>3. i \in CoordinationInfos /\ ExclusiveInfo(i) /\ DistinctInfo(i) /\ Pending(i) = Pending(old)
    BY <2>1, <2>2, DeactivateProperties DEF InfoOK
  <2>4. PICK G : G = GrantedSet(i)
    OBVIOUS
  <2>5. G \subseteq Pending(old)
    BY <2>3, <2>4, ProcessPendingProperties
  <2>6. \A u \in G : u \in Created /\ InPending(u)
    BY <2>1, <2>2, <2>5 DEF InfoOK, InPending
  <2>7. /\ Created' = Created
        /\ \A u \in Created : txn'[u] = IF u \in G THEN LockAcquired(after[u]) ELSE after[u]
    BY <1>3, <2>1, <2>4 DEF FinishDatabaseStep, ProcessPending, Created
  <2> HIDE DEF after
  <2>8. txn'[t] = o.txn
    BY <1>1, <2>6, <2>7
  <2>9. ASSUME NEW u \in Created, u # t  PROVE Alike(u)
    <3>1. CASE u \in G
      <4>1. txn'[u] = LockAcquired(txn[u])
        BY <1>1, <2>7, <2>9, <3>1
      <4>2. txn[u].nextStep = "acquireLock" /\ txn[u] \in SQLTransactions
        BY <2>6, <3>1, OnlyPlace DEF IInv, Lives, TransactionsOK
      <4> QED BY <4>1, <4>2 DEF LockAcquired, SQLTransactions, Alike, FirstSteps
    <3>2. CASE u \notin G
      BY <1>1, <2>7, <2>9, <3>2 DEF Alike
    <3> QED BY <3>1, <3>2
  <2> QED BY <2>7, <2>8, <2>9
<1> QED BY <1>2, <1>3

\* A task on a stopped handle gives the transaction up.
LEMMA CancelledSeen ==
  ASSUME IInv, PerformTransactionTask, Stopped(Head(dbQueue).handle)
  PROVE  ServiceStep
<1>1. PICK t, queue : t = Head(dbQueue).transaction /\ queue = Tail(dbQueue)
  OBVIOUS
<1>2. Takable("transaction") /\ handle' = handle
  BY DEF PerformTransactionTask
<1>3. t \in Created /\ Head(dbQueue).handle = HandleOf(t) /\ InDb(t) /\ LifeOf(t) /\ ~Down
  BY <1>1, <1>2, TransactionTaskTaken DEF Taken
<1>4. Stopped(HandleOf(t)) /\ ~InPending(t)
  BY <1>3, OnlyPlace
<1>5. PICK x, P : x = txn[t] /\ P = PlacesOf(t)
  OBVIOUS
<1>6. PICK active \in BOOLEAN : active <=> IsActive(t)
  OBVIOUS
<1>7. Life(x, P, active, TRUE, FALSE) /\ x.nextStep # "none"
  <2>1. x.nextStep \in DatabaseSteps
    BY <1>3, <1>5, OnlyPlace
  <2> QED BY <1>3, <1>4, <1>5, <1>6, <2>1 DEF LifeOf, Life, DatabaseSteps
<1>8. PICK o : o = CancelOnDatabaseThread(x)
  OBVIOUS
<1>9. o.release = active /\ o.txn.sqlite = "none"
  BY <1>7, <1>8, CancelDatabaseLife
<1>10. FinishDatabaseStep(t, o, queue)
  BY <1>1, <1>3, <1>4, <1>5, <1>8 DEF PerformTransactionTask
<1>11. Created' = Created /\ txn'[t] = o.txn /\ \A u \in Created : u # t => Alike(u)
  BY <1>3, <1>4, <1>6, <1>9, <1>10, FinishSeen
<1>12. o.txn.nextStep = "none" /\ o.txn.happened = x.happened
  <2>1. x \in SQLTransactions
    BY <1>7 DEF Life, RecordOK
  <2>2. o.txn = [CancelOnContextThread(x) EXCEPT !.sqlite = "none"]
    BY <1>8 DEF CancelOnDatabaseThread
  <2> QED BY <2>1, <2>2 DEF CancelOnContextThread, SQLTransactions
<1>13. DatabaseEffect(txn[t], txn'[t])
  BY <1>5, <1>9, <1>11, <1>12 DEF DatabaseEffect, FirstSteps
<1>14. HandleOf(t) \in StoppedHandles /\ txn'[t].sqlite = "none" /\ Created \subseteq Transactions
  BY <1>3, <1>4, <1>9, <1>11, StoppedSeen
<1> QED BY <1>2, <1>3, <1>11, <1>13, <1>14, DatabaseSeen

\* acquireLock: the transaction still waits, whether it got the lock or not.
LEMMA LockAskedSeen ==
  ASSUME IInv, PerformTransactionTask, ~Stopped(Head(dbQueue).handle),
         txn[Head(dbQueue).transaction].nextStep = "acquireLock"
  PROVE  ServiceStep
<1>1. PICK t, queue : t = Head(dbQueue).transaction /\ queue = Tail(dbQueue)
  OBVIOUS
<1>2. Takable("transaction") /\ handle' = handle
  BY DEF PerformTransactionTask
<1>3. t \in Created /\ Head(dbQueue).handle = HandleOf(t) /\ InDb(t) /\ LifeOf(t)
  BY <1>1, <1>2, TransactionTaskTaken DEF Taken
<1>4. ~Stopped(HandleOf(t)) /\ txn[t].nextStep = "acquireLock" /\ ~InPending(t)
  BY <1>1, <1>3, OnlyPlace
<1>5. PICK n : n = NameOf(HandleOf(t))
  OBVIOUS
<1>6. PICK old, i : old = InfoFor(n) /\ i = Enqueue(old, t)
  OBVIOUS
<1>7. ProcessPending(n, i, txn, queue)
  BY <1>1, <1>3, <1>4, <1>5, <1>6 DEF PerformTransactionTask
<1>8. t \in Transactions /\ ~IsActive(t)
  BY <1>3, <1>4 DEF IInv, TransactionsOK, LifeOf, Life
<1>9. InfoOK(n, old) /\ t \notin Pending(old) /\ t \notin Active(old)
  BY <1>4, <1>5, <1>6, <1>8, InfoForOK DEF InPending, IsActive
<1>10. i \in CoordinationInfos /\ ExclusiveInfo(i) /\ DistinctInfo(i) /\ Pending(i) = Pending(old) \cup {t}
  BY <1>6, <1>8, <1>9, EnqueueProperties DEF InfoOK
<1>11. PICK G : G = GrantedSet(i)
  OBVIOUS
<1>12. G \subseteq Pending(old) \cup {t}
  BY <1>10, <1>11, ProcessPendingProperties
<1>13. \A u \in G : u = t \/ (u \in Created /\ InPending(u))
  BY <1>6, <1>9, <1>12 DEF InfoOK, InPending
<1>14. Created' = Created /\ \A u \in Created : txn'[u] = IF u \in G THEN LockAcquired(txn[u]) ELSE txn[u]
  BY <1>7, <1>11 DEF ProcessPending, Created
<1>15. ASSUME NEW u \in Created  PROVE Alike(u)
  <2>1. CASE u \in G
    <3>1. txn'[u] = LockAcquired(txn[u])
      BY <1>14, <2>1
    <3>2. txn[u].nextStep = "acquireLock" /\ txn[u] \in SQLTransactions
      BY <1>4, <1>13, <2>1, OnlyPlace DEF IInv, Lives, TransactionsOK
    <3> QED BY <3>1, <3>2 DEF LockAcquired, SQLTransactions, Alike, FirstSteps
  <2>2. CASE u \notin G
    BY <1>14, <2>2 DEF Alike
  <2> QED BY <2>1, <2>2
<1>16. PICK T : T = {}
  OBVIOUS
<1>17. /\ StoppedHandles' = StoppedHandles
       /\ \A u \in Transactions \ T : StatusOf(u)' = StatusOf(u) /\ ToldOf(u)' = ToldOf(u)
       /\ \A h : \/ h \in StoppedHandles
                 \/ \A u \in Created \cap T : HandleOf(u) = h => (u \in Begun(h)' <=> u \in Begun(h))
                 => WaitingOn(h)' = WaitingOn(h)
  <2>1. \A u \in Created \ T : Alike(u)
    BY <1>15
  <2> QED BY <1>2, <1>14, <2>1, AlikeSeen
<1>18. ServiceKeeps({}, {}, {})
  BY <1>16, <1>17 DEF ServiceKeeps
<1> QED BY <1>17, <1>18, ServiceStutters DEF ServiceStep

\* Any other step on a handle that was not stopped.
LEMMA StepPerformedSeen ==
  ASSUME IInv, IInv', PerformTransactionTask, ~Stopped(Head(dbQueue).handle),
         txn[Head(dbQueue).transaction].nextStep # "acquireLock"
  PROVE  ServiceStep
<1>1. PICK t, queue : t = Head(dbQueue).transaction /\ queue = Tail(dbQueue)
  OBVIOUS
<1>2. Takable("transaction") /\ handle' = handle
  BY DEF PerformTransactionTask
<1>3. t \in Created /\ Head(dbQueue).handle = HandleOf(t) /\ InDb(t) /\ LifeOf(t) /\ ~Down
  BY <1>1, <1>2, TransactionTaskTaken DEF Taken
<1>4. ~Stopped(HandleOf(t)) /\ txn[t].nextStep # "acquireLock" /\ ~InPending(t) /\ ~InHandle(t)
  BY <1>1, <1>3, OnlyPlace
<1>5. PICK x, deleted : x = txn[t] /\ deleted = handle[HandleOf(t)].deleted
  OBVIOUS
<1>6. PICK o \in DatabaseStep(x, deleted) : FinishDatabaseStep(t, o, queue)
  BY <1>1, <1>3, <1>4, <1>5 DEF PerformTransactionTask
<1>7. x.nextStep \in DatabaseSteps \ {"acquireLock", "postflightAndCommit"}
  BY <1>3, <1>4, <1>5, OnlyPlace
<1>8. RecordOK(x) /\ SqliteFits(x) /\ x.lockAcquired /\ IsActive(t)
  BY <1>3, <1>4, <1>5, <1>7 DEF LifeOf, Life, DatabaseSteps
<1>9. deleted \in BOOLEAN
  BY <1>3, <1>5 DEF IInv, HandlesOK, TransactionsOK, Databases
<1>10. o.release \in BOOLEAN
  BY <1>6, <1>7, <1>8, <1>9, DatabaseStepDone DEF OutcomeOK
<1>11. Created' = Created /\ txn'[t] = o.txn /\ \A u \in Created : u # t => Alike(u)
  BY <1>3, <1>4, <1>6, <1>8, <1>10, FinishSeen
<1>12. DatabaseEffect(txn[t], txn'[t])
  BY <1>5, <1>6, <1>7, <1>8, <1>11, DatabaseStepEffect
<1>13. CASE x.nextStep = "openTransactionAndPreflight"
  BY <1>2, <1>3, <1>4, <1>5, <1>11, <1>12, <1>13, OpeningSeen
<1>14. CASE x.nextStep # "openTransactionAndPreflight"
  <2>1. txn[t].nextStep \notin FirstSteps /\ Created \subseteq Transactions
    BY <1>5, <1>7, <1>14 DEF FirstSteps, DatabaseSteps, IInv, TransactionsOK
  <2> QED BY <1>2, <1>3, <1>11, <1>12, <2>1, DatabaseSeen
<1> QED BY <1>13, <1>14

\* The loop of runStatements goes on.
LEMMA ContinueStatementsSeen ==
  ASSUME IInv, ContinueStatements
  PROVE  ServiceStep
<1>1. PICK t, queue : t = dbThread.transaction /\ queue = dbQueue
  OBVIOUS
<1>2. dbThread.at = "runStatements" /\ handle' = handle
  BY DEF ContinueStatements
<1>3. t \in Created /\ Created \subseteq Transactions
  BY <1>1, <1>2 DEF IInv, ThreadsOK, TransactionsOK
<1>4. InLoop(t) /\ LifeOf(t) /\ ~Down
  BY <1>1, <1>2, <1>3 DEF InLoop, IInv, Lives, Down, Closing
<1>5. PICK x : x = txn[t]
  OBVIOUS
<1>6. PICK o \in RunStatements(x) : FinishDatabaseStep(t, o, queue)
  BY <1>1, <1>5 DEF ContinueStatements
<1>7. x.nextStep = "runStatements" /\ ~InPending(t)
  BY <1>4, <1>5, OnlyPlace
<1>8. RecordOK(x) /\ SqliteFits(x) /\ x.lockAcquired /\ IsActive(t)
  BY <1>4, <1>5, <1>7 DEF LifeOf, Life
<1>9. o.release \in BOOLEAN
  BY <1>6, <1>7, <1>8, StatementsRun DEF OutcomeOK
<1>10. Created' = Created /\ txn'[t] = o.txn /\ \A u \in Created : u # t => Alike(u)
  BY <1>3, <1>6, <1>7, <1>8, <1>9, FinishSeen
<1>11. DatabaseEffect(txn[t], txn'[t])
  BY <1>5, <1>6, <1>7, <1>8, <1>10, StatementsEffect
<1>12. txn[t].nextStep \notin FirstSteps
  BY <1>5, <1>7 DEF FirstSteps
<1> QED BY <1>2, <1>3, <1>10, <1>11, <1>12, DatabaseSeen

\* The transaction whose script runs was called back.
LEMMA ScriptSeen ==
  ASSUME IInv, ctxThread # NoTransaction
  PROVE  /\ ctxThread \in Created /\ Created \subseteq Transactions /\ txn[ctxThread] \in SQLTransactions
         /\ txn[ctxThread].nextStep \in {"deliverTransactionCallback", "deliverStatementCallback"}
         /\ RecordOK(txn[ctxThread]) /\ txn[ctxThread].nextStep \notin FirstSteps
<1>1. ctxThread \in Created /\ Created \subseteq Transactions
  BY DEF IInv, QueuesOK, TransactionsOK
<1>2. LifeOf(ctxThread) /\ InScript(ctxThread)
  BY <1>1 DEF IInv, Lives, InScript
<1>3. txn[ctxThread].nextStep \in {"deliverTransactionCallback", "deliverStatementCallback"}
  BY <1>2, OnlyPlace
<1> QED BY <1>1, <1>2, <1>3 DEF LifeOf, Life, RecordOK, FirstSteps

\* One transaction changes.
LEMMA OneChanges ==
  ASSUME NEW t \in Created, NEW y, txn' = [txn EXCEPT ![t] = y]
  PROVE  Created' = Created /\ txn'[t] = y /\ \A u \in Created : u # t => txn'[u] = txn[u]
  BY DEF Created

\* A statement is added.
LEMMA ScriptExecutesSQLSeen ==
  ASSUME IInv, ScriptExecutesSQL
  PROVE  ServiceStep
<1>1. PICK t, x : t = ctxThread /\ x = txn[t]
  OBVIOUS
<1>2. ctxThread # NoTransaction /\ handle' = handle
  BY DEF ScriptExecutesSQL
<1>3. t \in Created /\ Created \subseteq Transactions /\ x \in SQLTransactions /\ x.nextStep \notin FirstSteps
  BY <1>1, <1>2, ScriptSeen
<1>4. PICK kind, deleted, mismatch : txn' = [txn EXCEPT ![t] = ExecuteSQL(txn[t], kind, deleted, mismatch)]
  BY <1>1 DEF ScriptExecutesSQL
<1>5. PICK y : y = ExecuteSQL(x, kind, deleted, mismatch)
  OBVIOUS
<1>6. Created' = Created /\ txn'[t] = y /\ \A u \in Created : u # t => txn'[u] = txn[u]
  BY <1>1, <1>3, <1>4, <1>5, OneChanges
<1>7. ContextEffect(x, y)
  BY <1>3, <1>5 DEF ExecuteSQL, SQLTransactions, ContextEffect
<1> QED BY <1>1, <1>2, <1>3, <1>6, <1>7, ContextSeen

\* A script returns or throws.
LEMMA ScriptReturnsSeen ==
  ASSUME IInv, ScriptReturns
  PROVE  ServiceStep
<1>1. PICK t, x : t = ctxThread /\ x = txn[t]
  OBVIOUS
<1>2. ctxThread # NoTransaction /\ handle' = handle
  BY DEF ScriptReturns
<1>3. /\ t \in Created /\ Created \subseteq Transactions /\ RecordOK(x) /\ x.nextStep \notin FirstSteps
      /\ x.nextStep \in {"deliverTransactionCallback", "deliverStatementCallback"}
  BY <1>1, <1>2, ScriptSeen
<1>4. PICK failed \in BOOLEAN : txn' = [txn EXCEPT ![t] = AfterScript(txn[t], failed).txn]
  BY <1>1 DEF ScriptReturns, FinishContextStep
<1>5. PICK y : y = AfterScript(x, failed).txn
  OBVIOUS
<1>6. Created' = Created /\ txn'[t] = y /\ \A u \in Created : u # t => txn'[u] = txn[u]
  BY <1>1, <1>3, <1>4, <1>5, OneChanges
<1>7. ContextEffect(x, y)
  BY <1>3, <1>5, AfterScriptEffect
<1> QED BY <1>1, <1>2, <1>3, <1>6, <1>7, ContextSeen

\* A callback is performed, or given up.
LEMMA PerformPendingCallbackSeen ==
  ASSUME IInv, PerformPendingCallback
  PROVE  ServiceStep
<1>1. PICK t, x : t = Head(ctxQueue) /\ x = txn[t]
  OBVIOUS
<1>2. handle' = handle /\ ctxQueue # << >>
  BY DEF PerformPendingCallback
<1>3. t \in Created /\ InCtx(t) /\ LifeOf(t) /\ Created \subseteq Transactions
  <2>1. ctxQueue \in Seq(Created)
    BY DEF IInv, QueuesOK
  <2>2. t \in Created /\ t \in ToSet(ctxQueue)
    BY <1>1, <1>2, <2>1 DEF ToSet
  <2> QED BY <2>2 DEF IInv, Lives, InCtx, TransactionsOK
<1>4. x.nextStep \in ContextSteps
  BY <1>1, <1>3, OnlyPlace
<1>5. RecordOK(x) /\ x \in SQLTransactions /\ x.nextStep \notin FirstSteps
  BY <1>1, <1>3, <1>4 DEF LifeOf, Life, RecordOK, FirstSteps, ContextSteps
<1>6. PICK y : txn' = [txn EXCEPT ![t] = y] /\ ContextEffect(x, y)
  <2>1. CASE Stopped(HandleOf(t)) /\ txn' = [txn EXCEPT ![t] = CancelOnContextThread(txn[t])]
    <3>1. ContextEffect(x, CancelOnContextThread(x))
      BY <1>5 DEF CancelOnContextThread, SQLTransactions, ContextEffect, FirstSteps
    <3> QED BY <1>1, <2>1, <3>1
  <2>2. CASE EntersScript(txn[t]) /\ txn' = [txn EXCEPT ![t] = BeforeScript(txn[t])]
    <3>1. ContextEffect(x, BeforeScript(x))
      BY <1>5 DEF BeforeScript, SQLTransactions, ContextEffect, FirstSteps
    <3> QED BY <1>1, <2>2, <3>1
  <2>3. ASSUME ~EntersScript(txn[t]), NEW o \in ContextStep(txn[t]), FinishContextStep(t, o)
        PROVE  \E y : txn' = [txn EXCEPT ![t] = y] /\ ContextEffect(x, y)
    <3>1. ContextEffect(x, o.txn)
      BY <1>1, <1>4, <1>5, <2>3, ContextStepEffect
    <3> QED BY <2>3, <3>1 DEF FinishContextStep
  <2> QED BY <1>1, <2>1, <2>2, <2>3 DEF PerformPendingCallback
<1>7. Created' = Created /\ txn'[t] = y /\ \A u \in Created : u # t => txn'[u] = txn[u]
  BY <1>3, <1>6, OneChanges
<1> QED BY <1>1, <1>2, <1>3, <1>5, <1>6, <1>7, ContextSeen

\* Handles change, but not who waits on them.
LEMMA HandlesSeen ==
  ASSUME txn' = txn, StoppedHandles' = StoppedHandles, DOMAIN handle' = DOMAIN handle,
         \A h \in DOMAIN handle : handle'[h].transactionQueue = handle[h].transactionQueue
  PROVE  ServiceStep
<1>1. Created' = Created
  BY DEF Created
<1>2. \A t \in Transactions : StatusOf(t)' = StatusOf(t) /\ ToldOf(t)' = ToldOf(t)
  BY <1>1 DEF StatusOf, ToldOf
<1>3. ASSUME NEW h  PROVE WaitingOn(h)' = WaitingOn(h)
  <2>1. CASE h \in DOMAIN handle
    <3>1. handle'[h].transactionQueue = handle[h].transactionQueue /\ Begun(h)' = Begun(h)
      BY <1>1, <2>1 DEF Begun
    <3> QED BY <3>1 DEF WaitingOn
  <2>2. CASE h \notin DOMAIN handle
    BY <2>2 DEF WaitingOn
  <2> QED BY <2>1, <2>2
<1>4. ServiceKeeps({}, {}, {})
  BY <1>2, <1>3 DEF ServiceKeeps
<1> QED BY <1>4, ServiceStutters DEF ServiceStep

\* Handle h is stopped, or was stopped before.
LEMMA StopSeen ==
  ASSUME IInv, NEW h \in DOMAIN handle, txn' = txn, DOMAIN handle' = DOMAIN handle,
         \A g \in DOMAIN handle : handle'[g].transactionQueue = handle[g].transactionQueue,
         StoppedHandles' \in {StoppedHandles, StoppedHandles \cup {h}}
  PROVE  ServiceStep
<1>1. CASE StoppedHandles' = StoppedHandles
  BY <1>1, HandlesSeen
<1>2. CASE StoppedHandles' # StoppedHandles
  <2>1. StoppedHandles' = StoppedHandles \cup {h} /\ h \notin StoppedHandles /\ h \in Handles
    BY <1>2 DEF IInv, HandlesOK
  <2>2. Created' = Created
    BY DEF Created
  <2>3. \A t \in Transactions : ToldOf(t)' = ToldOf(t)
    BY <2>2 DEF ToldOf
  <2>4. \A t \in Transactions :
          StatusOf(t)' = IF StatusOf(t) = "waiting" /\ HandleOf(t) = h THEN "undone" ELSE StatusOf(t)
    BY <2>1, <2>2 DEF StatusOf
  <2>5. WaitingOn(h)' = << >>
    BY <2>1 DEF WaitingOn
  <2>6. ASSUME NEW g, g # h  PROVE WaitingOn(g)' = WaitingOn(g)
    <3>1. CASE g \in DOMAIN handle
      <4>1. handle'[g].transactionQueue = handle[g].transactionQueue /\ Begun(g)' = Begun(g)
        BY <2>2, <3>1 DEF Begun
      <4>2. g \in StoppedHandles' <=> g \in StoppedHandles
        BY <2>1, <2>6
      <4> QED BY <4>1, <4>2 DEF WaitingOn
    <3>2. CASE g \notin DOMAIN handle
      BY <3>2 DEF WaitingOn
    <3> QED BY <3>1, <3>2
  <2>7. ServiceKeeps({h}, Transactions, {})
    BY <2>3, <2>6 DEF ServiceKeeps
  <2> QED BY <2>1, <2>4, <2>5, <2>7, ServiceStops DEF ServiceStep
<1> QED BY <1>1, <1>2

\* close() stops a handle that scripts have.
LEMMA CloseSeen ==
  ASSUME IInv, NEW h \in DOMAIN handle, NEW p, NEW then, Close(h, p, then), txn' = txn
  PROVE  ServiceStep
<1>1. /\ DOMAIN handle' = DOMAIN handle
      /\ \A g \in DOMAIN handle : g # h => handle'[g] = handle[g]
  BY DEF Close
<1>2. /\ ~handle'[h].opened /\ handle'[h].returned = handle[h].returned
      /\ handle'[h].interrupted = handle[h].interrupted
      /\ handle'[h].transactionQueue = handle[h].transactionQueue
  <2>1. handle[h] \in Databases
    BY Types
  <2>2. handle'[h] = [handle[h] EXCEPT !.transactionQueueEnabled = FALSE, !.transactionInProgress = FALSE,
                                       !.opened = FALSE]
    BY DEF Close
  <2> QED BY <2>1, <2>2 DEF Databases
<1>3. \A g \in DOMAIN handle : g # h => (g \in StoppedHandles' <=> g \in StoppedHandles)
  BY <1>1 DEF StoppedHandles
<1>4. h \in StoppedHandles => h \in StoppedHandles'
  BY <1>1, <1>2 DEF StoppedHandles
<1>5. StoppedHandles' \subseteq DOMAIN handle /\ StoppedHandles \subseteq DOMAIN handle
  BY <1>1 DEF StoppedHandles
<1>6. CASE h \in StoppedHandles' /\ h \notin StoppedHandles
  <2>1. StoppedHandles' = StoppedHandles \cup {h}
    BY <1>3, <1>5, <1>6
  <2> QED BY <1>1, <1>2, <2>1, StopSeen
<1>7. CASE h \in StoppedHandles' <=> h \in StoppedHandles
  <2>1. StoppedHandles' = StoppedHandles
    BY <1>3, <1>5, <1>7
  <2> QED BY <1>1, <1>2, <2>1, HandlesSeen
<1> QED BY <1>4, <1>6, <1>7

\* A worker's handle is interrupted.
LEMMA InterruptSeen ==
  ASSUME IInv, NEW h \in Handles, Interrupt(h)
  PROVE  ServiceStep
<1>1. h \in DOMAIN handle /\ txn' = txn /\ handle' = [handle EXCEPT ![h].interrupted = TRUE]
  BY DEF Interrupt
<1>2. DOMAIN handle' = DOMAIN handle /\ \A g \in DOMAIN handle : g # h => handle'[g] = handle[g]
  BY <1>1
<1>3. handle'[h].interrupted /\ handle'[h].transactionQueue = handle[h].transactionQueue
  <2>1. handle[h] \in Databases
    BY <1>1, Types
  <2>2. handle'[h] = [handle[h] EXCEPT !.interrupted = TRUE]
    BY <1>1
  <2> QED BY <2>1, <2>2 DEF Databases
<1>4. StoppedHandles' = StoppedHandles \cup {h}
  BY <1>1, <1>2, <1>3 DEF StoppedHandles
<1> QED BY <1>1, <1>2, <1>3, <1>4, StopSeen

\* openDatabase makes a handle nobody waits on.
LEMMA OpenDatabaseSeen ==
  ASSUME IInv, NEW h \in Handles, OpenDatabase(h)
  PROVE  ServiceStep
<1>1. /\ h \notin DOMAIN handle /\ txn' = txn
      /\ handle' = [g \in DOMAIN handle \cup {h} |-> IF g = h THEN NewDatabase ELSE handle[g]]
  BY DEF OpenDatabase
<1>2. /\ DOMAIN handle' = DOMAIN handle \cup {h} /\ handle'[h] = NewDatabase
      /\ \A g \in DOMAIN handle : handle'[g] = handle[g]
  BY <1>1
<1>3. StoppedHandles' = StoppedHandles /\ h \notin StoppedHandles
  <2>1. ~handle'[h].interrupted /\ ~handle'[h].returned
    BY <1>2 DEF NewDatabase
  <2> QED BY <1>1, <1>2, <2>1 DEF StoppedHandles
<1>4. Created' = Created
  BY <1>1 DEF Created
<1>5. \A t \in Transactions : StatusOf(t)' = StatusOf(t) /\ ToldOf(t)' = ToldOf(t)
  BY <1>1, <1>3, <1>4 DEF StatusOf, ToldOf
<1>6. WaitingOn(h) = << >>
  BY <1>1 DEF WaitingOn
<1>7. WaitingOn(h)' = << >>
  <2>1. Begun(h)' = {}
    <3>1. \A t \in Created : HandleOf(t) # h
      BY <1>1 DEF IInv, TransactionsOK
    <3> QED BY <1>4, <3>1 DEF Begun
  <2>2. handle'[h].transactionQueue = << >> /\ h \in DOMAIN handle' \ StoppedHandles'
    BY <1>2, <1>3 DEF NewDatabase
  <2>3. WaitingOn(h)' = << >> \o << >>
    BY <2>1, <2>2 DEF WaitingOn
  <2> QED BY <2>3
<1>8. ASSUME NEW g, g # h  PROVE WaitingOn(g)' = WaitingOn(g)
  <2>1. CASE g \in DOMAIN handle
    <3>1. handle'[g] = handle[g] /\ Begun(g)' = Begun(g) /\ g \in DOMAIN handle'
      BY <1>1, <1>2, <1>4, <2>1 DEF Begun
    <3> QED BY <1>3, <2>1, <3>1 DEF WaitingOn
  <2>2. CASE g \notin DOMAIN handle
    BY <1>2, <1>8, <2>2 DEF WaitingOn
  <2> QED BY <2>1, <2>2
<1>9. ServiceKeeps({}, {}, {})
  BY <1>5, <1>6, <1>7, <1>8 DEF ServiceKeeps
<1> QED BY <1>3, <1>9, ServiceStutters DEF ServiceStep

\* A database was opened, or not: no script had the handle before.
LEMMA PerformOpenTaskSeen ==
  ASSUME IInv, PerformOpenTask
  PROVE  ServiceStep
<1>1. PICK h : h = Head(dbQueue).handle
  OBVIOUS
<1>2. h \in DOMAIN handle /\ ~handle[h].returned /\ txn' = txn
  <2>1. dbQueue # << >> /\ Head(dbQueue).kind = "open" /\ txn' = txn
    BY DEF PerformOpenTask, Takable
  <2> QED BY <1>1, <2>1, FirstTask DEF TaskOK, Tasks
<1>3. PICK success \in BOOLEAN : handle' = [handle EXCEPT ![h].opened = success, ![h].returned = success]
  BY <1>1 DEF PerformOpenTask
<1>4. DOMAIN handle' = DOMAIN handle /\ \A g \in DOMAIN handle : g # h => handle'[g] = handle[g]
  BY <1>3
<1>5. /\ handle'[h].opened = success /\ handle'[h].returned = success
      /\ handle'[h].interrupted = handle[h].interrupted
      /\ handle'[h].transactionQueue = handle[h].transactionQueue
  <2>1. handle[h] \in Databases
    BY <1>2, Types
  <2>2. handle'[h] = [handle[h] EXCEPT !.opened = success, !.returned = success]
    BY <1>2, <1>3
  <2> QED BY <2>1, <2>2 DEF Databases
<1>6. StoppedHandles' = StoppedHandles
  BY <1>2, <1>4, <1>5 DEF StoppedHandles
<1> QED BY <1>2, <1>4, <1>5, <1>6, HandlesSeen

\* Only what the tracker knows of a handle changes.
LEMMA FlagsSeen ==
  ASSUME txn' = txn, DOMAIN handle' = DOMAIN handle,
         \A h \in DOMAIN handle : /\ handle'[h].opened = handle[h].opened /\ handle'[h].returned = handle[h].returned
                                  /\ handle'[h].interrupted = handle[h].interrupted
                                  /\ handle'[h].transactionQueue = handle[h].transactionQueue
  PROVE  ServiceStep
<1>1. StoppedHandles' = StoppedHandles
  BY DEF StoppedHandles
<1> QED BY <1>1, HandlesSeen

\* Neither transactions nor handles change.
LEMMA NothingSeen ==
  ASSUME txn' = txn, handle' = handle
  PROVE  ServiceStep
  BY FlagsSeen

\* A wait ends; openDatabase may take its handle off the tracker.
LEMMA WaitForTaskCompletionSeen ==
  ASSUME IInv, NEW p, WaitForTaskCompletion(p)
  PROVE  ServiceStep
<1>1. ASSUME NEW h \in DOMAIN handle
      PROVE  /\ handle'[h].opened = handle[h].opened /\ handle'[h].returned = handle[h].returned
             /\ handle'[h].interrupted = handle[h].interrupted
             /\ handle'[h].transactionQueue = handle[h].transactionQueue
  <2>1. PICK r : r = (handle[h].registered /\ (p = "context" => handle[h].returned))
    OBVIOUS
  <2>2. handle'[h] = [handle[h] EXCEPT !.registered = r]
    BY <1>1, <2>1 DEF WaitForTaskCompletion
  <2>3. handle[h] \in Databases
    BY <1>1, Types
  <2> QED BY <2>2, <2>3 DEF Databases
<1>2. txn' = txn /\ DOMAIN handle' = DOMAIN handle
  BY DEF WaitForTaskCompletion
<1> QED BY <1>1, <1>2, FlagsSeen

\* The open task of a handle is scheduled.
LEMMA OpenAndVerifyVersionSeen ==
  ASSUME IInv, NEW h \in Handles, OpenAndVerifyVersion(h)
  PROVE  ServiceStep
<1>1. txn' = txn /\ handle' = [handle EXCEPT ![h].opening = FALSE]
  BY DEF OpenAndVerifyVersion
<1>2. handle \in [DOMAIN handle -> Databases]
  BY Types
<1>3. ASSUME NEW g \in DOMAIN handle
      PROVE  /\ handle'[g].opened = handle[g].opened /\ handle'[g].returned = handle[g].returned
             /\ handle'[g].interrupted = handle[g].interrupted
             /\ handle'[g].transactionQueue = handle[g].transactionQueue
  BY <1>1, <1>2 DEF Databases
<1> QED BY <1>1, <1>3, FlagsSeen

\* One handle is marked.
LEMMA MarkAsDeletedAndCloseSeen ==
  ASSUME IInv, NEW h \in Handles, MarkAsDeletedAndClose(h)
  PROVE  ServiceStep
<1>1. txn' = txn /\ handle' = [handle EXCEPT ![h].deleted = TRUE]
  BY DEF MarkAsDeletedAndClose
<1>2. handle \in [DOMAIN handle -> Databases]
  BY Types
<1>3. ASSUME NEW g \in DOMAIN handle
      PROVE  /\ handle'[g].opened = handle[g].opened /\ handle'[g].returned = handle[g].returned
             /\ handle'[g].interrupted = handle[g].interrupted
             /\ handle'[g].transactionQueue = handle[g].transactionQueue
  BY <1>1, <1>2 DEF Databases
<1> QED BY <1>1, <1>3, FlagsSeen

\* A closed handle is taken off the tracker.
LEMMA RemoveOpenDatabaseSeen ==
  ASSUME IInv, RemoveOpenDatabase
  PROVE  ServiceStep
<1>1. txn' = txn /\ handle' = [handle EXCEPT ![dbThread.handle].registered = FALSE]
  BY DEF RemoveOpenDatabase
<1>2. handle \in [DOMAIN handle -> Databases]
  BY Types
<1>3. ASSUME NEW g \in DOMAIN handle
      PROVE  /\ handle'[g].opened = handle[g].opened /\ handle'[g].returned = handle[g].returned
             /\ handle'[g].interrupted = handle[g].interrupted
             /\ handle'[g].transactionQueue = handle[g].transactionQueue
  BY <1>1, <1>2 DEF Databases
<1> QED BY <1>1, <1>3, FlagsSeen

\* The coordinator forgets the transactions: those that were open are undone.
LEMMA ShutdownCoordinatorSeen ==
  ASSUME IInv, ShutdownCoordinator
  PROVE  ServiceStep
<1>1. /\ handle' = handle /\ Created' = Created
      /\ \A u \in Created : txn'[u] = IF u \in ActiveTransactions THEN [txn[u] EXCEPT !.sqlite = "none"] ELSE txn[u]
  BY DEF Created, ShutdownCoordinator
<1>2. ASSUME NEW u \in Created
      PROVE  /\ txn'[u].happened = txn[u].happened /\ txn'[u].nextStep = txn[u].nextStep /\ txn'[u].sqlite = "none"
             /\ txn[u].nextStep \in FirstSteps => txn[u].sqlite = "none"
  <2>1. PICK x : x = txn[u]
    OBVIOUS
  <2>2. x \in SQLTransactions /\ RecordOK(x) /\ (x.sqlite # "none" => u \in ActiveTransactions)
    BY <1>2, <2>1, ActiveAnywhere DEF IInv, Lives, LifeOf, Life, RecordOK
  <2>3. txn'[u] = [x EXCEPT !.sqlite = "none"] \/ (txn'[u] = x /\ x.sqlite = "none")
    BY <1>1, <2>1, <2>2
  <2>4. txn'[u].happened = x.happened /\ txn'[u].nextStep = x.nextStep /\ txn'[u].sqlite = "none"
    BY <2>2, <2>3 DEF SQLTransactions
  <2>5. x.nextStep \in FirstSteps => x.sqlite = "none"
    BY <2>2 DEF RecordOK, FirstSteps
  <2> QED BY <2>1, <2>4, <2>5
<1>3. StoppedHandles' = StoppedHandles
  BY <1>1 DEF StoppedHandles
<1>4. \A t \in Transactions : ToldOf(t)' = ToldOf(t)
  BY <1>1, <1>2 DEF ToldOf
<1>5. ASSUME NEW h  PROVE WaitingOn(h)' = WaitingOn(h)
  <2>1. Begun(h)' = Begun(h)
    BY <1>1, <1>2 DEF Begun
  <2> QED BY <1>1, <1>3, <2>1 DEF WaitingOn
<1>6. ASSUME NEW t \in Transactions
      PROVE  StatusOf(t)' = IF StatusOf(t) = "open" THEN "undone" ELSE StatusOf(t)
  <2>1. CASE t \in Created
    BY <1>1, <1>2, <1>3, <2>1 DEF StatusOf
  <2>2. CASE t \notin Created
    BY <1>1, <2>2 DEF StatusOf
  <2> QED BY <2>1, <2>2
<1>7. ServiceKeeps({}, Transactions, {})
  BY <1>4, <1>5 DEF ServiceKeeps
<1> QED BY <1>3, <1>6, <1>7, ServiceUndoesAll DEF ServiceStep

\* The queue of handle h changes, and transactions are made on h.
QueueChanges(h, d) ==
  /\ h \in DOMAIN handle /\ handle' = [handle EXCEPT ![h] = d]
  /\ d.opened = handle[h].opened /\ d.returned = handle[h].returned /\ d.interrupted = handle[h].interrupted
  /\ Created \subseteq Created' /\ Created' \subseteq Transactions
  /\ \A u \in Created : txn'[u] = txn[u]
  /\ \A u \in Created' \ Created : HandleOf(u) = h

\* Nothing changes on other handles, nor for the transactions there were.
LEMMA QueueSeen ==
  ASSUME NEW h, NEW d, QueueChanges(h, d)
  PROVE  /\ StoppedHandles' = StoppedHandles /\ DOMAIN handle' = DOMAIN handle /\ handle'[h] = d
         /\ \A u \in Transactions : u \in Created \/ u \notin Created' =>
              StatusOf(u)' = StatusOf(u) /\ ToldOf(u)' = ToldOf(u)
         /\ \A g : g # h \/ h \in StoppedHandles => WaitingOn(g)' = WaitingOn(g)
<1>1. /\ DOMAIN handle' = DOMAIN handle /\ handle'[h] = d /\ h \in DOMAIN handle
      /\ \A g \in DOMAIN handle : g # h => handle'[g] = handle[g]
  BY DEF QueueChanges
<1>2. StoppedHandles' = StoppedHandles
  BY <1>1 DEF StoppedHandles, QueueChanges
<1>3. \A u \in Transactions : u \in Created \/ u \notin Created' => StatusOf(u)' = StatusOf(u) /\ ToldOf(u)' = ToldOf(u)
  BY <1>2 DEF StatusOf, ToldOf, QueueChanges
<1>4. ASSUME NEW g, g # h  PROVE WaitingOn(g)' = WaitingOn(g)
  <2>1. CASE g \in DOMAIN handle
    <3>1. handle'[g] = handle[g]
      BY <1>1, <1>4, <2>1
    <3>2. Begun(g)' = Begun(g)
      BY <1>4, <3>1 DEF Begun, QueueChanges
    <3> QED BY <1>1, <1>2, <3>1, <3>2 DEF WaitingOn
  <2>2. CASE g \notin DOMAIN handle
    BY <1>1, <2>2 DEF WaitingOn
  <2> QED BY <2>1, <2>2
<1>5. ASSUME h \in StoppedHandles  PROVE WaitingOn(h)' = WaitingOn(h)
  BY <1>2, <1>5 DEF WaitingOn
<1> QED BY <1>1, <1>2, <1>3, <1>4, <1>5

\* The first of the queue r of a handle that has nothing in progress is
\* scheduled: everyone waits as before.
LEMMA ScheduleSeen ==
  ASSUME IInv, NEW h, NEW d, QueueChanges(h, d), h \notin StoppedHandles, Begun(h) = {},
         NEW r \in Seq(Transactions), r # << >>, Distinct(r), d.transactionQueue = Tail(r),
         ToSet(r) = {u \in Created' : HandleOf(u) = h /\ (u \in Created => InHandle(u))},
         \A u \in Created' : u \notin Created => txn'[u].nextStep = "acquireLock"
  PROVE  WaitingOn(h)' = r
<1>1. /\ StoppedHandles' = StoppedHandles /\ DOMAIN handle' = DOMAIN handle /\ handle'[h].transactionQueue = Tail(r)
  BY QueueSeen
<1>2. PICK v, rest : v = Head(r) /\ rest = Tail(r)
  OBVIOUS
<1>3. /\ v \in ToSet(r) /\ ToSet(r) = ToSet(rest) \cup {v} /\ v \notin ToSet(rest) /\ r = <<v>> \o rest
  <2>1. v \in ToSet(r) /\ ToSet(r) = ToSet(rest) \cup {v} /\ v \notin ToSet(rest)
    BY <1>2, TailOfQueue
  <2> QED BY <1>2, <2>1
<1>4. ASSUME NEW u \in Created, InHandle(u)  PROVE txn[u].nextStep = "acquireLock"
  BY <1>4, OnlyPlace DEF IInv, Lives
<1>5. v \in Created' /\ HandleOf(v) = h /\ txn'[v].nextStep = "acquireLock"
  BY <1>3, <1>4 DEF QueueChanges
<1>6. v \in Begun(h)'
  BY <1>1, <1>2, <1>3, <1>5 DEF Begun, FirstSteps
<1>7. ASSUME NEW u \in Begun(h)'  PROVE u = v
  <2>1. u \in Created' /\ HandleOf(u) = h /\ txn'[u].nextStep \in FirstSteps /\ u \notin ToSet(rest)
    BY <1>1, <1>2, <1>7 DEF Begun
  <2>2. CASE u \in ToSet(r)
    BY <1>3, <2>1, <2>2
  <2>3. CASE u \notin ToSet(r)
    <3>1. u \in Created /\ ~InHandle(u)
      BY <2>1, <2>3
    <3>2. u \in Begun(h)
      BY <2>1, <3>1 DEF Begun, InHandle, QueueChanges
    <3> QED BY <3>2
  <2> QED BY <2>2, <2>3
<1>8. Begun(h)' = {v}
  BY <1>6, <1>7
<1>9. (CHOOSE u \in Begun(h)' : TRUE) = v
  BY <1>8
<1>10. h \in DOMAIN handle' \ StoppedHandles'
  BY <1>1 DEF QueueChanges
<1>11. WaitingOn(h)' = <<v>> \o rest
  BY <1>1, <1>2, <1>8, <1>9, <1>10 DEF WaitingOn
<1> QED BY <1>3, <1>11

\* A transaction's end lets the next one of its handle begin: it waited before,
\* and waits still.
LEMMA ReturnFromStepSeen ==
  ASSUME IInv, ReturnFromStep
  PROVE  ServiceStep
<1>1. PICK t : t = dbThread.transaction
  OBVIOUS
<1>2. PICK h : h = HandleOf(t)
  OBVIOUS
<1>3. dbThread.at = "return" /\ txn' = txn
  BY DEF ReturnFromStep
<1>4. t \in Created /\ h \in DOMAIN handle /\ handle[h] \in Databases /\ HandleOK(h)
  BY <1>1, <1>2, <1>3 DEF IInv, ThreadsOK, TransactionsOK, HandlesOK
<1>5. Created' = Created /\ Created \subseteq Transactions
  BY <1>3 DEF Created, IInv, TransactionsOK
<1>6. PICK q : q = handle[h].transactionQueue
  OBVIOUS
<1>7. q \in Seq(Transactions) /\ Distinct(q) /\ \A u \in ToSet(q) : u \in Created /\ HandleOf(u) = h
  BY <1>4, <1>6 DEF Databases, HandleOK
<1>8. CASE txn[t].nextStep # "none"
  <2>1. handle' = handle
    BY <1>1, <1>8 DEF ReturnFromStep
  <2> QED BY <1>3, <2>1, NothingSeen
<1>9. CASE txn[t].nextStep = "none" /\ ~(handle[h].transactionQueueEnabled /\ q # << >>)
  <2>1. PICK d : d = [handle[h] EXCEPT !.transactionInProgress = FALSE]
    OBVIOUS
  <2>2. handle' = [handle EXCEPT ![h] = d]
    BY <1>1, <1>2, <1>6, <1>9, <2>1 DEF ReturnFromStep, ScheduleTransaction
  <2>3. /\ d.opened = handle[h].opened /\ d.returned = handle[h].returned
        /\ d.interrupted = handle[h].interrupted /\ d.transactionQueue = handle[h].transactionQueue
    BY <1>4, <2>1 DEF Databases
  <2>4. DOMAIN handle' = DOMAIN handle /\ handle'[h] = d /\ \A g \in DOMAIN handle : g # h => handle'[g] = handle[g]
    BY <1>4, <2>2
  <2> QED BY <1>3, <2>3, <2>4, FlagsSeen
<1>10. CASE txn[t].nextStep = "none" /\ handle[h].transactionQueueEnabled /\ q # << >>
  <2>1. PICK d : d = [handle[h] EXCEPT !.transactionQueue = Tail(q), !.transactionInProgress = TRUE]
    OBVIOUS
  <2>2. handle' = [handle EXCEPT ![h] = d]
    BY <1>1, <1>2, <1>6, <1>10, <2>1 DEF ReturnFromStep, ScheduleTransaction
  <2>3. /\ d.opened = handle[h].opened /\ d.returned = handle[h].returned
        /\ d.interrupted = handle[h].interrupted /\ d.transactionQueue = Tail(q)
    BY <1>4, <2>1 DEF Databases
  <2>4. QueueChanges(h, d)
    BY <1>3, <1>4, <1>5, <2>2, <2>3 DEF QueueChanges
  <2>5. /\ StoppedHandles' = StoppedHandles
        /\ \A u \in Transactions : StatusOf(u)' = StatusOf(u) /\ ToldOf(u)' = ToldOf(u)
        /\ \A g : g # h \/ h \in StoppedHandles => WaitingOn(g)' = WaitingOn(g)
    BY <1>5, <2>4, QueueSeen
  <2>6. ASSUME h \notin StoppedHandles  PROVE WaitingOn(h)' = WaitingOn(h)
    <3>1. Begun(h) = {}
      <4>1. SUFFICES ASSUME NEW u \in Begun(h)  PROVE FALSE
        OBVIOUS
      <4>2. u \in Created /\ HandleOf(u) = h /\ ~InHandle(u) /\ txn[u].nextStep # "none"
        BY DEF Begun, InHandle, FirstSteps
      <4>3. ~InHandle(t) /\ ~Stopped(h)
        BY <1>2, <1>4, <1>10, <2>6, OnlyPlace, StoppedSeen DEF IInv, Lives
      <4>4. Started(t) /\ Started(u)
        BY <1>1, <1>3, <4>2, <4>3 DEF Started
      <4>5. u = t
        BY <1>2, <1>4, <4>2, <4>3, <4>4 DEF IInv, OneAtATime, OneStarted
      <4> QED BY <1>10, <4>2, <4>5
    <3>2. ToSet(q) = {u \in Created' : HandleOf(u) = h /\ (u \in Created => InHandle(u))}
      BY <1>5, <1>6, <1>7 DEF InHandle
    <3>3. \A u \in Created' : u \notin Created => txn'[u].nextStep = "acquireLock"
      BY <1>5
    <3>4. WaitingOn(h)' = q
      BY <1>7, <1>10, <2>3, <2>4, <2>6, <3>1, <3>2, <3>3, ScheduleSeen
    <3>5. h \in DOMAIN handle \ StoppedHandles /\ handle[h].transactionQueue \in Seq(Transactions)
      BY <1>4, <1>6, <1>7, <2>6
    <3> QED BY <1>6, <3>1, <3>4, <3>5, NobodyBegun
  <2>7. ServiceKeeps({}, {}, {})
    BY <2>5, <2>6 DEF ServiceKeeps
  <2> QED BY <2>5, <2>7, ServiceStutters DEF ServiceStep
<1> QED BY <1>8, <1>9, <1>10

\* transaction, readTransaction and changeVersion: the transaction waits behind
\* the others of its handle, or nothing comes of it.
LEMMA RunTransactionSeen ==
  ASSUME IInv, NEW t \in Transactions, RunTransaction(t)
  PROVE  ServiceStep
<1>1. PICK h : h = HandleOf(t)
  OBVIOUS
<1>2. /\ h \in DOMAIN handle /\ handle[h] \in Databases /\ handle[h].returned /\ t \notin Created
      /\ Created' = Created \cup {t} /\ \A u \in Created : txn'[u] = txn[u]
  BY <1>1, TransactionMade DEF Made
<1>3. PICK callbacks : txn'[t] = NewSQLTransaction(callbacks)
  BY TransactionMade
<1>4. txn'[t].nextStep = "acquireLock" /\ txn'[t].happened = {} /\ txn'[t].sqlite = "none"
  BY <1>3 DEF NewSQLTransaction
<1>5. PICK q : q = handle[h].transactionQueue
  OBVIOUS
<1>6. q \in Seq(Transactions) /\ Distinct(q) /\ \A u \in ToSet(q) : u \in Created /\ HandleOf(u) = h
  BY <1>2, <1>5 DEF Databases, IInv, HandlesOK, HandleOK
<1>7. PICK r : r = Append(q, t)
  OBVIOUS
<1>8. r \in Seq(Transactions) /\ r # << >> /\ ToSet(r) = ToSet(q) \cup {t} /\ Distinct(r)
  BY <1>2, <1>6, <1>7, AppendedQueue
<1>9. PICK queued : queued = [handle[h] EXCEPT !.transactionQueue = r]
  OBVIOUS
<1>10. /\ queued \in Databases /\ queued.opened = handle[h].opened /\ queued.returned = handle[h].returned
       /\ queued.interrupted = handle[h].interrupted /\ queued.transactionQueue = r
       /\ queued.transactionInProgress = handle[h].transactionInProgress
       /\ queued.transactionQueueEnabled = handle[h].transactionQueueEnabled
  BY <1>2, <1>8, <1>9 DEF Databases
<1>11. PICK scheduled : scheduled = IF queued.transactionInProgress THEN <<queued, << >> >> ELSE ScheduleTransaction(queued)
  OBVIOUS
<1>12. PICK d : d = scheduled[1]
  OBVIOUS
<1>13. handle' = [handle EXCEPT ![h] = d]
  BY <1>1, <1>5, <1>7, <1>9, <1>11, <1>12 DEF RunTransaction
<1>14. \/ d = queued
       \/ d = [queued EXCEPT !.transactionInProgress = FALSE]
       \/ /\ ~queued.transactionInProgress
          /\ d = [queued EXCEPT !.transactionQueue = Tail(r), !.transactionInProgress = TRUE]
  BY <1>10, <1>11, <1>12 DEF ScheduleTransaction
<1>15. /\ d.opened = handle[h].opened /\ d.returned = handle[h].returned /\ d.interrupted = handle[h].interrupted
       /\ d.transactionQueue = r \/ (~handle[h].transactionInProgress /\ d.transactionQueue = Tail(r))
  BY <1>10, <1>14 DEF Databases
<1>16. QueueChanges(h, d)
  BY <1>1, <1>2, <1>13, <1>15 DEF QueueChanges, IInv, TransactionsOK
<1>17. /\ StoppedHandles' = StoppedHandles /\ DOMAIN handle' = DOMAIN handle /\ handle'[h] = d
       /\ \A u \in Transactions \ {t} : StatusOf(u)' = StatusOf(u) /\ ToldOf(u)' = ToldOf(u)
       /\ \A g : g # h \/ h \in StoppedHandles => WaitingOn(g)' = WaitingOn(g)
  BY <1>2, <1>16, QueueSeen
<1>18. StatusOf(t) = "new" /\ ToldOf(t) = "nothing" /\ ToldOf(t)' = "nothing"
  BY <1>2, <1>4 DEF StatusOf, ToldOf
<1>19. StatusOf(t)' = IF h \in StoppedHandles THEN "undone" ELSE "waiting"
  BY <1>1, <1>2, <1>4, <1>17 DEF StatusOf, FirstSteps
<1>20. ServiceKeeps({HandleOf(t)}, {t}, {}) /\ h \in Handles
  BY <1>1, <1>2, <1>17, <1>18 DEF ServiceKeeps, IInv, HandlesOK
<1>21. ASSUME h \notin StoppedHandles  PROVE WaitingOn(h)' = Append(WaitingOn(h), t)
  <2>1. h \in DOMAIN handle \ StoppedHandles /\ h \in DOMAIN handle' \ StoppedHandles'
    BY <1>2, <1>17, <1>21
  <2>2. CASE d.transactionQueue = r
    <3>1. Begun(h)' = Begun(h)
      BY <1>2, <1>5, <1>6, <1>8, <1>17, <2>2 DEF Begun
    <3>2. CASE Begun(h) = {}
      <4>1. WaitingOn(h) = q
        BY <1>5, <1>6, <2>1, <3>2, NobodyBegun
      <4>2. WaitingOn(h)' = << >> \o r
        BY <1>17, <2>1, <2>2, <3>1, <3>2 DEF WaitingOn
      <4> QED BY <1>7, <1>8, <4>1, <4>2
    <3>3. CASE Begun(h) # {}
      <4>1. PICK v : v = CHOOSE u \in Begun(h) : TRUE
        OBVIOUS
      <4>2. v \in Begun(h)
        BY <3>3, <4>1
      <4>3. v \in Transactions
        BY <4>2 DEF Begun, IInv, TransactionsOK
      <4>4. WaitingOn(h) = <<v>> \o q
        BY <1>5, <2>1, <3>3, <4>1 DEF WaitingOn
      <4>5. WaitingOn(h)' = <<v>> \o r
        BY <1>17, <2>1, <2>2, <3>1, <3>3, <4>1 DEF WaitingOn
      <4>6. <<v>> \o Append(q, t) = Append(<<v>> \o q, t)
        BY <1>6, <4>3
      <4> QED BY <1>7, <4>4, <4>5, <4>6
    <3> QED BY <3>2, <3>3
  <2>3. CASE ~handle[h].transactionInProgress /\ d.transactionQueue = Tail(r)
    <3>1. Begun(h) = {}
      <4>1. SUFFICES ASSUME NEW u \in Begun(h)  PROVE FALSE
        OBVIOUS
      <4>2. u \in Created /\ HandleOf(u) = h /\ Started(u)
        BY DEF Begun, Started, InHandle, FirstSteps
      <4>3. ~Stopped(h)
        BY <1>21, <4>2, StoppedSeen
      <4> QED BY <2>3, <4>2, <4>3 DEF IInv, OneAtATime, StartedInProgress
    <3>2. ToSet(r) = {u \in Created' : HandleOf(u) = h /\ (u \in Created => InHandle(u))}
      BY <1>1, <1>2, <1>5, <1>6, <1>8 DEF InHandle
    <3>3. \A u \in Created' : u \notin Created => txn'[u].nextStep = "acquireLock"
      BY <1>2, <1>4
    <3>4. WaitingOn(h)' = r
      BY <1>8, <1>16, <1>21, <2>3, <3>1, <3>2, <3>3, ScheduleSeen
    <3>5. WaitingOn(h) = q
      BY <1>5, <1>6, <2>1, <3>1, NobodyBegun
    <3> QED BY <1>7, <3>4, <3>5
  <2> QED BY <1>15, <2>2, <2>3
<1>22. Service!Next
  BY <1>1, <1>17, <1>18, <1>19, <1>20, <1>21, ServiceRequests
<1> QED BY <1>22 DEF ServiceStep

\* Every step of every thread is a step of the abstract specification, or
\* nothing it sees.
LEMMA NextSeen ==
  ASSUME IInv, IInv', [Next]_vars
  PROVE  ServiceStep
<1>1. CASE ContextThread
  <2>1. ASSUME NEW h \in Handles, OpenDatabase(h)  PROVE ServiceStep
    BY <2>1, OpenDatabaseSeen
  <2>2. ASSUME NEW h \in Handles, TableNames(h)  PROVE ServiceStep
    BY <2>2, NothingSeen DEF TableNames
  <2>3. ASSUME RequestTermination  PROVE ServiceStep
    BY <2>3, NothingSeen DEF RequestTermination
  <2>4. ASSUME NEW t \in Transactions, RunTransaction(t)  PROVE ServiceStep
    BY <2>4, RunTransactionSeen
  <2>5. ASSUME PerformPendingCallback  PROVE ServiceStep
    BY <2>5, PerformPendingCallbackSeen
  <2>6. ASSUME ScriptExecutesSQL  PROVE ServiceStep
    BY <2>6, ScriptExecutesSQLSeen
  <2>7. ASSUME ScriptReturns  PROVE ServiceStep
    BY <2>7, ScriptReturnsSeen
  <2>8. ASSUME WaitForTaskCompletion("context")  PROVE ServiceStep
    BY <2>8, WaitForTaskCompletionSeen
  <2>9. ASSUME NEW h \in Handles, OpenAndVerifyVersion(h)  PROVE ServiceStep
    BY <2>9, OpenAndVerifyVersionSeen
  <2> QED BY <1>1, <2>1, <2>2, <2>3, <2>4, <2>5, <2>6, <2>7, <2>8, <2>9 DEF ContextThread
<1>2. CASE MainThreadRequests
  <2>1. ASSUME NEW h \in Handles, MarkAsDeletedAndClose(h)  PROVE ServiceStep
    BY <2>1, MarkAsDeletedAndCloseSeen
  <2>2. ASSUME NEW h \in Handles, CloseImmediately(h)  PROVE ServiceStep
    BY <2>2, NothingSeen DEF CloseImmediately
  <2>3. ASSUME NEW h \in Handles, Interrupt(h)  PROVE ServiceStep
    BY <2>3, InterruptSeen
  <2>4. ASSUME NEW n, DeleteDatabase(n)  PROVE ServiceStep
    BY <2>4, NothingSeen DEF DeleteDatabase
  <2>5. ASSUME DoneDeletingDatabase  PROVE ServiceStep
    BY <2>5, NothingSeen DEF DoneDeletingDatabase
  <2>6. ASSUME WaitForTaskCompletion("main")  PROVE ServiceStep
    BY <2>6, WaitForTaskCompletionSeen
  <2>7. ASSUME NEW h \in Handles, ScheduleCloseTask(h)  PROVE ServiceStep
    BY <2>7, NothingSeen DEF ScheduleCloseTask
  <2> QED BY <1>2, <2>1, <2>2, <2>3, <2>4, <2>5, <2>6, <2>7 DEF MainThreadRequests
<1>3. CASE DatabaseThread
  <2>1. ASSUME PerformOpenTask  PROVE ServiceStep
    BY <2>1, PerformOpenTaskSeen
  <2>2. ASSUME PerformTableNamesTask  PROVE ServiceStep
    BY <2>2, NothingSeen DEF PerformTableNamesTask
  <2>3. ASSUME PerformCloseTask  PROVE ServiceStep
    <3>1. PICK task : task = Head(dbQueue)
      OBVIOUS
    <3>2. dbQueue # << >> /\ Close(task.handle, task.synchronizer, "loop") /\ txn' = txn
      BY <2>3, <3>1 DEF PerformCloseTask, Takable
    <3>3. task.handle \in DOMAIN handle
      BY <3>1, <3>2, FirstTask DEF Tasks
    <3> QED BY <3>2, <3>3, CloseSeen
  <2>4. ASSUME UnscheduleDatabaseTasks  PROVE ServiceStep
    BY <2>4, NothingSeen DEF UnscheduleDatabaseTasks
  <2>5. ASSUME RemoveOpenDatabase  PROVE ServiceStep
    BY <2>5, RemoveOpenDatabaseSeen
  <2>6. ASSUME PerformTransactionTask  PROVE ServiceStep
    BY <2>6, CancelledSeen, LockAskedSeen, StepPerformedSeen
  <2>7. ASSUME ContinueStatements  PROVE ServiceStep
    BY <2>7, ContinueStatementsSeen
  <2>8. ASSUME ReturnFromStep  PROVE ServiceStep
    BY <2>8, ReturnFromStepSeen
  <2>9. ASSUME ShutdownCoordinator  PROVE ServiceStep
    BY <2>9, ShutdownCoordinatorSeen
  <2>10. ASSUME EndThread  PROVE ServiceStep
    BY <2>10, NothingSeen DEF EndThread
  <2>11. ASSUME NEW h \in Handles, CloseAtExit(h)  PROVE ServiceStep
    <3>1. h \in DOMAIN handle /\ Close(h, "none", "exit") /\ txn' = txn
      BY <2>11 DEF CloseAtExit, IInv, HandlesOK
    <3> QED BY <3>1, CloseSeen
  <2> QED BY <1>3, <2>1, <2>2, <2>3, <2>4, <2>5, <2>6, <2>7, <2>8, <2>9, <2>10, <2>11 DEF DatabaseThread
<1>4. CASE UNCHANGED vars
  BY <1>4, NothingSeen DEF vars
<1> QED BY <1>1, <1>2, <1>3, <1>4 DEF Next

\* Nobody waits at the start.
LEMMA InitSeen == Init => Service!Init
<1> SUFFICES ASSUME Init  PROVE Service!Init
  OBVIOUS
<1>1. DOMAIN handle = {} /\ Created = {}
  BY DEF Init, Created
<1>2. StoppedHandles = {}
  BY <1>1 DEF StoppedHandles
<1>3. \A h \in Handles : WaitingOn(h) = << >>
  BY <1>1 DEF WaitingOn
<1>4. \A t \in Transactions : StatusOf(t) = "new" /\ ToldOf(t) = "nothing"
  BY <1>1 DEF StatusOf, ToldOf
<1>5. [h \in Handles |-> WaitingOn(h)] = [h \in Handles |-> << >>]
  BY <1>3
<1>6. [t \in Transactions |-> StatusOf(t)] = [t \in Transactions |-> "new"]
  BY <1>4
<1>7. [t \in Transactions |-> ToldOf(t)] = [t \in Transactions |-> "nothing"]
  BY <1>4
<1> QED BY <1>2, <1>5, <1>6, <1>7 DEF Service!Init

\* WebDatabase implements TransactionService: whatever the threads, the tasks,
\* the coordinator's locks and the steps of SQLTransaction do, scripts see
\* transactions that are opened one at a time per handle and in order, isolated
\* on a database, committed or undone as a whole, and told of truthfully.
THEOREM RefinementOfTransactionService == Spec => RefinesTransactionService
<1>1. Init => Service!Init
  BY InitSeen
<1>2. IInv /\ IInv' /\ [Next]_vars => ServiceStep
  BY NextSeen
<1>3. IInv /\ IInv' /\ [Next]_vars => [Service!Next]_(Service!vars)
  BY <1>2 DEF ServiceStep
<1>4. Spec => []IInv
  BY Invariance
<1> QED BY <1>1, <1>3, <1>4, PTL DEF Spec, RefinesTransactionService, Service!Spec
=============================================================================
