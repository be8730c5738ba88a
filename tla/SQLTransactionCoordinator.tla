---------------------- MODULE SQLTransactionCoordinator ----------------------
(***************************************************************************)
(* The lock manager of one database thread.  All of its entry points run   *)
(* on that thread, so each is one action:                                  *)
(*                                                                         *)
(*   SQLTransaction::acquireLock -> acquireLock                            *)
(*   SQLTransaction::openTransactionAndPreflight      (BEGIN)              *)
(*   cleanupAfterSuccessCallback,                                          *)
(*   cleanupAfterTransactionErrorCallback and the database-thread part of  *)
(*   checkAndHandleClosedOrInterruptedDatabase -> releaseLock              *)
(*   DatabaseThread::databaseThread, after its loop -> shutdown            *)
(*                                                                         *)
(* The module keeps what a transaction knows of the lock (status) apart    *)
(* from what the coordinator knows (coordinationInfoMap): the properties   *)
(* are about the two never disagreeing.                                    *)
(***************************************************************************)
EXTENDS CoordinationInfo

CONSTANT DatabaseName(_)   \* Database::stringIdentifier of a transaction's handle

VARIABLES
  coordinationInfoMap,   \* m_coordinationInfoMap: a partial function of names
  status,                \* status[t]: "new", "waiting" (m_nextStep is still
                         \*   acquireLock), "holding" (m_lockAcquired), "done"
  sqliteTransaction,     \* the transactions whose m_sqliteTransaction is set
  threadRunning          \* the database thread is in its message loop

vars == <<coordinationInfoMap, status, sqliteTransaction, threadRunning>>

DatabaseNames == {DatabaseName(t) : t \in Transactions}

\* The map has entries of database names only (getDatabaseIdentifier), each a
\* well-formed CoordinationInfo.
TypeOK ==
  /\ DOMAIN coordinationInfoMap \subseteq DatabaseNames
  /\ \A d \in DOMAIN coordinationInfoMap : coordinationInfoMap[d] \in CoordinationInfos
  /\ status \in [Transactions -> {"new", "waiting", "holding", "done"}]
  /\ sqliteTransaction \subseteq Transactions
  /\ threadRunning \in BOOLEAN

Init ==
  /\ coordinationInfoMap = [d \in {} |-> NewCoordinationInfo]
  /\ status = [t \in Transactions |-> "new"]
  /\ sqliteTransaction = {}
  /\ threadRunning = TRUE

-----------------------------------------------------------------------------

\* m_coordinationInfoMap.find(d), or the entry that add() makes for d.
InfoFor(d) ==
  IF d \in DOMAIN coordinationInfoMap THEN coordinationInfoMap[d] ELSE NewCoordinationInfo

\* The entry of d becomes what processPendingTransactions(info) leaves, and
\* lockAcquired() is called on the transactions it lets in.
Process(d, info, statusBefore) ==
  /\ coordinationInfoMap' =
       [e \in DOMAIN coordinationInfoMap \cup {d} |->
          IF e = d THEN ProcessPendingTransactions(info) ELSE coordinationInfoMap[e]]
  /\ status' =
       [t \in Transactions |-> IF t \in GrantedSet(info) THEN "holding" ELSE statusBefore[t]]

\* Mutant: the map is keyed by the transaction instead of its database name.
AcquireLockByTransaction(t) ==
  /\ threadRunning
  /\ status[t] = "new"
  /\ Process(t, Enqueue(InfoFor(t), t), [status EXCEPT ![t] = "waiting"])
  /\ UNCHANGED <<sqliteTransaction, threadRunning>>

AcquireLock(t) ==
  /\ threadRunning
  /\ status[t] = "new"
  /\ Process(DatabaseName(t),
             Enqueue(InfoFor(DatabaseName(t)), t),
             [status EXCEPT ![t] = "waiting"])
  /\ UNCHANGED <<sqliteTransaction, threadRunning>>

\* BEGIN, in the step that lockAcquired() scheduled.
OpenTransaction(t) ==
  /\ threadRunning
  /\ status[t] = "holding"
  /\ t \notin sqliteTransaction
  /\ sqliteTransaction' = sqliteTransaction \cup {t}
  /\ UNCHANGED <<coordinationInfoMap, status, threadRunning>>

\* Mutant: releaseLock does not call processPendingTransactions.
ReleaseLockWithoutProcessing(t) ==
  /\ threadRunning
  /\ status[t] = "holding"
  /\ coordinationInfoMap' = [coordinationInfoMap EXCEPT ![DatabaseName(t)] = Deactivate(@, t)]
  /\ status' = [status EXCEPT ![t] = "done"]
  /\ sqliteTransaction' = sqliteTransaction \ {t}
  /\ UNCHANGED threadRunning

\* Every caller ends the SQLite transaction (COMMIT, ROLLBACK or stop()) and
\* clears the pointer before it calls releaseLock.
ReleaseLock(t) ==
  /\ threadRunning
  /\ status[t] = "holding"
  /\ sqliteTransaction' = sqliteTransaction \ {t}
  /\ IF DOMAIN coordinationInfoMap = {}
     THEN /\ status' = [status EXCEPT ![t] = "done"]
          /\ UNCHANGED coordinationInfoMap
     ELSE Process(DatabaseName(t),
                  Deactivate(coordinationInfoMap[DatabaseName(t)], t),
                  [status EXCEPT ![t] = "done"])
  /\ UNCHANGED threadRunning

\* Mutant: shutdown() forgets the active readers.
ShutdownWritersOnly ==
  /\ threadRunning
  /\ threadRunning' = FALSE
  /\ sqliteTransaction' =
       sqliteTransaction \ {coordinationInfoMap[d].activeWriteTransaction :
                              d \in DOMAIN coordinationInfoMap}
  /\ coordinationInfoMap' = [d \in {} |-> NewCoordinationInfo]
  /\ status' = [t \in Transactions |-> "done"]

\* The loop has ended: each active transaction is told to drop its SQLite
\* transaction (the destructor rolls it back), the map is cleared, and no
\* transaction runs a further step.
Shutdown ==
  /\ threadRunning
  /\ threadRunning' = FALSE
  /\ sqliteTransaction' =
       sqliteTransaction \ UNION {Active(coordinationInfoMap[d]) : d \in DOMAIN coordinationInfoMap}
  /\ coordinationInfoMap' = [d \in {} |-> NewCoordinationInfo]
  /\ status' = [t \in Transactions |-> "done"]

Next ==
  \/ \E t \in Transactions : AcquireLock(t) \/ OpenTransaction(t) \/ ReleaseLock(t)
  \/ Shutdown

Spec == Init /\ [][Next]_vars

\* A transaction that holds the lock is driven to its end by the tasks that
\* the context thread and the database thread keep scheduling for it.
FairSpec == Spec /\ \A t \in Transactions : WF_vars(ReleaseLock(t))

-----------------------------------------------------------------------------
(* Safety                                                                  *)

\* Two transactions with an open SQLite transaction on one database name are
\* both read-only.  The lock is by name, so this covers transactions of
\* different Database handles (processPendingTransactions).
MutualExclusion ==
  \A t, u \in sqliteTransaction :
    t # u /\ DatabaseName(t) = DatabaseName(u) => t \in ReadOnly /\ u \in ReadOnly

\* The coordinator and the transactions agree on who waits and who holds, so
\* the ASSERTs of releaseLock (the entry exists, the transaction is active in
\* it) hold, and each lockAcquired() reaches a transaction that asked once.
LockBookkeeping ==
  \A t \in Transactions :
    /\ status[t] = "waiting" <=> t \in Pending(InfoFor(DatabaseName(t)))
    /\ status[t] = "holding" <=> t \in Active(InfoFor(DatabaseName(t)))

\* No grant is missed: whoever waits has somebody of the same database in
\* front of it that holds the lock, so a release will look at the queue again
\* (the calls of processPendingTransactions in acquireLock and releaseLock).
NoMissedGrant ==
  \A d \in DOMAIN coordinationInfoMap : NoMissedGrantInfo(coordinationInfoMap[d])

\* ~SQLTransaction asserts that m_sqliteTransaction is gone.  Once the thread
\* has left its loop nobody else could end it: shutdown() must reach all.
RolledBackOnShutdown == ~threadRunning => sqliteTransaction = {}

\* u waits and t asks for the same database later, or has asked later.
AheadOf(u, t) ==
  LET queue == InfoFor(DatabaseName(u)).pendingTransactions IN
  /\ DatabaseName(u) = DatabaseName(t)
  /\ status[u] = "waiting"
  /\ \/ status[t] = "new"
     \/ \E i, j \in DOMAIN queue : i < j /\ queue[i] = u /\ queue[j] = t

\* FIFO: a waiting transaction stays ahead of everyone it was ahead of until
\* it is served.  A later reader never slips past a waiting writer, although
\* it would be compatible with the readers that hold the lock (acquireLock
\* appends, processPendingTransactions takes from the front only).
NoOvertaking ==
  [][\A u, t \in Transactions :
       AheadOf(u, t) => status'[u] \in {"holding", "done"} \/ AheadOf(u, t)']_vars

\* The coordinator is a readers/writer lock for each database name: the queues
\* are hidden, what the transactions know of the lock is the abstract state.
Lock == INSTANCE TransactionLock
          WITH status <- status, Transactions <- Transactions, ReadOnly <- ReadOnly

\* Every step of the coordinator is a step of that lock or leaves it alone.
RefinesTransactionLock == Lock!Spec

\* Liveness: a transaction that asked for the lock gets it, or the thread ends.
EveryWaiterServed ==
  \A t \in Transactions : status[t] = "waiting" ~> status[t] \in {"holding", "done"}

-----------------------------------------------------------------------------
(* The inductive invariant behind the safety properties.                   *)

InfoInvariant ==
  \A d \in DOMAIN coordinationInfoMap :
    LET info == coordinationInfoMap[d] IN
    /\ ExclusiveInfo(info)
    /\ DistinctInfo(info)
    /\ \A t \in Pending(info) \cup Active(info) : DatabaseName(t) = d

SqliteNeedsLock == \A t \in sqliteTransaction : status[t] = "holding"

CoordinatorInvariant ==
  /\ TypeOK
  /\ InfoInvariant
  /\ LockBookkeeping
  /\ NoMissedGrant
  /\ SqliteNeedsLock
  /\ RolledBackOnShutdown
=============================================================================
