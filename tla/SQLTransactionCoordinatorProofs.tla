------------------- MODULE SQLTransactionCoordinatorProofs -------------------
(***************************************************************************)
(* Proofs about SQLTransactionCoordinator, for every set of transactions   *)
(* and every assignment of database names.                                 *)
(***************************************************************************)
EXTENDS SQLTransactionCoordinator, CoordinationInfoProofs, TLAPS

-----------------------------------------------------------------------------
(* The inductive invariant.                                                *)

Statuses == {"new", "waiting", "holding", "done"}

\* An entry, existing or about to be added, satisfies what the invariant says
\* of the map's entries.
LEMMA InfoForProperties ==
  ASSUME CoordinatorInvariant, NEW d \in DatabaseNames
  PROVE  /\ InfoFor(d) \in CoordinationInfos
         /\ ExclusiveInfo(InfoFor(d))
         /\ DistinctInfo(InfoFor(d))
         /\ \A t \in Pending(InfoFor(d)) \cup Active(InfoFor(d)) :
              t \in Transactions /\ DatabaseName(t) = d
<1>1. CASE d \in DOMAIN coordinationInfoMap
  <2> DEFINE info == coordinationInfoMap[d]
  <2>1. InfoFor(d) = info
    BY <1>1 DEF InfoFor
  <2>2. /\ info \in CoordinationInfos /\ ExclusiveInfo(info) /\ DistinctInfo(info)
        /\ \A t \in Pending(info) \cup Active(info) : DatabaseName(t) = d
    BY <1>1 DEF CoordinatorInvariant, TypeOK, InfoInvariant
  <2> HIDE DEF info
  <2>3. \A t \in Pending(info) \cup Active(info) : t \in Transactions
    <3>1. info.pendingTransactions \in Seq(Transactions)
      BY <2>2 DEF CoordinationInfos
    <3>2. \A t \in Pending(info) : t \in Transactions
      BY <3>1 DEF Pending
    <3>3. \A t \in Active(info) : t \in Transactions
      BY <2>2 DEF Active, CoordinationInfos
    <3> QED BY <3>2, <3>3
  <2> QED BY <2>1, <2>2, <2>3
<1>2. CASE d \notin DOMAIN coordinationInfoMap
  <2>1. InfoFor(d) = NewCoordinationInfo
    BY <1>2 DEF InfoFor
  <2> QED BY <2>1, NewInfoProperties
<1> QED BY <1>1, <1>2

\* What acquireLock and releaseLock hand to processPendingTransactions: an
\* entry of database d that agrees with the transactions' own view st.
ProcessArguments(d, info, st) ==
  /\ d \in DatabaseNames
  /\ info \in CoordinationInfos
  /\ st \in [Transactions -> Statuses]
  /\ ExclusiveInfo(info)
  /\ DistinctInfo(info)
  /\ \A t \in Pending(info) \cup Active(info) : t \in Transactions /\ DatabaseName(t) = d
  /\ \A t \in Transactions : DatabaseName(t) = d =>
       /\ st[t] = "waiting" <=> t \in Pending(info)
       /\ st[t] = "holding" <=> t \in Active(info)
  /\ \A t \in Transactions : DatabaseName(t) # d => st[t] = status[t]

\* The common part of acquireLock and releaseLock: when the entry handed to
\* processPendingTransactions agrees with the transactions' own view, so does
\* the map afterwards.
LEMMA ProcessStep ==
  ASSUME CoordinatorInvariant, NEW d, NEW info, NEW st,
         ProcessArguments(d, info, st), Process(d, info, st)
  PROVE  /\ DOMAIN coordinationInfoMap' \subseteq DatabaseNames
         /\ \A e \in DOMAIN coordinationInfoMap' : coordinationInfoMap'[e] \in CoordinationInfos
         /\ status' \in [Transactions -> Statuses]
         /\ InfoInvariant'
         /\ LockBookkeeping'
         /\ NoMissedGrant'
         /\ \A t \in Transactions : st[t] = "holding" => status'[t] = "holding"
<1> USE DEF ProcessArguments
<1> DEFINE after == ProcessPendingTransactions(info)
           G     == GrantedSet(info)
<1>1. /\ after \in CoordinationInfos
      /\ ExclusiveInfo(after)
      /\ DistinctInfo(after)
      /\ NoMissedGrantInfo(after)
      /\ Active(after) = Active(info) \cup G
      /\ Pending(after) = Pending(info) \ G
      /\ G \subseteq Pending(info)
  BY ProcessPendingProperties DEF ProcessArguments
<1>2. /\ DOMAIN coordinationInfoMap' = DOMAIN coordinationInfoMap \cup {d}
      /\ coordinationInfoMap'[d] = after
      /\ \A e \in DOMAIN coordinationInfoMap \ {d} :
           coordinationInfoMap'[e] = coordinationInfoMap[e]
      /\ status' = [t \in Transactions |-> IF t \in G THEN "holding" ELSE st[t]]
  BY DEF Process
<1> HIDE DEF after, G
<1>3. DOMAIN coordinationInfoMap' \subseteq DatabaseNames
  BY <1>2 DEF CoordinatorInvariant, TypeOK
<1>4. \A e \in DOMAIN coordinationInfoMap' : coordinationInfoMap'[e] \in CoordinationInfos
  BY <1>1, <1>2 DEF CoordinatorInvariant, TypeOK
<1>5. status' \in [Transactions -> Statuses]
  BY <1>2 DEF Statuses
<1>6. \A t \in Pending(after) \cup Active(after) : DatabaseName(t) = d
  BY <1>1
<1>7. InfoInvariant'
  <2>1. ASSUME NEW e \in DOMAIN coordinationInfoMap'
        PROVE  /\ ExclusiveInfo(coordinationInfoMap'[e])
               /\ DistinctInfo(coordinationInfoMap'[e])
               /\ \A t \in Pending(coordinationInfoMap'[e]) \cup Active(coordinationInfoMap'[e]) :
                    DatabaseName(t) = e
    <3>1. CASE e = d
      BY <3>1, <1>1, <1>2, <1>6
    <3>2. CASE e # d
      BY <3>2, <1>2 DEF CoordinatorInvariant, InfoInvariant
    <3> QED BY <3>1, <3>2
  <2> QED BY <2>1 DEF InfoInvariant
<1>8. NoMissedGrant'
  <2>1. ASSUME NEW e \in DOMAIN coordinationInfoMap'
        PROVE  NoMissedGrantInfo(coordinationInfoMap'[e])
    BY <1>1, <1>2 DEF CoordinatorInvariant, NoMissedGrant
  <2> QED BY <2>1 DEF NoMissedGrant
<1>9. LockBookkeeping'
  <2>1. ASSUME NEW t \in Transactions
        PROVE  /\ status'[t] = "waiting" <=> t \in Pending(InfoFor(DatabaseName(t))')
               /\ status'[t] = "holding" <=> t \in Active(InfoFor(DatabaseName(t))')
    <3>1. CASE DatabaseName(t) = d
      <4>1. InfoFor(DatabaseName(t))' = after
        BY <3>1, <1>2 DEF InfoFor
      <4>2. CASE t \in G
        BY <4>1, <4>2, <1>1, <1>2
      <4>3. CASE t \notin G
        BY <3>1, <4>1, <4>3, <1>1, <1>2
      <4> QED BY <4>2, <4>3
    <3>2. CASE DatabaseName(t) # d
      <4>1. InfoFor(DatabaseName(t))' = InfoFor(DatabaseName(t))
        BY <3>2, <1>2 DEF InfoFor
      <4>2. t \notin G
        BY <3>2, <1>1
      <4>3. status'[t] = status[t]
        BY <3>2, <4>2, <1>2
      <4> QED BY <4>1, <4>3 DEF CoordinatorInvariant, LockBookkeeping
    <3> QED BY <3>1, <3>2
  <2> QED BY <2>1 DEF LockBookkeeping
<1>10. \A t \in Transactions : st[t] = "holding" => status'[t] = "holding"
  BY <1>2
<1> QED BY <1>3, <1>4, <1>5, <1>7, <1>8, <1>9, <1>10

\* acquireLock appends a transaction that is neither queued nor active.
LEMMA AcquireLockArguments ==
  ASSUME CoordinatorInvariant, NEW t \in Transactions, AcquireLock(t)
  PROVE  /\ ProcessArguments(DatabaseName(t), Enqueue(InfoFor(DatabaseName(t)), t),
                             [status EXCEPT ![t] = "waiting"])
         /\ Process(DatabaseName(t), Enqueue(InfoFor(DatabaseName(t)), t),
                    [status EXCEPT ![t] = "waiting"])
<1> DEFINE d    == DatabaseName(t)
           info == InfoFor(d)
           new  == Enqueue(info, t)
           st   == [status EXCEPT ![t] = "waiting"]
<1>1. d \in DatabaseNames
  BY DEF DatabaseNames
<1>2. /\ info \in CoordinationInfos /\ ExclusiveInfo(info) /\ DistinctInfo(info)
      /\ \A u \in Pending(info) \cup Active(info) : u \in Transactions /\ DatabaseName(u) = d
  BY <1>1, InfoForProperties
<1>3. status \in [Transactions -> Statuses] /\ status[t] = "new"
  BY DEF CoordinatorInvariant, TypeOK, Statuses, AcquireLock
<1>4. \A u \in Transactions : DatabaseName(u) = d =>
        /\ status[u] = "waiting" <=> u \in Pending(info)
        /\ status[u] = "holding" <=> u \in Active(info)
  BY DEF CoordinatorInvariant, LockBookkeeping
<1>5. Process(d, new, st) /\ sqliteTransaction' = sqliteTransaction
      /\ threadRunning' = threadRunning /\ threadRunning
  BY DEF AcquireLock
<1> HIDE DEF info
<1>6. t \notin Pending(info) /\ t \notin Active(info)
  BY <1>3, <1>4
<1>7. /\ new \in CoordinationInfos /\ ExclusiveInfo(new) /\ DistinctInfo(new)
      /\ Pending(new) = Pending(info) \cup {t} /\ Active(new) = Active(info)
  BY <1>2, <1>6, EnqueueProperties
<1>8. /\ st \in [Transactions -> Statuses]
      /\ st[t] = "waiting"
      /\ \A u \in Transactions \ {t} : st[u] = status[u]
  BY <1>3 DEF Statuses
<1> HIDE DEF new, st
<1>9. \A u \in Transactions : DatabaseName(u) = d =>
        /\ st[u] = "waiting" <=> u \in Pending(new)
        /\ st[u] = "holding" <=> u \in Active(new)
  BY <1>4, <1>6, <1>7, <1>8
<1>10. \A u \in Transactions : DatabaseName(u) # d => st[u] = status[u]
  BY <1>8
<1>11. \A u \in Pending(new) \cup Active(new) : u \in Transactions /\ DatabaseName(u) = d
  BY <1>2, <1>7
<1> QED BY <1>1, <1>5, <1>7, <1>8, <1>9, <1>10, <1>11 DEF ProcessArguments, new, st, info

\* releaseLock is only called by a transaction that the map knows as active,
\* so its early return for an empty map is never taken.
LEMMA HolderIsActive ==
  ASSUME CoordinatorInvariant, NEW t \in Transactions, status[t] = "holding"
  PROVE  /\ DatabaseName(t) \in DOMAIN coordinationInfoMap
         /\ t \in Active(coordinationInfoMap[DatabaseName(t)])
<1>1. t \in Active(InfoFor(DatabaseName(t)))
  BY DEF CoordinatorInvariant, LockBookkeeping
<1>2. Active(NewCoordinationInfo) = {}
  BY DEF Active, NewCoordinationInfo
<1> QED BY <1>1, <1>2 DEF InfoFor

\* releaseLock takes an active transaction out.
LEMMA ReleaseLockArguments ==
  ASSUME CoordinatorInvariant, NEW t \in Transactions, ReleaseLock(t)
  PROVE  /\ ProcessArguments(DatabaseName(t), Deactivate(InfoFor(DatabaseName(t)), t),
                             [status EXCEPT ![t] = "done"])
         /\ Process(DatabaseName(t), Deactivate(InfoFor(DatabaseName(t)), t),
                    [status EXCEPT ![t] = "done"])
<1> DEFINE d    == DatabaseName(t)
           info == InfoFor(d)
           new  == Deactivate(info, t)
           st   == [status EXCEPT ![t] = "done"]
<1>1. d \in DatabaseNames
  BY DEF DatabaseNames
<1>2. /\ info \in CoordinationInfos /\ ExclusiveInfo(info) /\ DistinctInfo(info)
      /\ \A u \in Pending(info) \cup Active(info) : u \in Transactions /\ DatabaseName(u) = d
  BY <1>1, InfoForProperties
<1>3. status \in [Transactions -> Statuses] /\ status[t] = "holding"
  BY DEF CoordinatorInvariant, TypeOK, Statuses, ReleaseLock
<1>4. \A u \in Transactions : DatabaseName(u) = d =>
        /\ status[u] = "waiting" <=> u \in Pending(info)
        /\ status[u] = "holding" <=> u \in Active(info)
  BY DEF CoordinatorInvariant, LockBookkeeping
<1>5. d \in DOMAIN coordinationInfoMap /\ info = coordinationInfoMap[d]
  BY <1>3, HolderIsActive DEF InfoFor
<1>6. /\ Process(d, new, st) /\ sqliteTransaction' = sqliteTransaction \ {t}
      /\ threadRunning' = threadRunning /\ threadRunning
  BY <1>5 DEF ReleaseLock
<1> HIDE DEF info
<1>7. t \in Active(info)
  BY <1>3, <1>4
<1>8. /\ new \in CoordinationInfos /\ ExclusiveInfo(new) /\ DistinctInfo(new)
      /\ Pending(new) = Pending(info) /\ Active(new) = Active(info) \ {t}
  BY <1>2, <1>7, DeactivateProperties
<1>9. /\ st \in [Transactions -> Statuses]
      /\ st[t] = "done"
      /\ \A u \in Transactions \ {t} : st[u] = status[u]
  BY <1>3 DEF Statuses
<1> HIDE DEF new, st
<1>10. t \notin Pending(info)
  BY <1>3, <1>4
<1>11. \A u \in Transactions : DatabaseName(u) = d =>
        /\ st[u] = "waiting" <=> u \in Pending(new)
        /\ st[u] = "holding" <=> u \in Active(new)
  BY <1>4, <1>8, <1>9, <1>10
<1>12. \A u \in Transactions : DatabaseName(u) # d => st[u] = status[u]
  BY <1>9
<1>13. \A u \in Pending(new) \cup Active(new) : u \in Transactions /\ DatabaseName(u) = d
  BY <1>2, <1>8
<1> QED BY <1>1, <1>6, <1>8, <1>9, <1>11, <1>12, <1>13 DEF ProcessArguments, new, st, info

\* Both calls keep the invariant.
LEMMA AcquireLockStep ==
  ASSUME CoordinatorInvariant, NEW t \in Transactions, AcquireLock(t)
  PROVE  CoordinatorInvariant'
<1> DEFINE st == [status EXCEPT ![t] = "waiting"]
<1>1. /\ DOMAIN coordinationInfoMap' \subseteq DatabaseNames
      /\ \A e \in DOMAIN coordinationInfoMap' : coordinationInfoMap'[e] \in CoordinationInfos
      /\ status' \in [Transactions -> Statuses]
      /\ InfoInvariant' /\ LockBookkeeping' /\ NoMissedGrant'
      /\ \A u \in Transactions : st[u] = "holding" => status'[u] = "holding"
  BY AcquireLockArguments, ProcessStep
<1>2. /\ status \in [Transactions -> Statuses] /\ status[t] = "new"
      /\ UNCHANGED <<sqliteTransaction, threadRunning>> /\ threadRunning
  BY DEF CoordinatorInvariant, TypeOK, AcquireLock, Statuses
<1>3. TypeOK'
  BY <1>1, <1>2 DEF CoordinatorInvariant, TypeOK, Statuses, DatabaseNames
<1>4. SqliteNeedsLock'
  BY <1>1, <1>2 DEF CoordinatorInvariant, TypeOK, SqliteNeedsLock
<1> QED BY <1>1, <1>2, <1>3, <1>4 DEF CoordinatorInvariant, RolledBackOnShutdown

LEMMA ReleaseLockStep ==
  ASSUME CoordinatorInvariant, NEW t \in Transactions, ReleaseLock(t)
  PROVE  CoordinatorInvariant'
<1> DEFINE st == [status EXCEPT ![t] = "done"]
<1>1. /\ DOMAIN coordinationInfoMap' \subseteq DatabaseNames
      /\ \A e \in DOMAIN coordinationInfoMap' : coordinationInfoMap'[e] \in CoordinationInfos
      /\ status' \in [Transactions -> Statuses]
      /\ InfoInvariant' /\ LockBookkeeping' /\ NoMissedGrant'
      /\ \A u \in Transactions : st[u] = "holding" => status'[u] = "holding"
  BY ReleaseLockArguments, ProcessStep
<1>2. /\ status \in [Transactions -> Statuses]
      /\ sqliteTransaction' = sqliteTransaction \ {t}
      /\ UNCHANGED threadRunning /\ threadRunning
  BY DEF CoordinatorInvariant, TypeOK, ReleaseLock, Statuses
<1>3. TypeOK'
  BY <1>1, <1>2 DEF CoordinatorInvariant, TypeOK, Statuses, DatabaseNames
<1>4. SqliteNeedsLock'
  BY <1>1, <1>2 DEF CoordinatorInvariant, TypeOK, SqliteNeedsLock
<1> QED BY <1>1, <1>2, <1>3, <1>4 DEF CoordinatorInvariant, RolledBackOnShutdown

LEMMA ShutdownStep ==
  ASSUME CoordinatorInvariant, Shutdown
  PROVE  CoordinatorInvariant'
<1>1. DOMAIN coordinationInfoMap' = {}
  BY DEF Shutdown
<1>2. \A t \in Transactions : status'[t] = "done"
  BY DEF Shutdown
<1>3. sqliteTransaction' = {}
  <2>1. SUFFICES ASSUME NEW t \in sqliteTransaction'
                 PROVE  FALSE
    OBVIOUS
  <2>2. t \in sqliteTransaction
    BY <2>1 DEF Shutdown
  <2>3. t \in Transactions /\ status[t] = "holding"
    BY <2>2 DEF CoordinatorInvariant, TypeOK, SqliteNeedsLock
  <2>4. /\ DatabaseName(t) \in DOMAIN coordinationInfoMap
        /\ t \in Active(coordinationInfoMap[DatabaseName(t)])
    BY <2>3, HolderIsActive
  <2> QED BY <2>1, <2>4 DEF Shutdown
<1>4. TypeOK'
  BY <1>1, <1>3 DEF TypeOK, Shutdown
<1>5. InfoInvariant' /\ NoMissedGrant'
  BY <1>1 DEF InfoInvariant, NoMissedGrant
<1>6. LockBookkeeping'
  <2>1. Pending(NewCoordinationInfo) = {} /\ Active(NewCoordinationInfo) = {}
    BY DEF NewCoordinationInfo, Pending, Active
  <2>2. \A t \in Transactions : InfoFor(DatabaseName(t))' = NewCoordinationInfo
    BY <1>1 DEF InfoFor
  <2> QED BY <1>2, <2>1, <2>2 DEF LockBookkeeping
<1>7. SqliteNeedsLock' /\ RolledBackOnShutdown'
  BY <1>3 DEF SqliteNeedsLock, RolledBackOnShutdown
<1> QED BY <1>4, <1>5, <1>6, <1>7 DEF CoordinatorInvariant

\* CoordinatorInvariant is inductive.
THEOREM CoordinatorInvariance == Spec => []CoordinatorInvariant
<1>1. Init => CoordinatorInvariant
  <2> SUFFICES ASSUME Init PROVE CoordinatorInvariant
    OBVIOUS
  <2>1. DOMAIN coordinationInfoMap = {}
    BY DEF Init
  <2>2. TypeOK /\ InfoInvariant /\ NoMissedGrant
    BY <2>1 DEF Init, TypeOK, InfoInvariant, NoMissedGrant
  <2>3. Pending(NewCoordinationInfo) = {} /\ Active(NewCoordinationInfo) = {}
    BY DEF NewCoordinationInfo, Pending, Active
  <2>4. LockBookkeeping
    BY <2>1, <2>3 DEF Init, LockBookkeeping, InfoFor
  <2>5. SqliteNeedsLock /\ RolledBackOnShutdown
    BY DEF Init, SqliteNeedsLock, RolledBackOnShutdown
  <2> QED BY <2>2, <2>4, <2>5 DEF CoordinatorInvariant
<1>2. CoordinatorInvariant /\ [Next]_vars => CoordinatorInvariant'
  <2> SUFFICES ASSUME CoordinatorInvariant, [Next]_vars
               PROVE  CoordinatorInvariant'
    OBVIOUS
  <2>1. ASSUME NEW t \in Transactions, AcquireLock(t)
        PROVE  CoordinatorInvariant'
    BY <2>1, AcquireLockStep
  <2>2. ASSUME NEW t \in Transactions, OpenTransaction(t)
        PROVE  CoordinatorInvariant'
    <3>1. UNCHANGED <<coordinationInfoMap, status, threadRunning>>
      BY <2>2 DEF OpenTransaction
    <3>2. TypeOK'
      BY <2>2, <3>1 DEF CoordinatorInvariant, TypeOK, OpenTransaction, DatabaseNames
    <3>3. InfoInvariant' /\ LockBookkeeping' /\ NoMissedGrant'
      BY <3>1 DEF CoordinatorInvariant, InfoInvariant, LockBookkeeping, NoMissedGrant, InfoFor
    <3>4. SqliteNeedsLock' /\ RolledBackOnShutdown'
      BY <2>2, <3>1 DEF CoordinatorInvariant, SqliteNeedsLock, RolledBackOnShutdown, OpenTransaction
    <3> QED BY <3>2, <3>3, <3>4 DEF CoordinatorInvariant
  <2>3. ASSUME NEW t \in Transactions, ReleaseLock(t)
        PROVE  CoordinatorInvariant'
    BY <2>3, ReleaseLockStep
  <2>4. CASE Shutdown
    BY <2>4, ShutdownStep
  <2>5. CASE UNCHANGED vars
    BY <2>5 DEF vars, CoordinatorInvariant, TypeOK, InfoInvariant, LockBookkeeping,
                NoMissedGrant, SqliteNeedsLock, RolledBackOnShutdown, InfoFor, DatabaseNames
  <2> QED BY <2>1, <2>2, <2>3, <2>4, <2>5 DEF Next
<1> QED BY <1>1, <1>2, PTL DEF Spec

\* Type correctness of the coordinator's state.
THEOREM TypeCorrectness == Spec => []TypeOK
<1>1. CoordinatorInvariant => TypeOK
  BY DEF CoordinatorInvariant
<1> QED BY <1>1, CoordinatorInvariance, PTL

\* Two holders of the lock of one database are both readers.
LEMMA HoldersAreCompatible ==
  ASSUME CoordinatorInvariant,
         NEW t \in Transactions, NEW u \in Transactions,
         t # u, DatabaseName(t) = DatabaseName(u),
         status[t] = "holding", status[u] = "holding"
  PROVE  t \in ReadOnly /\ u \in ReadOnly
<1> DEFINE info == coordinationInfoMap[DatabaseName(t)]
<1>1. /\ DatabaseName(t) \in DOMAIN coordinationInfoMap
      /\ t \in Active(info) /\ u \in Active(info)
  BY HolderIsActive
<1>2. ExclusiveInfo(info)
  BY <1>1 DEF CoordinatorInvariant, InfoInvariant
<1> HIDE DEF info
<1> QED BY <1>1, <1>2 DEF Active, ExclusiveInfo

\* Open SQLite transactions of one database exclude each other unless all of
\* them only read, for any number of handles and transactions.
THEOREM MutualExclusionHolds == Spec => []MutualExclusion
<1>1. CoordinatorInvariant => MutualExclusion
  <2> SUFFICES ASSUME CoordinatorInvariant,
                      NEW t \in sqliteTransaction, NEW u \in sqliteTransaction,
                      t # u, DatabaseName(t) = DatabaseName(u)
               PROVE  t \in ReadOnly /\ u \in ReadOnly
    BY DEF MutualExclusion
  <2>1. /\ t \in Transactions /\ u \in Transactions
        /\ status[t] = "holding" /\ status[u] = "holding"
    BY DEF CoordinatorInvariant, TypeOK, SqliteNeedsLock
  <2> QED BY <2>1, HoldersAreCompatible
<1> QED BY <1>1, CoordinatorInvariance, PTL

\* The ASSERTs of releaseLock never fail and grants reach waiters only.
THEOREM LockBookkeepingHolds == Spec => []LockBookkeeping
<1>1. CoordinatorInvariant => LockBookkeeping
  BY DEF CoordinatorInvariant
<1> QED BY <1>1, CoordinatorInvariance, PTL

\* A queue never waits for a lock that nobody holds.
THEOREM NoMissedGrantHolds == Spec => []NoMissedGrant
<1>1. CoordinatorInvariant => NoMissedGrant
  BY DEF CoordinatorInvariant
<1> QED BY <1>1, CoordinatorInvariance, PTL

\* shutdown() reaches every open SQLite transaction.
THEOREM RolledBackOnShutdownHolds == Spec => []RolledBackOnShutdown
<1>1. CoordinatorInvariant => RolledBackOnShutdown
  BY DEF CoordinatorInvariant
<1> QED BY <1>1, CoordinatorInvariance, PTL

-----------------------------------------------------------------------------
(* Refinement and the FIFO order.                                          *)

\* The grants of one step are grants of the abstract lock.
LEMMA ProcessGrantsSome ==
  ASSUME NEW t \in Transactions, NEW info, NEW st,
         ProcessArguments(DatabaseName(t), info, st), Process(DatabaseName(t), info, st)
  PROVE  Lock!GrantSome(st, t)
<1> DEFINE G == GrantedSet(info)
           W == {u \in Transactions : st[u] = "waiting" /\ DatabaseName(u) = DatabaseName(t)}
<1>1. G \subseteq Pending(info)
  BY ProcessPendingProperties DEF ProcessArguments
<1>2. G \in SUBSET W
  BY <1>1 DEF ProcessArguments
<1>3. status' = [u \in Transactions |-> IF u \in G THEN "holding" ELSE st[u]]
  BY DEF Process
<1> HIDE DEF G
<1> QED BY <1>2, <1>3 DEF Lock!GrantSome

\* The coordinator implements a readers/writer lock per database name.
THEOREM Refinement == Spec => RefinesTransactionLock
<1>1. Init => Lock!Init
  BY DEF Init, Lock!Init
<1>2. CoordinatorInvariant => Lock!Compatible(status)
  BY HoldersAreCompatible DEF Lock!Compatible
<1>3. CoordinatorInvariant' => Lock!Compatible(status)'
  BY <1>2, PTL
<1>4. CoordinatorInvariant /\ CoordinatorInvariant' /\ [Next]_vars => [Lock!Next]_status
  <2> SUFFICES ASSUME CoordinatorInvariant, CoordinatorInvariant', [Next]_vars
               PROVE  [Lock!Next]_status
    OBVIOUS
  <2>0. Lock!Compatible(status')
    BY <1>3 DEF Lock!Compatible
  <2>1. ASSUME NEW t \in Transactions, AcquireLock(t)
        PROVE  Lock!Acquire(t)
    <3>1. Lock!GrantSome([status EXCEPT ![t] = "waiting"], t)
      BY <2>1, AcquireLockArguments, ProcessGrantsSome
    <3> QED BY <2>0, <2>1, <3>1 DEF Lock!Acquire, AcquireLock
  <2>2. ASSUME NEW t \in Transactions, ReleaseLock(t)
        PROVE  Lock!Release(t)
    <3>1. Lock!GrantSome([status EXCEPT ![t] = "done"], t)
      BY <2>2, ReleaseLockArguments, ProcessGrantsSome
    <3> QED BY <2>0, <2>2, <3>1 DEF Lock!Release, ReleaseLock
  <2>3. ASSUME NEW t \in Transactions, OpenTransaction(t)
        PROVE  status' = status
    BY <2>3 DEF OpenTransaction
  <2>4. CASE Shutdown
    BY <2>4 DEF Shutdown, Lock!Shutdown, Lock!Next
  <2>5. CASE UNCHANGED vars
    BY <2>5 DEF vars
  <2> QED BY <2>1, <2>2, <2>3, <2>4, <2>5 DEF Next, Lock!Next
<1> QED BY <1>1, <1>4, CoordinatorInvariance, PTL DEF Spec, Lock!Spec, RefinesTransactionLock


\* Grants are a prefix of the queue that processPendingTransactions sees, and
\* what is left keeps its order.
LEMMA GrantsArePrefix ==
  ASSUME NEW info \in CoordinationInfos, DistinctInfo(info),
         NEW i \in DOMAIN info.pendingTransactions,
         NEW j \in DOMAIN info.pendingTransactions,
         i < j, info.pendingTransactions[i] \notin GrantedSet(info)
  PROVE  LET rest == ProcessPendingTransactions(info).pendingTransactions IN
         \E x, y \in DOMAIN rest : /\ x < y
                                   /\ rest[x] = info.pendingTransactions[i]
                                   /\ rest[y] = info.pendingTransactions[j]
<1> DEFINE queue == info.pendingTransactions
           n     == GrantCount(info)
           rest  == SubSeq(queue, n + 1, Len(queue))
<1>1. /\ n \in 0..Len(queue) /\ DOMAIN queue = 1..Len(queue) /\ Len(queue) \in Nat
      /\ queue \in Seq(Transactions)
  BY GrantCountProperties DEF CoordinationInfos
<1>2. ~(i \in 1..n)
  BY DEF GrantedSet
<1>3. ProcessPendingTransactions(info).pendingTransactions = rest
  BY DEF ProcessPendingTransactions
<1> HIDE DEF queue, n
<1>4. i - n \in 1..Len(rest) /\ j - n \in 1..Len(rest) /\ i - n < j - n
  BY <1>1, <1>2 DEF queue
<1>5. DOMAIN rest = 1..Len(rest) /\ \A k \in 1..Len(rest) : rest[k] = queue[k + n]
  BY <1>1, SMTT(30)
<1>6. i - n + n = i /\ j - n + n = j
  BY <1>1 DEF queue
<1>7. rest[i - n] = queue[i] /\ rest[j - n] = queue[j]
  BY <1>4, <1>5, <1>6
<1> HIDE DEF rest
<1> QED BY <1>3, <1>4, <1>5, <1>7 DEF queue

\* A waiting transaction stays ahead of later ones until it is served.
THEOREM NoOvertakingHolds == Spec => NoOvertaking
<1> DEFINE InOrder ==
      \A u, t \in Transactions :
        AheadOf(u, t) => status'[u] \in {"holding", "done"} \/ AheadOf(u, t)'
<1>1. CoordinatorInvariant /\ [Next]_vars => [InOrder]_vars
  <2> SUFFICES ASSUME CoordinatorInvariant, Next,
                      NEW u \in Transactions, NEW t \in Transactions,
                      AheadOf(u, t), status'[u] \notin {"holding", "done"}
               PROVE  AheadOf(u, t)'
    OBVIOUS
  <2> DEFINE d     == DatabaseName(u)
             queue == InfoFor(d).pendingTransactions
  <2>1. /\ DatabaseName(t) = d /\ status[u] = "waiting" /\ u \in Pending(InfoFor(d))
        /\ \/ status[t] = "new"
           \/ \E i, j \in DOMAIN queue : i < j /\ queue[i] = u /\ queue[j] = t
    BY DEF AheadOf, CoordinatorInvariant, LockBookkeeping
  <2>2. /\ d \in DatabaseNames /\ InfoFor(d) \in CoordinationInfos
        /\ queue \in Seq(Transactions) /\ DOMAIN queue = 1..Len(queue) /\ Len(queue) \in Nat
    BY InfoForProperties DEF CoordinationInfos, DatabaseNames
  <2>3. \E i \in DOMAIN queue : queue[i] = u
    BY <2>1 DEF Pending
  <2>4. ASSUME NEW e, NEW info, NEW st,
               ProcessArguments(e, info, st), Process(e, info, st),
               st[u] = "waiting",
               e = d => \/ st[t] = "new"
                        \/ \E i, j \in DOMAIN info.pendingTransactions :
                             /\ i < j
                             /\ info.pendingTransactions[i] = u
                             /\ info.pendingTransactions[j] = t
        PROVE  AheadOf(u, t)'
    <3> DEFINE G     == GrantedSet(info)
               after == ProcessPendingTransactions(info)
    <3>1. /\ DOMAIN coordinationInfoMap' = DOMAIN coordinationInfoMap \cup {e}
          /\ coordinationInfoMap'[e] = after
          /\ \A f \in DOMAIN coordinationInfoMap \ {e} :
               coordinationInfoMap'[f] = coordinationInfoMap[f]
          /\ status' = [x \in Transactions |-> IF x \in G THEN "holding" ELSE st[x]]
      BY <2>4 DEF Process
    <3>2. G \subseteq Pending(info)
      BY <2>4, ProcessPendingProperties DEF ProcessArguments
    <3> HIDE DEF G, after
    <3>3. u \notin G /\ status'[u] = "waiting"
      BY <2>4, <3>1
    <3>4. CASE e # d
      <4>1. t \notin G /\ status'[t] = status[t]
        BY <2>1, <2>4, <3>1, <3>2, <3>4 DEF ProcessArguments
      <4>2. InfoFor(d)' = InfoFor(d)
        BY <3>1, <3>4 DEF InfoFor
      <4> QED BY <2>1, <3>3, <4>1, <4>2 DEF AheadOf
    <3>5. CASE e = d
      <4>1. InfoFor(d)' = after
        BY <3>1, <3>5 DEF InfoFor
      <4>2. CASE st[t] = "new"
        <5>1. t \notin G
          BY <2>1, <2>4, <3>2, <3>5, <4>2 DEF ProcessArguments
        <5>2. status'[t] = "new"
          BY <3>1, <4>2, <5>1
        <5> QED BY <2>1, <3>3, <5>2 DEF AheadOf
      <4>3. CASE \E i, j \in DOMAIN info.pendingTransactions :
                   /\ i < j
                   /\ info.pendingTransactions[i] = u
                   /\ info.pendingTransactions[j] = t
        <5>1. info \in CoordinationInfos /\ DistinctInfo(info)
          BY <2>4 DEF ProcessArguments
        <5>2. \E x, y \in DOMAIN after.pendingTransactions :
                x < y /\ after.pendingTransactions[x] = u /\ after.pendingTransactions[y] = t
          BY <4>3, <5>1, <3>3, GrantsArePrefix DEF G, after
        <5> QED BY <2>1, <3>3, <4>1, <5>2 DEF AheadOf
      <4> QED BY <2>4, <3>5, <4>2, <4>3
    <3> QED BY <3>4, <3>5
  <2>5. ASSUME NEW a \in Transactions, AcquireLock(a)
        PROVE  AheadOf(u, t)'
    <3> DEFINE info == Enqueue(InfoFor(DatabaseName(a)), a)
               st   == [status EXCEPT ![a] = "waiting"]
    <3>1. ProcessArguments(DatabaseName(a), info, st) /\ Process(DatabaseName(a), info, st)
      BY <2>5, AcquireLockArguments
    <3>2. st[u] = "waiting" /\ \A x \in Transactions \ {a} : st[x] = status[x]
      BY <2>1 DEF CoordinatorInvariant, TypeOK
    <3>3. DatabaseName(a) = d => info.pendingTransactions = Append(queue, a)
      BY <2>2 DEF Enqueue, CoordinationInfos
    <3>4. /\ DOMAIN queue \subseteq DOMAIN Append(queue, a)
          /\ \A k \in DOMAIN queue : Append(queue, a)[k] = queue[k]
          /\ Len(queue) + 1 \in DOMAIN Append(queue, a)
          /\ Append(queue, a)[Len(queue) + 1] = a
          /\ \A k \in DOMAIN queue : k < Len(queue) + 1
      <4> HIDE DEF queue
      <4> QED BY <2>2
    <3>5. \/ st[t] = "new"
          \/ \E i, j \in DOMAIN Append(queue, a) :
               i < j /\ Append(queue, a)[i] = u /\ Append(queue, a)[j] = t
      <4> HIDE DEF queue, st
      <4>1. CASE status[t] = "new" /\ t # a
        BY <3>2, <4>1
      <4>2. CASE status[t] = "new" /\ t = a
        BY <2>3, <3>4, <4>2
      <4>3. CASE \E i, j \in DOMAIN queue : i < j /\ queue[i] = u /\ queue[j] = t
        BY <3>4, <4>3
      <4> QED BY <2>1, <4>1, <4>2, <4>3 DEF queue
    <3> HIDE DEF info, st, queue, d
    <3> QED BY <2>4, <3>1, <3>2, <3>3, <3>5
  <2>6. ASSUME NEW a \in Transactions, ReleaseLock(a)
        PROVE  AheadOf(u, t)'
    <3> DEFINE info == Deactivate(InfoFor(DatabaseName(a)), a)
               st   == [status EXCEPT ![a] = "done"]
    <3>1. ProcessArguments(DatabaseName(a), info, st) /\ Process(DatabaseName(a), info, st)
      BY <2>6, ReleaseLockArguments
    <3>2. st[u] = "waiting" /\ (status[t] = "new" => st[t] = "new")
      BY <2>1, <2>6 DEF CoordinatorInvariant, TypeOK, ReleaseLock
    <3>3. DatabaseName(a) = d => info.pendingTransactions = queue
      BY <2>2 DEF Deactivate, CoordinationInfos
    <3> HIDE DEF info, st, queue, d
    <3> QED BY <2>1, <2>4, <3>1, <3>2, <3>3
  <2>7. ASSUME NEW a \in Transactions, OpenTransaction(a)
        PROVE  AheadOf(u, t)'
    BY <2>7 DEF OpenTransaction, AheadOf, InfoFor
  <2>8. CASE Shutdown
    BY <2>8 DEF Shutdown
  <2> QED BY <2>5, <2>6, <2>7, <2>8 DEF Next
<1> QED BY <1>1, CoordinatorInvariance, PTL DEF Spec, NoOvertaking
=============================================================================
