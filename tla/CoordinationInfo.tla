-------------------------- MODULE CoordinationInfo --------------------------
(***************************************************************************)
(* SQLTransactionCoordinator::CoordinationInfo and the three functions     *)
(* that update it: the lock bookkeeping for ONE database name.  A          *)
(* CoordinationInfo is a value here, so the module has no variables; the   *)
(* specifications that own a coordinator extend it.                        *)
(*                                                                         *)
(* lockAcquired() is a call on each granted transaction.  What it does is  *)
(* the business of the caller's model, so the transactions that a step     *)
(* grants are returned by Granted, in the order of the calls.              *)
(***************************************************************************)
EXTENDS Integers, Sequences, FiniteSets, FiniteSetsExt

CONSTANTS
  Transactions,   \* SQLTransaction objects
  ReadOnly,       \* those whose isReadOnly() is true (Database::readTransaction)
  NoTransaction   \* the null RefPtr

ASSUME ReadOnlyAssumption == ReadOnly \subseteq Transactions
ASSUME NoTransactionAssumption == NoTransaction \notin Transactions

CoordinationInfos ==
  [pendingTransactions    : Seq(Transactions),
   activeReadTransactions : SUBSET Transactions,
   activeWriteTransaction : Transactions \cup {NoTransaction}]

\* CoordinationInfo(): what m_coordinationInfoMap.add() stores for a new name.
NewCoordinationInfo ==
  [pendingTransactions    |-> << >>,
   activeReadTransactions |-> {},
   activeWriteTransaction |-> NoTransaction]

Pending(info) == {info.pendingTransactions[i] : i \in DOMAIN info.pendingTransactions}

\* The transactions that hold the lock.
Active(info) ==
  info.activeReadTransactions \cup ({info.activeWriteTransaction} \ {NoTransaction})

\* Mutant: the loop takes one reader only.
ReaderPrefixLengthOne(queue) == 1

\* How many transactions the do-while loop takes off a queue with a reader in
\* front: all up to the first writer, or the whole queue.
ReaderPrefixLength(queue) ==
  Min({n \in 0..Len(queue) : n < Len(queue) => queue[n + 1] \notin ReadOnly})

\* Mutant: a writer does not wait for the active readers.
GrantCountIgnoringReaders(info) ==
  LET queue == info.pendingTransactions IN
  IF info.activeWriteTransaction # NoTransaction \/ queue = << >> THEN 0
  ELSE IF Head(queue) \in ReadOnly THEN ReaderPrefixLength(queue)
  ELSE 1

\* How many pending transactions processPendingTransactions lets in.
GrantCount(info) ==
  LET queue == info.pendingTransactions IN
  IF info.activeWriteTransaction # NoTransaction \/ queue = << >> THEN 0
  ELSE IF Head(queue) \in ReadOnly THEN ReaderPrefixLength(queue)
  ELSE IF info.activeReadTransactions = {} THEN 1
  ELSE 0

\* The transactions it calls lockAcquired() on, in the order of the calls.
Granted(info) == SubSeq(info.pendingTransactions, 1, GrantCount(info))

GrantedSet(info) ==
  {info.pendingTransactions[i] : i \in 1..GrantCount(info)}

ProcessPendingTransactions(info) ==
  LET queue == info.pendingTransactions
      n     == GrantCount(info)
  IN  [pendingTransactions    |-> SubSeq(queue, n + 1, Len(queue)),
       activeReadTransactions |->
         info.activeReadTransactions \cup (GrantedSet(info) \cap ReadOnly),
       activeWriteTransaction |->
         IF n > 0 /\ Head(queue) \notin ReadOnly THEN Head(queue)
                                                 ELSE info.activeWriteTransaction]

\* Mutant: a new transaction is put in front of the queue.
EnqueueFirst(info, t) ==
  [info EXCEPT !.pendingTransactions = <<t>> \o @]

\* acquireLock() up to the call of processPendingTransactions.
Enqueue(info, t) ==
  [info EXCEPT !.pendingTransactions = Append(@, t)]

\* Mutant: releaseLock forgets to reset activeWriteTransaction.
DeactivateReadersOnly(info, t) ==
  [info EXCEPT !.activeReadTransactions = @ \ {t}]

\* releaseLock() between the early return and processPendingTransactions.
Deactivate(info, t) ==
  IF t \in ReadOnly
  THEN [info EXCEPT !.activeReadTransactions = @ \ {t}]
  ELSE [info EXCEPT !.activeWriteTransaction = NoTransaction]

-----------------------------------------------------------------------------
(* What a CoordinationInfo must satisfy between two calls.                 *)

\* Readers share the lock with readers only and a writer is alone.
ExclusiveInfo(info) ==
  /\ info.activeReadTransactions \subseteq ReadOnly
  /\ info.activeWriteTransaction # NoTransaction =>
       /\ info.activeWriteTransaction \notin ReadOnly
       /\ info.activeReadTransactions = {}

\* A transaction is in the queue at most once and never both queued and active.
DistinctInfo(info) ==
  LET queue == info.pendingTransactions IN
  /\ \A i, j \in DOMAIN queue : queue[i] = queue[j] => i = j
  /\ \A i \in DOMAIN queue : queue[i] \notin Active(info)

\* The queue only waits for somebody who will release: its head is a writer
\* that active transactions keep out, or a reader that an active writer does.
NoMissedGrantInfo(info) ==
  info.pendingTransactions # << >> =>
    \/ info.activeWriteTransaction # NoTransaction
    \/ /\ Head(info.pendingTransactions) \notin ReadOnly
       /\ info.activeReadTransactions # {}
=============================================================================
