--------------------------- MODULE TransactionLock ---------------------------
(***************************************************************************)
(* What SQLTransactionCoordinator promises to the transactions of a        *)
(* database thread, without its queues: a readers/writer lock for each     *)
(* database name.  A request may be granted at once or later, together     *)
(* with others, but never so that a writer shares the lock; an end of the  *)
(* database thread takes the lock away from everybody.                     *)
(***************************************************************************)
CONSTANTS Transactions, ReadOnly, DatabaseName(_)

VARIABLE status
\* status[t] is "new", "waiting", "holding" or "done"

Compatible(st) ==
  \A t, u \in Transactions :
    /\ t # u
    /\ DatabaseName(t) = DatabaseName(u)
    /\ st[t] = "holding"
    /\ st[u] = "holding"
    => t \in ReadOnly /\ u \in ReadOnly

Init == status = [t \in Transactions |-> "new"]

\* Transactions on t's database that wait after the step `before` may get the
\* lock in the same step.
GrantSome(before, t) ==
  \E G \in SUBSET {u \in Transactions : /\ before[u] = "waiting"
                                        /\ DatabaseName(u) = DatabaseName(t)} :
    status' = [u \in Transactions |-> IF u \in G THEN "holding" ELSE before[u]]

Acquire(t) ==
  /\ status[t] = "new"
  /\ GrantSome([status EXCEPT ![t] = "waiting"], t)
  /\ Compatible(status')

Release(t) ==
  /\ status[t] = "holding"
  /\ GrantSome([status EXCEPT ![t] = "done"], t)
  /\ Compatible(status')

Shutdown == status' = [t \in Transactions |-> "done"]

Next ==
  \/ \E t \in Transactions : Acquire(t) \/ Release(t)
  \/ Shutdown

Spec == Init /\ [][Next]_status
=============================================================================
