-------------------------- MODULE TransactionService --------------------------
(***************************************************************************)
(* What the Web SQL database of a context promises to scripts, without     *)
(* threads, tasks, locks and steps.  The transactions of a handle wait in  *)
(* line and are opened one at a time, in the order of their requests; open *)
(* transactions on the same database are one writer or readers.  A script  *)
(* is told of the end of a transaction once at most: of its success only   *)
(* after the commit, of an error only if nothing is or will be committed.  *)
(* A handle that was stopped opens nothing any more.                       *)
(***************************************************************************)
EXTENDS Sequences

CONSTANTS Transactions, ReadOnly, Handles, HandleOf(_), NameOf(_)

VARIABLES
  stopped,   \* handles that were closed or interrupted
  waiting,   \* the transactions that wait on each handle, in order
  status,    \* "new", "waiting", "open", "committed" or "undone"
  told       \* "nothing", "success" or "error"

vars == <<stopped, waiting, status, told>>

Isolated(st) ==
  \A t, u \in Transactions :
    t # u /\ st[t] = "open" /\ st[u] = "open" =>
      /\ HandleOf(t) # HandleOf(u)
      /\ NameOf(HandleOf(t)) = NameOf(HandleOf(u)) => t \in ReadOnly /\ u \in ReadOnly

Init ==
  /\ stopped = {}
  /\ waiting = [h \in Handles |-> << >>]
  /\ status = [t \in Transactions |-> "new"]
  /\ told = [t \in Transactions |-> "nothing"]

Request(t) ==
  /\ status[t] = "new" /\ HandleOf(t) \notin stopped
  /\ status' = [status EXCEPT ![t] = "waiting"]
  /\ waiting' = [waiting EXCEPT ![HandleOf(t)] = Append(@, t)]
  /\ UNCHANGED <<stopped, told>>

\* On a stopped handle nothing will come of the request.
Refuse(t) ==
  /\ status[t] = "new" /\ HandleOf(t) \in stopped
  /\ status' = [status EXCEPT ![t] = "undone"]
  /\ UNCHANGED <<stopped, waiting, told>>

\* What waits on the handle is given up; what is open there is undone or
\* committed later.
Stop(h) ==
  /\ h \notin stopped
  /\ stopped' = stopped \cup {h}
  /\ waiting' = [waiting EXCEPT ![h] = << >>]
  /\ status' = [t \in Transactions |->
                  IF status[t] = "waiting" /\ HandleOf(t) = h THEN "undone" ELSE status[t]]
  /\ UNCHANGED told

\* The first in line leaves it.
Leave(t, outcome) ==
  /\ waiting[HandleOf(t)] # << >> /\ t = Head(waiting[HandleOf(t)])
  /\ status[t] = "waiting"
  /\ status' = [status EXCEPT ![t] = outcome]
  /\ waiting' = [waiting EXCEPT ![HandleOf(t)] = Tail(@)]
  /\ UNCHANGED <<stopped, told>>

Open(t) == Leave(t, "open") /\ Isolated(status')

Fail(t) == Leave(t, "undone")

Commit(t) ==
  /\ status[t] = "open" /\ told[t] = "nothing"
  /\ status' = [status EXCEPT ![t] = "committed"]
  /\ UNCHANGED <<stopped, waiting, told>>

Undo(t) ==
  /\ status[t] = "open"
  /\ status' = [status EXCEPT ![t] = "undone"]
  /\ UNCHANGED <<stopped, waiting, told>>

\* The database thread ends.
UndoAll ==
  /\ status' = [t \in Transactions |-> IF status[t] = "open" THEN "undone" ELSE status[t]]
  /\ UNCHANGED <<stopped, waiting, told>>

Tell(t, what) ==
  /\ told[t] = "nothing"
  /\ status[t] \in IF what = "success" THEN {"committed"} ELSE {"open", "undone"}
  /\ told' = [told EXCEPT ![t] = what]
  /\ UNCHANGED <<stopped, waiting, status>>

Next ==
  \/ \E t \in Transactions :
       \/ Request(t) \/ Refuse(t) \/ Open(t) \/ Fail(t) \/ Commit(t) \/ Undo(t)
       \/ Tell(t, "success") \/ Tell(t, "error")
  \/ \E h \in Handles : Stop(h)
  \/ UndoAll

Spec == Init /\ [][Next]_vars
=============================================================================
