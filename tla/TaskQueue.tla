------------------------------ MODULE TaskQueue ------------------------------
(***************************************************************************)
(* What WTF::MessageQueue promises: a sequence of messages in which every  *)
(* operation is one step.  The receiver gets the first message it asks for *)
(* while the queue is alive, a message is received at most once, and       *)
(* nothing is received once the queue is killed.  WebDatabase uses the     *)
(* queue of the database thread in this form.                              *)
(***************************************************************************)
EXTENDS Naturals, Sequences

CONSTANTS Messages, KindOf(_)   \* a receiver may ask for any message or for one kind

VARIABLES queue, killed, received

Init == queue = <<>> /\ killed = FALSE /\ received = <<>>

Put(m) ==
  /\ queue' \in {Append(queue, m), <<m>> \o queue}
  /\ UNCHANGED <<killed, received>>

\* The i-th message is received: no message in front of it has its kind, or
\* it is the very first.
Take(i) ==
  /\ ~killed
  /\ i = 1 \/ \A j \in 1..(i - 1) : KindOf(queue[j]) # KindOf(queue[i])
  /\ received' = Append(received, queue[i])
  /\ queue' = [j \in 1..(Len(queue) - 1) |-> IF j < i THEN queue[j] ELSE queue[j + 1]]
  /\ UNCHANGED killed

\* Some messages are removed, the others stay in their order.
Purge ==
  /\ \E n \in 0..Len(queue) : \E at \in [1..n -> DOMAIN queue] :
       /\ \A j, k \in 1..n : j < k => at[j] < at[k]
       /\ queue' = [k \in 1..n |-> queue[at[k]]]
  /\ UNCHANGED <<killed, received>>

Kill == killed' = TRUE /\ UNCHANGED <<queue, received>>

Next ==
  \/ \E m \in Messages : Put(m)
  \/ \E i \in DOMAIN queue : Take(i)
  \/ Purge
  \/ Kill

Spec == Init /\ [][Next]_<<queue, killed, received>>
=============================================================================
