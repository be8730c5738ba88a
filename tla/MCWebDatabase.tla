--------------------------- MODULE MCWebDatabase ---------------------------
EXTENDS WebDatabase

CONSTANTS h1, h2, w1, w2, r1, r2

\* Callbacks of transactions and statements.
EveryCallback(t) == {{"transaction", "error", "success"}}
TransactionCallbackOnly(t) == {{"transaction"}}
AllOrNone == {[callback |-> b, errorCallback |-> b] : b \in BOOLEAN}
WithCallbacks == {[callback |-> TRUE, errorCallback |-> TRUE]}
NoStatements(t) == 0

\* One writer on one handle.
OneTransaction == {w1}
OneHandle == {h1}
NoReadOnly == {}
SameName(h) == "db"
NoRequests == {}

\* Two handles of one name.
TwoHandles == {h1, h2}
HandleOfTransaction(t) == IF t \in {w2, r2} THEN h2 ELSE h1
TwoWriters == {w1, w2}

\* Two readers queue on one handle, a writer on the other ...
TwoReadersOneHandle == {r1, r2, w1}
BothReadOnly == {r1, r2}
ReadersOnH2(t) == IF t = w1 THEN h1 ELSE h2

\* ... or a reader queues behind a writer, and a writer on the other handle.
QueueOnH1 == {w1, r1, w2}
OneReadOnly == {r1}

\* The first writer has all callbacks or only the first, and two statements.
CallbackSetsOf(t) ==
  IF t = w1 THEN {{"transaction"}, {"transaction", "error", "success"}} ELSE TransactionCallbackOnly(t)
TwoOfW1(t) == IF t = w1 THEN 2 ELSE 0

\* A document: its main thread is its context thread.
DocumentRequests ==
  {<<"deleteDatabase", "db">>, <<"tableNames", h1>>, <<"requestTermination", "thread">>}
DeleteDatabaseRequest == {<<"deleteDatabase", "db">>}

\* A worker: the main thread terminates it or closes its databases ...
WorkerRequests ==
  {<<"interrupt", h1>>, <<"closeImmediately", h2>>, <<"requestTermination", "thread">>}

\* ... or the user deletes a database while the worker stops.
DeleteAndTerminate ==
  {<<"deleteDatabase", "db">>, <<"requestTermination", "thread">>}
=============================================================================
