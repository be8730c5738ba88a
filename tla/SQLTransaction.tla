--------------------------- MODULE SQLTransaction ---------------------------
(***************************************************************************)
(* One SQLTransaction object and its steps, as functions of the object's   *)
(* value.  A transaction alternates between two threads: a step that runs  *)
(* on the database thread leaves a DatabaseTransactionTask or a            *)
(* DeliverPendingCallbackTask behind, which carries the next step.  The    *)
(* operator of a step yields the set of its possible Outcomes:             *)
(*   txn      - the object afterwards                                      *)
(*   schedule - "step" (scheduleTransactionStep), "callback"               *)
(*              (scheduleTransactionCallback), "again" (runStatements      *)
(*              stays in its loop) or "none"                               *)
(*   release  - the step ends with SQLTransactionCoordinator::releaseLock  *)
(* What the steps read of the Database object (opened, deleted) is a       *)
(* parameter.  The threads and queues are in WebDatabase.                  *)
(***************************************************************************)
EXTENDS Integers, Sequences, FiniteSets

CONSTANT MaxQuotaIncreases   \* bound on the quota increases of a transaction

\* The null m_currentStatement.
NoStatement == [callback |-> FALSE, errorCallback |-> FALSE, error |-> "null", handled |-> FALSE]

\* SQLStatement: callbacks still wrapped and m_error.  handled is history: the
\* statement's error callback ran and returned false.
NewStatement(kind, marked) ==
  [callback |-> kind.callback, errorCallback |-> kind.errorCallback,
   error |-> IF marked THEN "other" ELSE "none", handled |-> FALSE]

\* sqlite is m_sqliteTransaction: "none" (null), "inProgress", "rolledBack"
\* (in progress, but wasRolledBackBySqlite()) or "ended" (not in progress).
\* happened and increases are history: what the transaction has done so far and
\* how often its quota was increased.
NewSQLTransaction(callbacks) ==
  [nextStep        |-> "acquireLock",
   lockAcquired    |-> FALSE,
   sqlite          |-> "none",
   statements      |-> << >>,
   current         |-> NoStatement,
   retry           |-> FALSE,
   callback        |-> "transaction" \in callbacks,
   errorCallback   |-> "error" \in callbacks,
   successCallback |-> "success" \in callbacks,
   error           |-> "none",
   increases       |-> 0,
   happened        |-> {}]

DatabaseSteps ==
  {"acquireLock", "openTransactionAndPreflight", "runStatements", "postflightAndCommit",
   "cleanupAfterSuccessCallback", "cleanupAfterTransactionErrorCallback"}

ContextSteps ==
  {"deliverTransactionCallback", "deliverTransactionErrorCallback",
   "deliverStatementCallback", "deliverQuotaIncreaseCallback", "deliverSuccessCallback"}

Record(x, event) == [x EXCEPT !.happened = @ \cup {event}]

Outcome(x, schedule) == [txn |-> x, schedule |-> schedule, release |-> FALSE]

\* m_nextStep = step, then scheduleTransactionCallback or scheduleTransactionStep.
ToContext(x, step) == Outcome([x EXCEPT !.nextStep = step], "callback")
ToDatabase(x, step) == Outcome([x EXCEPT !.nextStep = step], "step")

LockAcquired(x) ==
  [x EXCEPT !.lockAcquired = TRUE, !.nextStep = "openTransactionAndPreflight"]

-----------------------------------------------------------------------------
(* Both ways a transaction ends.                                           *)

CleanupAfterSuccessCallback(x) ==
  [txn |-> [x EXCEPT !.sqlite = "none", !.nextStep = "none"],
   schedule |-> "none", release |-> TRUE]

\* Mutant: the lock is not released.
CleanupKeepingTheLock(x) ==
  [txn |-> [x EXCEPT !.sqlite = "none", !.statements = << >>, !.nextStep = "none"],
   schedule |-> "none", release |-> FALSE]

CleanupAfterTransactionErrorCallback(x) ==
  [txn |-> [x EXCEPT !.sqlite = "none", !.statements = << >>, !.nextStep = "none"],
   schedule |-> "none", release |-> TRUE]

-----------------------------------------------------------------------------
(* Errors.                                                                 *)

DeliverTransactionErrorCallback(x) ==
  ToDatabase(IF x.errorCallback
             THEN Record([x EXCEPT !.errorCallback = FALSE], "errorCallback")
             ELSE x,
             "cleanupAfterTransactionErrorCallback")

\* inCallback: the error was met on the context thread.
HandleTransactionError(x, why, inCallback) ==
  LET y == [x EXCEPT !.error = why] IN
  IF x.errorCallback
  THEN IF inCallback THEN DeliverTransactionErrorCallback(y)
       ELSE ToContext(y, "deliverTransactionErrorCallback")
  ELSE IF inCallback THEN ToDatabase(y, "cleanupAfterTransactionErrorCallback")
       ELSE CleanupAfterTransactionErrorCallback(y)

HandleCurrentStatementError(x) ==
  IF x.current.errorCallback /\ x.sqlite # "rolledBack"
  THEN ToContext(x, "deliverStatementCallback")
  ELSE HandleTransactionError(x, "statement", FALSE)

\* checkAndHandleClosedOrInterruptedDatabase, when the database is closed or
\* interrupted: the part for any thread, and the part for the database thread.
CancelOnContextThread(x) ==
  [x EXCEPT !.statements = << >>, !.nextStep = "none", !.callback = FALSE,
            !.errorCallback = FALSE, !.successCallback = FALSE]

CancelOnDatabaseThread(x) ==
  [txn |-> [CancelOnContextThread(x) EXCEPT !.sqlite = "none"],
   schedule |-> "none", release |-> x.lockAcquired]

-----------------------------------------------------------------------------
(* Steps on the database thread.                                           *)

\* BEGIN and the preflight of changeVersion may fail; the SQLite transaction is
\* then gone (the destructor rolls it back).
OpenTransactionAndPreflight(x, deleted) ==
  IF deleted THEN {HandleTransactionError(x, "deleted", FALSE)}
  ELSE {HandleTransactionError(x, "open", FALSE),
        ToContext([x EXCEPT !.sqlite = "inProgress"], "deliverTransactionCallback")}

\* Mutant: a failed COMMIT is not noticed.
PostflightAndCommitUnchecked(x) ==
  {IF x.successCallback
   THEN ToContext([x EXCEPT !.sqlite = "ended"], "deliverSuccessCallback")
   ELSE CleanupAfterSuccessCallback([x EXCEPT !.sqlite = "ended"]),
   IF x.successCallback
   THEN ToContext(Record([x EXCEPT !.sqlite = "ended"], "committed"), "deliverSuccessCallback")
   ELSE CleanupAfterSuccessCallback(Record([x EXCEPT !.sqlite = "ended"], "committed"))}

\* The postflight of changeVersion may fail, and so may COMMIT.
PostflightAndCommit(x) ==
  LET done == Record([x EXCEPT !.sqlite = "ended", !.errorCallback = FALSE], "committed") IN
  {HandleTransactionError(x, "postflight", FALSE),
   HandleTransactionError([x EXCEPT !.successCallback = FALSE], "commit", FALSE),
   IF x.successCallback THEN ToContext(done, "deliverSuccessCallback")
                        ELSE CleanupAfterSuccessCallback(done)}

\* SQLStatement::execute and what follows.  SQLite may give up the whole
\* transaction together with a failing statement.
RunCurrentStatement(x) ==
  LET run == IF x.sqlite = "inProgress" THEN x ELSE Record(x, "ranOutsideTransaction")
      Failed(error, sqlite) == [run EXCEPT !.current.error = error, !.sqlite = sqlite]
  IN
  IF x.current.error = "other"      \* marked bad while it was set up
  THEN {HandleCurrentStatementError(x)}
  ELSE {IF x.current.callback
        THEN ToContext([run EXCEPT !.current.error = "none"], "deliverStatementCallback")
        ELSE Outcome([run EXCEPT !.current.error = "none"], "again")}
       \cup {ToContext(Failed("quota", s), "deliverQuotaIncreaseCallback") :
               s \in {x.sqlite, "rolledBack"}}
       \cup {HandleCurrentStatementError(Failed("other", s)) : s \in {x.sqlite, "rolledBack"}}

GetNextStatement(x) ==
  IF x.statements = << >>
  THEN [x EXCEPT !.current = NoStatement]
  ELSE [x EXCEPT !.current = Head(x.statements), !.statements = Tail(x.statements)]

\* Mutant: a statement is retried although SQLite rolled the transaction back.
RunStatementsRetryingAlways(x) ==
  IF x.retry THEN RunCurrentStatement([x EXCEPT !.retry = FALSE])
  ELSE IF x.current.error = "quota" THEN {HandleCurrentStatementError(x)}
  ELSE LET next == GetNextStatement(x) IN
       IF next.current = NoStatement THEN PostflightAndCommit(next) ELSE RunCurrentStatement(next)

\* Mutant: every failed statement is looked at again, not only one out of quota.
RunStatementsRevisitingErrors(x) ==
  IF x.retry /\ x.sqlite # "rolledBack"
  THEN RunCurrentStatement([x EXCEPT !.retry = FALSE])
  ELSE IF x.current.error \in {"quota", "other"} THEN {HandleCurrentStatementError(x)}
  ELSE LET next == GetNextStatement(x) IN
       IF next.current = NoStatement THEN PostflightAndCommit(next) ELSE RunCurrentStatement(next)

\* One turn of the loop of runStatements.
RunStatements(x) ==
  IF x.retry /\ x.sqlite # "rolledBack"
  THEN RunCurrentStatement([x EXCEPT !.retry = FALSE])
  ELSE IF x.current.error = "quota" THEN {HandleCurrentStatementError(x)}
  ELSE LET next == GetNextStatement(x) IN
       IF next.current = NoStatement THEN PostflightAndCommit(next) ELSE RunCurrentStatement(next)

\* The step m_nextStep names; acquireLock is the coordinator's business.
DatabaseStep(x, deleted) ==
  CASE x.nextStep = "openTransactionAndPreflight" -> OpenTransactionAndPreflight(x, deleted)
    [] x.nextStep = "runStatements" -> RunStatements(x)
    [] x.nextStep = "cleanupAfterSuccessCallback" -> {CleanupAfterSuccessCallback(x)}
    [] x.nextStep = "cleanupAfterTransactionErrorCallback" ->
         {CleanupAfterTransactionErrorCallback(x)}

-----------------------------------------------------------------------------
(* Steps on the context thread.  The two that call a script which may use  *)
(* executeSQL come in two parts, before and after the script.              *)

EntersScript(x) ==
  \/ x.nextStep = "deliverTransactionCallback" /\ x.callback
  \/ x.nextStep = "deliverStatementCallback"

\* The callback is unwrapped before it is called.
BeforeScript(x) ==
  IF x.nextStep = "deliverTransactionCallback"
  THEN [x EXCEPT !.callback = FALSE]
  ELSE [x EXCEPT !.current.callback = FALSE, !.current.errorCallback = FALSE]

\* The statement is marked when the database is deleted, or has not the version
\* that the handle expects.
ExecuteSQL(x, kind, deleted, mismatched) ==
  [x EXCEPT !.statements = Append(@, NewStatement(kind, deleted \/ mismatched))]

\* failed: the script threw, or a statement error callback did not return false.
AfterScript(x, failed) ==
  IF x.nextStep = "deliverTransactionCallback"
  THEN IF failed THEN DeliverTransactionErrorCallback([x EXCEPT !.error = "callback"])
                 ELSE ToDatabase(x, "runStatements")
  ELSE IF failed THEN HandleTransactionError(x, "callback", TRUE)
                 ELSE ToDatabase([x EXCEPT !.current.handled = x.current.error # "none"],
                                 "runStatements")

\* Steps that do not let a script use the transaction.  The quota callback asks
\* the embedder, who may grant more space.
ContextStep(x) ==
  CASE x.nextStep = "deliverTransactionCallback" -> {ToDatabase(x, "runStatements")}
    [] x.nextStep = "deliverQuotaIncreaseCallback" ->
         {ToDatabase([x EXCEPT !.retry = granted, !.increases = IF granted THEN @ + 1 ELSE @],
                     "runStatements") :
            granted \in IF x.increases < MaxQuotaIncreases THEN BOOLEAN ELSE {FALSE}}
    [] x.nextStep = "deliverSuccessCallback" ->
         {ToDatabase(Record([x EXCEPT !.successCallback = FALSE], "successCallback"),
                     "cleanupAfterSuccessCallback")}
    [] x.nextStep = "deliverTransactionErrorCallback" -> {DeliverTransactionErrorCallback(x)}
=============================================================================
