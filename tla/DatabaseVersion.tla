--------------------------- MODULE DatabaseVersion ---------------------------
(***************************************************************************)
(* The version of one database: what its file says, the process-wide maps  *)
(* guidToDatabaseMap and guidToVersionMap that cache it (one guid here:    *)
(* databases do not share entries), the handles with their m_expectedVersion *)
(* and the changeVersion transactions.  Handles belong to different        *)
(* contexts, so their steps interleave; guidMutex makes each visit of the  *)
(* maps one step and SQLite lets one connection at a time write a file.    *)
(* Deleting the database starts a new file; a DatabaseSync is not closed   *)
(* by it (markAsDeletedAndClose is empty) and keeps the unlinked file.     *)
(*                                                                         *)
(* Database (asynchronous) updates the cache in its postflight, before     *)
(* COMMIT; DatabaseSync updates it after COMMIT.                           *)
(***************************************************************************)
EXTENDS Naturals

CONSTANTS
  Handles,        \* AbstractDatabase objects, each used once
  SyncHandles,    \* those that are a DatabaseSync
  Versions,       \* the non-empty version strings
  CommitMayFail,  \* whether COMMIT may fail
  MaxDeletions    \* bound: how often the user deletes the database

ASSUME SyncHandlesAssumption == SyncHandles \subseteq Handles
ASSUME VersionsAssumption == Versions \cap {"noTable", "null", "empty", "absent"} = {}
ASSUME CommitAssumption == CommitMayFail \in BOOLEAN
ASSUME MaxDeletionsAssumption == MaxDeletions \in Nat

VARIABLES
  files,             \* the version in each file the database has had: "noTable"
                     \*   (no info table, or no file), "null" (no version row),
                     \*   "empty" (the version "") or a version
  current,           \* the file that is in the directory
  connection,        \* the file that each open handle uses
  guidToDatabaseMap, \* the set of handles of the guid
  guidToVersionMap,  \* "absent", "null" or a version
  state,             \* "unused", "constructed", "verifying", "opened", "closed" or "failed"
  found,             \* what an open has found when it leaves guidMutex
  expected,          \* m_expectedVersion, "empty" for ""
  setVersion,        \* setVersionInNewDatabase: there is no creation callback
  change,            \* changeVersion of each handle
  disturbed          \* history: something happened that the code does not keep the
                     \*   cache in step with (a COMMIT failed after its postflight, the
                     \*   file was deleted, a changeVersion began between the COMMIT
                     \*   of a DatabaseSync and its setExpectedVersion)

vars == <<files, current, connection, guidToDatabaseMap, guidToVersionMap, state, found, expected,
          setVersion, change, disturbed>>

Strings == Versions \cup {"empty"}

File(h) == files[connection[h]]

\* new: m_new.  overtaken (history): a changeVersion was committing, or has
\* committed since.
NotFound == [version |-> "empty", new |-> FALSE, overtaken |-> FALSE]

NoChange == [stage |-> "none", version |-> "empty"]

Init ==
  /\ \E content \in {"noTable", "null"} \cup Strings :
       files = [f \in 0..MaxDeletions |-> IF f = 0 THEN content ELSE "noTable"]
  /\ current = 0 /\ connection = [h \in Handles |-> 0]
  /\ guidToDatabaseMap = {} /\ guidToVersionMap = "absent"
  /\ state = [h \in Handles |-> "unused"] /\ found = [h \in Handles |-> NotFound]
  /\ expected = [h \in Handles |-> "empty"]
  /\ setVersion = [h \in Handles |-> TRUE]
  /\ change = [h \in Handles |-> NoChange]
  /\ disturbed = FALSE

\* Mutant: the empty string itself is stored.
CachedAsIs(version) == version

\* updateGuidVersionMap stores a null string for the empty one.
Cached(version) == IF version = "empty" THEN "null" ELSE version

\* The constructor.
Construct(h) ==
  /\ state[h] = "unused"
  /\ \E version \in Strings, set \in BOOLEAN :
       /\ expected' = [expected EXCEPT ![h] = version]
       /\ setVersion' = [setVersion EXCEPT ![h] = set]
  /\ state' = [state EXCEPT ![h] = "constructed"]
  /\ guidToDatabaseMap' = guidToDatabaseMap \cup {h}
  /\ UNCHANGED <<files, current, connection, guidToVersionMap, found, change, disturbed>>

-----------------------------------------------------------------------------
(* performOpenAndVerify                                                    *)

\* A changeVersion is between its postflight and the end of its COMMIT, or a
\* DatabaseSync between its COMMIT and setExpectedVersion.
Committing == \E h \in Handles : change[h].stage \in {"uncommitted", "committed"}

\* The section under guidMutex ends with a version.
Find(h, version, new) ==
  /\ state' = [state EXCEPT ![h] = "verifying"]
  /\ found' = [found EXCEPT ![h] = [version |-> version, new |-> new, overtaken |-> Committing]]
  /\ connection' = [connection EXCEPT ![h] = current]

OpenFromCache(h) ==
  /\ state[h] = "constructed" /\ guidToVersionMap # "absent"
  /\ Find(h, IF guidToVersionMap = "null" THEN "empty" ELSE guidToVersionMap, FALSE)
  /\ UNCHANGED <<files, current, guidToDatabaseMap, guidToVersionMap, expected, setVersion, change,
                 disturbed>>

OpenFromFile(h) ==
  LET new     == files[current] = "noTable"
      stored  == IF new THEN "null" ELSE files[current]
      version == IF stored \in {"null", "empty"} /\ (~new \/ setVersion[h])
                 THEN expected[h] ELSE stored
  IN
  /\ state[h] = "constructed" /\ guidToVersionMap = "absent"
  /\ files' = [files EXCEPT ![current] = version]
  /\ guidToVersionMap' = Cached(version)
  /\ Find(h, IF version = "null" THEN "empty" ELSE version, new)
  /\ UNCHANGED <<current, guidToDatabaseMap, expected, setVersion, change, disturbed>>

\* Mutant: the version that was found is not compared.
VerifyAnything(h) ==
  /\ state[h] = "verifying"
  /\ state' = [state EXCEPT ![h] = "opened"]
  /\ found' = [found EXCEPT ![h] = NotFound]
  /\ UNCHANGED <<files, current, connection, guidToDatabaseMap, guidToVersionMap, expected,
                 setVersion, change, disturbed>>

\* The end of performOpenAndVerify, outside guidMutex, and the reset of
\* m_expectedVersion by openDatabase for a creation callback.
Verify(h) ==
  LET checked == ~found[h].new \/ setVersion[h] IN
  /\ state[h] = "verifying"
  /\ state' = [state EXCEPT ![h] = IF checked /\ expected[h] # "empty" /\ expected[h] # found[h].version
                                   THEN "failed" ELSE "opened"]
  /\ expected' = [expected EXCEPT ![h] = IF checked THEN @ ELSE "empty"]
  /\ found' = [found EXCEPT ![h] = NotFound]
  /\ UNCHANGED <<files, current, connection, guidToDatabaseMap, guidToVersionMap, setVersion,
                 change, disturbed>>

\* Opening the file, creating the table or using it fails.
OpenFails(h) ==
  /\ state[h] = "constructed"
  /\ state' = [state EXCEPT ![h] = "failed"]
  /\ \/ UNCHANGED files
     \/ /\ guidToVersionMap = "absent" /\ files[current] = "noTable"
        /\ files' = [files EXCEPT ![current] = "null"]
  /\ UNCHANGED <<current, connection, guidToDatabaseMap, guidToVersionMap, found, expected,
                 setVersion, change, disturbed>>

-----------------------------------------------------------------------------

\* A DatabaseSync is closed by its own thread, which is not inside changeVersion
\* then; a Database by its database thread, between two steps.
MayClose(h) ==
  /\ state[h] = "opened"
  /\ \/ change[h] = NoChange
     \/ h \notin SyncHandles /\ change[h].stage = "body"

\* Mutant: the entry goes with every handle, not with the last one.
CloseDroppingVersion(h) ==
  /\ MayClose(h)
  /\ state' = [state EXCEPT ![h] = "closed"]
  /\ guidToDatabaseMap' = guidToDatabaseMap \ {h}
  /\ guidToVersionMap' = "absent"
  /\ change' = [change EXCEPT ![h] = NoChange]
  /\ UNCHANGED <<files, current, connection, found, expected, setVersion, disturbed>>

\* closeDatabase; SQLite rolls an open transaction back.
CloseDatabase(h) ==
  /\ MayClose(h)
  /\ state' = [state EXCEPT ![h] = "closed"]
  /\ guidToDatabaseMap' = guidToDatabaseMap \ {h}
  /\ guidToVersionMap' = IF guidToDatabaseMap \ {h} = {} THEN "absent" ELSE guidToVersionMap
  /\ change' = [change EXCEPT ![h] = NoChange]
  /\ UNCHANGED <<files, current, connection, found, expected, setVersion, disturbed>>

\* The user deletes the database, once its open Databases are closed, which
\* waits for the end of their open tasks.
DeleteDatabaseFile ==
  /\ current < MaxDeletions
  /\ \A h \in Handles \ SyncHandles : state[h] \notin {"verifying", "opened"}
  /\ current' = current + 1
  /\ disturbed' = TRUE
  /\ UNCHANGED <<files, connection, guidToDatabaseMap, guidToVersionMap, state, found, expected,
                 setVersion, change>>

-----------------------------------------------------------------------------
(* changeVersion                                                           *)

\* The handle's connection has the RESERVED lock of its file.
Writing(h) == change[h].stage \in {"body", "uncommitted"}

\* BEGIN IMMEDIATE and performPreflight: the file has the oldVersion argument.
PerformPreflight(h) ==
  /\ state[h] = "opened" /\ change[h] = NoChange
  /\ \A g \in Handles : Writing(g) => connection[g] # connection[h]
  /\ File(h) \in Strings
  /\ \E version \in Strings : change' = [change EXCEPT ![h] = [stage |-> "body", version |-> version]]
  /\ disturbed' = (disturbed \/ \E g \in Handles : change[g].stage = "committed")
  /\ UNCHANGED <<files, current, connection, guidToDatabaseMap, guidToVersionMap, state, found,
                 expected, setVersion>>

\* A statement, a callback or the postflight fails: ROLLBACK.
Rollback(h) ==
  /\ change[h].stage = "body"
  /\ change' = [change EXCEPT ![h] = NoChange]
  /\ UNCHANGED <<files, current, connection, guidToDatabaseMap, guidToVersionMap, state, found,
                 expected, setVersion,
                 disturbed>>

\* setExpectedVersion.
SetExpectedVersion(h) ==
  /\ expected' = [expected EXCEPT ![h] = change[h].version]
  /\ guidToVersionMap' = Cached(change[h].version)

\* Mutant: the cache is not updated.
PerformPostflightUncached(h) ==
  /\ h \notin SyncHandles /\ change[h].stage = "body"
  /\ expected' = [expected EXCEPT ![h] = change[h].version]
  /\ change' = [change EXCEPT ![h].stage = "uncommitted"]
  /\ UNCHANGED <<files, current, connection, guidToDatabaseMap, guidToVersionMap, state, found,
                 setVersion, disturbed>>

\* ChangeVersionWrapper::performPostflight.
PerformPostflight(h) ==
  /\ h \notin SyncHandles /\ change[h].stage = "body"
  /\ SetExpectedVersion(h)
  /\ change' = [change EXCEPT ![h].stage = "uncommitted"]
  /\ UNCHANGED <<files, current, connection, guidToDatabaseMap, state, found, setVersion,
                 disturbed>>

\* COMMIT writes the version; opens that are being verified have found another.
WriteVersion(h) ==
  /\ files' = [files EXCEPT ![connection[h]] = change[h].version]
  /\ found' = [g \in Handles |-> [found[g] EXCEPT !.overtaken = state[g] = "verifying"]]

Commit(h) ==
  /\ change[h].stage = "uncommitted"
  /\ \/ WriteVersion(h) /\ UNCHANGED disturbed
     \/ CommitMayFail /\ disturbed' = TRUE /\ UNCHANGED <<files, found>>
  /\ change' = [change EXCEPT ![h] = NoChange]
  /\ UNCHANGED <<current, connection, guidToDatabaseMap, guidToVersionMap, state, expected,
                 setVersion>>

\* DatabaseSync::changeVersion commits first ...
CommitSync(h) ==
  /\ h \in SyncHandles /\ change[h].stage = "body"
  /\ \/ WriteVersion(h) /\ change' = [change EXCEPT ![h].stage = "committed"]
     \/ /\ CommitMayFail
        /\ change' = [change EXCEPT ![h] = NoChange]
        /\ UNCHANGED <<files, found>>
  /\ UNCHANGED <<current, connection, guidToDatabaseMap, guidToVersionMap, state, expected,
                 setVersion, disturbed>>

\* ... and then sets the expected version.
SetExpectedVersionSync(h) ==
  /\ change[h].stage = "committed"
  /\ SetExpectedVersion(h)
  /\ change' = [change EXCEPT ![h] = NoChange]
  /\ UNCHANGED <<files, current, connection, guidToDatabaseMap, state, found, setVersion,
                 disturbed>>

Step(h) ==
  \/ Construct(h) \/ OpenFromCache(h) \/ OpenFromFile(h) \/ OpenFails(h) \/ Verify(h) \/ CloseDatabase(h)
  \/ PerformPreflight(h) \/ Rollback(h) \/ PerformPostflight(h) \/ Commit(h)
  \/ CommitSync(h) \/ SetExpectedVersionSync(h)

Next == DeleteDatabaseFile \/ \E h \in Handles : Step(h)

Spec == Init /\ [][Next]_vars

-----------------------------------------------------------------------------
(* Properties                                                              *)

\* The maps and the handles stay well-typed: guidToVersionMap never holds the
\* empty string, which updateGuidVersionMap calls unsafe to share.
TypeOK ==
  /\ files \in [0..MaxDeletions -> {"noTable", "null"} \cup Strings]
  /\ current \in 0..MaxDeletions
  /\ connection \in [Handles -> 0..MaxDeletions]
  /\ guidToDatabaseMap \subseteq Handles
  /\ guidToVersionMap \in {"absent", "null"} \cup Versions
  /\ state \in [Handles -> {"unused", "constructed", "verifying", "opened", "closed", "failed"}]
  /\ found \in [Handles -> [version : Strings, new : BOOLEAN, overtaken : BOOLEAN]]
  /\ expected \in [Handles -> Strings]
  /\ setVersion \in [Handles -> BOOLEAN]
  /\ change \in [Handles -> [stage : {"none", "body", "uncommitted", "committed"}, version : Strings]]
  /\ disturbed \in BOOLEAN

\* An open handle has its entries in both maps, whatever handles of other
\* contexts open, fail to open or close: versionMatchesExpected finds a version
\* and the ASSERTs of closeDatabase hold.
OpenHandlesAreCached ==
  \A h \in Handles : state[h] = "opened" =>
    h \in guidToDatabaseMap /\ guidToVersionMap # "absent"

\* The version that performOpenAndVerify and versionMatchesExpected take from
\* guidToVersionMap is the one in the file, except while a changeVersion commits,
\* as long as no COMMIT failed after its postflight, the file was not deleted and
\* no changeVersion overlapped the end of a synchronous one.
CacheIsCurrent ==
  ~disturbed /\ guidToVersionMap # "absent" /\ ~Committing =>
    \/ files[current] \in {"null", "empty"} /\ guidToVersionMap = "null"
    \/ files[current] = guidToVersionMap

\* A handle that expects a version is opened only when the file has that version,
\* or a changeVersion is committing while the version is found or has committed
\* since: the comment of performOpenAndVerify, under the same exceptions.
OpenVerifiesVersion ==
  [][\A h \in Handles :
       state[h] = "verifying" /\ state'[h] = "opened" /\ expected'[h] # "empty" =>
         files'[current] = expected'[h] \/ found[h].overtaken \/ disturbed]_vars
=============================================================================
