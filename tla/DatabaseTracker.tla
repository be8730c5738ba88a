--------------------------- MODULE DatabaseTracker ---------------------------
(***************************************************************************)
(* DatabaseTracker and OriginQuotaManager for one origin: its quota, the    *)
(* tracker's table of databases with their files, the map of open handles,  *)
(* the names being created and deleted, and the cached disk usage.          *)
(*                                                                         *)
(* Handles are opened and used on any thread.  The tracker is protected by  *)
(* m_databaseGuard and m_openDatabaseMapGuard, never both, with the quota   *)
(* manager's lock inside either; a step is what happens under one of them.  *)
(* Opening a handle takes five such steps, deleting a database at least     *)
(* four, and both call out in between.  Errors of the tracker's own SQLite  *)
(* file are left out.                                                       *)
(***************************************************************************)
EXTENDS Integers, FiniteSets, FiniteSetsExt

CONSTANTS
  Handles,         \* handles at one time, each reused for another when it is closed
  SyncHandles,     \* those of DatabaseSync
  Names, NoName,
  Estimates,       \* estimated sizes that scripts pass
  Quotas,          \* quotas that the embedder sets
  Width,           \* sizes are unsigned: arithmetic modulo 2^Width
  MaxPaths,        \* bound on the databases that are created
  MaxPages,        \* bound on the pages that a transaction adds
  MaxRequests      \* bound on the calls of scripts that open, and of the embedder

ASSUME TrackerAssumption ==
  /\ NoName \notin Names
  /\ IsFiniteSet(Names) /\ IsFiniteSet(Handles) /\ SyncHandles \subseteq Handles
  /\ Width \in Nat \ {0} /\ Estimates \subseteq 0..2^Width - 1 /\ Quotas \subseteq Nat
  /\ MaxPaths \in Nat /\ MaxPages \in Nat /\ MaxRequests \in Nat

VARIABLES
  quota,           \* m_quotaMap of the origin, 0 when it is not there
  rows,            \* table Databases: the file of a name, 0 for no row
  lastPath,        \* the sequence that file names are made from
  files,           \* the sizes of the files, -1 for none
  usage,           \* OriginQuotaManager's record of the origin
  beingCreated,    \* m_beingCreated: a count for each name
  beingDeleted,    \* m_beingDeleted
  originDeleted,   \* the origin is in m_originsBeingDeleted
  openDatabases,   \* m_openDatabaseMap
  handle,          \* where each handle is
  deleter,         \* the deletion in progress
  requests,        \* number of these calls so far
  lowered,         \* history: the quota was lowered
  overcommitted,   \* history: space was counted that another handle may still fill
  forgot,          \* history: the record was dropped while a handle was being opened
  orphans,         \* history: handles that were open when their origin was deleted
  debris,          \* history: files that deletion is known to leave behind
  crashed          \* a record that is not there was used, and the process has ended

tableVars == <<rows, lastPath>>
excludeVars == <<beingCreated, beingDeleted, originDeleted>>
historyVars == <<lowered, overcommitted, forgot, orphans, debris>>
vars == <<quota, tableVars, files, usage, excludeVars, openDatabases, handle, deleter, requests, historyVars,
          crashed>>

\* path 0 is the empty path, for which SQLite opens a temporary database, or
\* stands for a file that was deleted under an open handle.
NewHandle == [state |-> "new", name |-> NoName, requirement |-> 0, path |-> 0,
              max |-> -1, pending |-> 0, deleted |-> FALSE]
\* partial (history): the record was set up for one handle, not from the table.
NoRecord == [tracked |-> FALSE, partial |-> FALSE, path |-> [n \in Names |-> -1],
             size |-> [n \in Names |-> 0], unknown |-> {}, cached |-> -1]
NoDeletion == [at |-> "idle", origin |-> FALSE, names |-> {}, name |-> NoName, path |-> 0,
               closing |-> {}]

NameOf(h) == handle[h].name
SumOf(size) == MapThenSumSet(LAMBDA n : size[n], Names)
Opening == {"asking", "established", "pathed", "registered", "constructed"}

Init ==
  /\ quota \in Quotas \cup {0}
  /\ rows = [n \in Names |-> 0] /\ lastPath = 0
  /\ files = [p \in 1..MaxPaths |-> -1]
  /\ usage = NoRecord
  /\ beingCreated = [n \in Names |-> 0] /\ beingDeleted = {} /\ originDeleted = FALSE
  /\ openDatabases = {}
  /\ handle = [h \in Handles |-> NewHandle]
  /\ deleter = NoDeletion
  /\ requests = 0
  /\ lowered = FALSE /\ overcommitted = FALSE /\ forgot = FALSE /\ orphans = {} /\ debris = {}
  /\ crashed = FALSE

-----------------------------------------------------------------------------
(* OriginUsageRecord                                                       *)

\* SQLiteFileSystem::getDatabaseFileSize.
FileSize(p) == IF p > 0 /\ files[p] # -1 THEN files[p] ELSE 0

\* Mutant: a database that is added counts as measured.
AddDatabaseAsKnown(record, n, p) == [record EXCEPT !.path[n] = p, !.size[n] = 0]

\* addDatabase: the size is not known yet.
AddDatabase(record, n, p) ==
  [record EXCEPT !.path[n] = p, !.size[n] = 0, !.unknown = @ \cup {n}, !.cached = -1]

\* removeDatabase, when the origin is tracked.
RemoveDatabase(record, n) ==
  IF record.tracked
  THEN [record EXCEPT !.path[n] = -1, !.size[n] = 0, !.unknown = @ \ {n}, !.cached = -1]
  ELSE record

\* markDatabase.  The size of a marked database is not used again: 0.
MarkDatabase(record, n) == [record EXCEPT !.unknown = @ \cup {n}, !.size[n] = 0, !.cached = -1]

\* diskUsage: stat the files that are marked, and add up.  A marked name
\* without an entry gets one, with the empty path.
DiskUsage(record) ==
  LET marked(n) == n \in record.unknown
      path == [n \in Names |-> IF marked(n) /\ record.path[n] = -1 THEN 0 ELSE record.path[n]]
      size == [n \in Names |-> IF marked(n) THEN FileSize(path[n]) ELSE record.size[n]]
  IN  IF record.cached # -1 THEN record
      ELSE [record EXCEPT !.path = path, !.size = size, !.unknown = {},
                          !.cached = SumOf(size)]

-----------------------------------------------------------------------------
(* DatabaseTracker: paths and usage                                        *)

\* A name with a proposal has no path; see fullPathForDatabaseNoLock.
Proposed(n) == \E h \in Handles : NameOf(h) = n /\ handle[h].state = "asking"
PathOf(n) == IF Proposed(n) THEN 0 ELSE rows[n]

\* usageForOriginNoLock: an origin that is not tracked is primed with the
\* databases of the table.
UsageForOriginNoLock ==
  LET listed == {n \in Names : rows[n] # 0}
      primed == [NoRecord EXCEPT !.tracked = TRUE, !.unknown = listed,
                                 !.path = [n \in Names |-> IF n \in listed THEN PathOf(n) ELSE -1]]
  IN  DiskUsage(IF usage.tracked THEN usage ELSE primed)

\* A handle that may still add to the files: it is being opened and its file
\* is not there yet, or it runs a transaction with a maximum size or has pages
\* to write.
MayGrow(h) ==
  \/ handle[h].state \in Opening /\ (handle[h].path = 0 \/ files[handle[h].path] = -1)
  \/ handle[h].max # -1 \/ handle[h].pending > 0

\* The measurement that h makes counts space that is promised elsewhere, or
\* misses what a transaction of its own has not written yet.
Overcommits(h) == (\E g \in Handles \ {h} : MayGrow(g)) \/ handle[h].pending > 0

Wrap(n) == n % 2^Width

-----------------------------------------------------------------------------
(* Opening a handle                                                        *)

Request == requests < MaxRequests /\ requests' = requests + 1

Goto(h, state) == handle' = [handle EXCEPT ![h].state = state]

DoneCreatingDatabase(n) == beingCreated' = [beingCreated EXCEPT ![n] = @ - 1]

\* Mutant: a name that is being deleted can be created.
CanCreateIgnoringDeletion(n) == ~originDeleted
CanCreateDatabase(n) == n \notin beingDeleted /\ ~originDeleted

\* canEstablishDatabase, up to the call of the client.  A database that has a
\* row is opened whatever the usage: when its file is missing, the space for
\* it was not asked for.
CanEstablishDatabase(h, n, estimate) ==
  LET record == UsageForOriginNoLock
      requirement == Wrap(record.cached + Max({1, estimate}))
      fits == requirement <= quota
      establish(state) ==
        /\ beingCreated' = [beingCreated EXCEPT ![n] = @ + 1]
        /\ handle' = [handle EXCEPT ![h].state = state, ![h].name = n,
                                    ![h].requirement = IF state = "asking" THEN requirement ELSE 0]
  IN  /\ handle[h].state = "new"
      /\ Request
      /\ IF ~CanCreateDatabase(n)
         THEN UNCHANGED <<handle, usage, beingCreated, overcommitted>>
         ELSE /\ usage' = record
              /\ overcommitted' = (overcommitted \/ Overcommits(h)
                                     \/ (rows[n] # 0 /\ files[rows[n]] = -1))
              /\ \/ (rows[n] # 0 \/ (requirement >= record.cached /\ fits)) /\ establish("established")
                 \/ rows[n] = 0 /\ requirement < record.cached /\ UNCHANGED <<handle, beingCreated>>
                 \/ rows[n] = 0 /\ requirement >= record.cached /\ ~fits /\ establish("asking")
      /\ UNCHANGED <<quota, tableVars, files, beingDeleted, originDeleted, openDatabases, deleter,
                     lowered, forgot, orphans, debris, crashed>>

\* canEstablishDatabase after the client has been asked: the requirement is
\* the one of before.
CanEstablishAfterAsking(h) ==
  /\ handle[h].state = "asking"
  /\ IF handle[h].requirement <= quota
     THEN Goto(h, "established") /\ UNCHANGED beingCreated
     ELSE handle' = [handle EXCEPT ![h] = NewHandle] /\ DoneCreatingDatabase(NameOf(h))
  /\ UNCHANGED <<quota, tableVars, files, usage, beingDeleted, originDeleted, openDatabases,
                 deleter,
                 requests, historyVars, crashed>>

\* fullPathForDatabase from the constructor: the row's path, or a new row.
FullPathForDatabase(h) ==
  LET n == NameOf(h)
      created == ~Proposed(n) /\ rows[n] = 0
  IN  /\ handle[h].state = "established"
      /\ created => lastPath < MaxPaths
      /\ lastPath' = IF created THEN lastPath + 1 ELSE lastPath
      /\ rows' = IF created THEN [rows EXCEPT ![n] = lastPath + 1] ELSE rows
      /\ usage' = IF created /\ usage.tracked THEN AddDatabase(usage, n, lastPath + 1) ELSE usage
      /\ handle' = [handle EXCEPT ![h].state = "pathed",
                                  ![h].path = IF created THEN lastPath + 1 ELSE PathOf(n)]
      /\ UNCHANGED <<quota, files, excludeVars, openDatabases, deleter, requests, historyVars,
                     crashed>>

\* addOpenDatabase: the map.  An origin that is not tracked is tracked, but
\* only with this database.
AddOpenDatabase(h) ==
  /\ handle[h].state = "pathed"
  /\ Goto(h, "registered")
  /\ openDatabases' = openDatabases \cup {h}
  /\ usage' = IF usage.tracked THEN usage
              ELSE AddDatabase([NoRecord EXCEPT !.tracked = TRUE, !.partial = TRUE],
                               NameOf(h), handle[h].path)
  /\ UNCHANGED <<quota, tableVars, files, excludeVars, deleter, requests, historyVars, crashed>>

\* The rest of addOpenDatabase: the handle no longer counts as being created,
\* although its file is opened later.
DoneCreating(h) ==
  /\ handle[h].state = "registered"
  /\ Goto(h, "constructed")
  /\ DoneCreatingDatabase(NameOf(h))
  /\ UNCHANGED <<quota, tableVars, files, usage, beingDeleted, originDeleted, openDatabases,
                 deleter,
                 requests, historyVars, crashed>>

\* removeOpenDatabase, and the end of the handle's transaction.  The origin is
\* forgotten with its last handle.  A handle that is no longer in the map is
\* ignored (ASSERT_NOT_REACHED in debug builds).
RemoveOpenDatabase(h, to) ==
  LET last == openDatabases = {h}
  IN  /\ handle' = [handle EXCEPT ![h] = to]
      /\ openDatabases' = openDatabases \ {h}
      /\ usage' = IF last THEN NoRecord ELSE usage
      /\ forgot' = (forgot \/ (last /\ \E g \in Handles \ {h} :
                                         handle[g].state \in {"asking", "established", "pathed"}))
      /\ orphans' = orphans \ {h}

\* performOpenAndVerify opens the file, and creates it with its version table.
OpenedFiles(h) ==
  LET p == handle[h].path
  IN  IF p # 0 /\ files[p] = -1 THEN [files EXCEPT ![p] = 1] ELSE files

OpenFile(h) ==
  /\ handle[h].state = "constructed"
  /\ files' = OpenedFiles(h)
  /\ Goto(h, "open")
  /\ UNCHANGED <<quota, tableVars, usage, excludeVars, openDatabases, deleter, requests,
                 historyVars, crashed>>

\* performOpenAndVerify fails: the file cannot be opened, or it has another version.
OpenFails(h) ==
  /\ handle[h].state = "constructed"
  /\ files' \in {files, OpenedFiles(h)}
  /\ RemoveOpenDatabase(h, NewHandle)
  /\ UNCHANGED <<quota, tableVars, excludeVars, deleter, requests, lowered, overcommitted, debris,
                 crashed>>

-----------------------------------------------------------------------------
(* Using a handle                                                          *)

\* Mutant: the maximum size leaves out what the origin uses.
MaxSizeOfQuota(h) == Wrap(quota + FileSize(handle[h].path))

\* The sum of getMaxSizeForDatabase.
MaxSize(h) == Wrap(quota - DiskUsage(usage).cached + FileSize(handle[h].path))

\* The record of an origin that is not tracked: ASSERT(usageRecord), and a
\* null pointer.
UsesNullRecord ==
  /\ crashed' = TRUE
  /\ UNCHANGED <<quota, tableVars, files, usage, excludeVars, openDatabases, handle, deleter,
                 requests, historyVars>>

\* getMaxSizeForDatabase, when a transaction begins and when it retries a
\* statement that went over the quota.
GetMaxSizeForDatabase(h) ==
  /\ handle[h].state = "open" /\ ~handle[h].deleted
  /\ \/ ~usage.tracked /\ UsesNullRecord
     \/ /\ usage.tracked
        /\ handle' = [handle EXCEPT ![h].max = MaxSize(h)]
        /\ usage' = DiskUsage(usage)
        /\ overcommitted' = (overcommitted \/ Overcommits(h))
        /\ UNCHANGED <<quota, tableVars, files, excludeVars, openDatabases, deleter,
                       requests, lowered, forgot, orphans, debris, crashed>>

\* A statement needs a new page; didExecuteStatement marks the database.  The
\* page is in SQLite's cache until the transaction commits.
ExecuteStatement(h) ==
  /\ handle[h].state = "open" /\ handle[h].max # -1
  /\ FileSize(handle[h].path) + handle[h].pending < handle[h].max
  /\ handle[h].pending < MaxPages
  /\ \/ ~usage.tracked /\ UsesNullRecord
     \/ /\ usage.tracked
        /\ handle' = [handle EXCEPT ![h].pending = @ + 1]
        /\ usage' = MarkDatabase(usage, NameOf(h))
        /\ UNCHANGED <<quota, tableVars, files, excludeVars, openDatabases, deleter, requests,
                       historyVars, crashed>>

\* The transaction commits, or rolls back.
EndTransaction(h) ==
  LET p == handle[h].path
  IN  /\ handle[h].max # -1
      /\ files' \in {files} \cup {[files EXCEPT ![p] = @ + handle[h].pending] :
                                    x \in IF p # 0 /\ files[p] # -1 THEN {1} ELSE {}}
      /\ handle' = [handle EXCEPT ![h].max = -1, ![h].pending = 0]
      /\ UNCHANGED <<quota, tableVars, usage, excludeVars, openDatabases, deleter, requests,
                     historyVars, crashed>>

\* The handle is closed by its owner.
Close(h) ==
  /\ handle[h].state = "open"
  /\ RemoveOpenDatabase(h, NewHandle)
  /\ UNCHANGED <<quota, tableVars, files, excludeVars, deleter, requests, lowered, overcommitted,
                 debris, crashed>>

-----------------------------------------------------------------------------
(* The embedder                                                            *)

\* setQuota.
SetQuota(q) ==
  /\ Request
  /\ q # quota
  /\ quota' = q
  /\ lowered' = (lowered \/ q < quota)
  /\ UNCHANGED <<tableVars, files, usage, excludeVars, openDatabases, handle, deleter,
                 overcommitted, forgot, orphans, debris, crashed>>

\* usageForOrigin.
UsageForOrigin ==
  /\ Request
  /\ usage' = UsageForOriginNoLock
  /\ overcommitted' = (overcommitted \/ \E h \in Handles : MayGrow(h))
  /\ UNCHANGED <<quota, tableVars, files, excludeVars, openDatabases, handle, deleter,
                 lowered, forgot, orphans, debris, crashed>>

\* deleteDatabase: the first section, which refuses a name that is being created.
DeleteDatabase(n) ==
  /\ deleter.at = "idle"
  /\ Request
  /\ beingCreated[n] = 0 /\ n \notin beingDeleted
  /\ beingDeleted' = beingDeleted \cup {n}
  /\ deleter' = [NoDeletion EXCEPT !.at = "lookup", !.names = {n}]
  /\ UNCHANGED <<quota, tableVars, files, usage, beingCreated, originDeleted, openDatabases, handle,
                 historyVars, crashed>>

\* deleteOrigin: the first section.
DeleteOrigin ==
  /\ deleter.at = "idle"
  /\ Request
  /\ ~originDeleted /\ \A n \in Names : beingCreated[n] = 0
  /\ originDeleted' = TRUE
  /\ deleter' = [NoDeletion EXCEPT !.at = "lookup", !.origin = TRUE,
                                   !.names = {n \in Names : rows[n] # 0}]
  /\ UNCHANGED <<quota, tableVars, files, usage, beingCreated, beingDeleted, openDatabases, handle,
                 historyVars, crashed>>

\* deleteDatabaseFile: the path of the next name.  The files that handles may
\* write to after all of the deletion are noted: a DatabaseSync is not closed,
\* and a handle that is not open yet may be opened after it was closed.
LookUpPath(n) ==
  LET p == PathOf(n)
      escapes(h) == handle[h].path = p /\ (h \in SyncHandles \/ handle[h].state = "constructed")
  IN  /\ deleter.at = "lookup" /\ n \in deleter.names
      /\ deleter' = [deleter EXCEPT !.names = @ \ {n}, !.name = n, !.path = p,
                                    !.at = IF p = 0 THEN "lookup" ELSE "collect"]
      /\ debris' = IF p # 0 /\ (\E h \in Handles : escapes(h))
                   THEN debris \cup {p} ELSE debris
      /\ UNCHANGED <<quota, tableVars, files, usage, excludeVars, openDatabases, handle,
                     requests, lowered, overcommitted, forgot, orphans, crashed>>

\* deleteDatabaseFile: the handles that are open with the name.
CollectHandles ==
  /\ deleter.at = "collect"
  /\ deleter' = [deleter EXCEPT !.at = "close",
                                !.closing = {h \in openDatabases : NameOf(h) = deleter.name}]
  /\ UNCHANGED <<quota, tableVars, files, usage, excludeVars, openDatabases, handle, requests,
                 historyVars, crashed>>

\* markAsDeletedAndClose for one of them, and the wait for the close task.  A
\* DatabaseSync does nothing, and nothing is left to do for a handle that was
\* closed meanwhile.  A handle whose open task has not run yet is
\* unregistered all the same; its open task may still come.
MarkAsDeletedAndClose(h) ==
  /\ deleter.at = "close" /\ h \in deleter.closing
  /\ deleter' = [deleter EXCEPT !.closing = @ \ {h}]
  /\ IF h \in SyncHandles \/ handle[h].deleted \/ NameOf(h) # deleter.name
     THEN UNCHANGED <<usage, openDatabases, handle, forgot, orphans>>
     ELSE RemoveOpenDatabase(h, IF handle[h].state = "constructed"
                                THEN [handle[h] EXCEPT !.deleted = TRUE]
                                ELSE NewHandle)
  /\ UNCHANGED <<quota, tableVars, files, excludeVars, requests, lowered, overcommitted, debris,
                 crashed>>

\* The file is deleted, if the system allows it; a handle that still has it
\* open goes on with a file that has no name.  deleteDatabase gives up on a
\* failure and keeps the row; deleteOrigin goes on with the next name.
DeleteFile ==
  /\ deleter.at = "close" /\ deleter.closing = {}
  /\ \/ /\ files' = [files EXCEPT ![deleter.path] = -1]
        /\ handle' = [h \in Handles |-> IF handle[h].state = "open" /\ handle[h].path = deleter.path
                                        THEN [handle[h] EXCEPT !.path = 0] ELSE handle[h]]
        /\ deleter' = [deleter EXCEPT !.at = "lookup"]
        /\ UNCHANGED <<beingDeleted, debris>>
     \/ /\ deleter.origin
        /\ deleter' = [deleter EXCEPT !.at = "lookup"]
        /\ debris' = debris \cup {deleter.path}
        /\ UNCHANGED <<files, handle, beingDeleted>>
     \/ /\ ~deleter.origin
        /\ deleter' = NoDeletion
        /\ beingDeleted' = {}
        /\ UNCHANGED <<files, handle, debris>>
  /\ UNCHANGED <<quota, tableVars, usage, beingCreated, originDeleted, openDatabases,
                 requests, lowered, overcommitted, forgot, orphans, crashed>>

\* The last section of deleteDatabase.
DoneDeletingDatabase ==
  /\ deleter.at = "lookup" /\ deleter.names = {} /\ ~deleter.origin
  /\ rows' = [n \in Names |-> IF n \in beingDeleted THEN 0 ELSE rows[n]]
  /\ \E n \in beingDeleted : usage' = RemoveDatabase(usage, n)
  /\ beingDeleted' = {}
  /\ deleter' = NoDeletion
  /\ UNCHANGED <<quota, lastPath, files, beingCreated, originDeleted, openDatabases, handle,
                 requests, historyVars, crashed>>

\* The last section of deleteOrigin.  A DatabaseSync may still be open, and has
\* lost its record.  Other origins are there: with the last one the tracker's
\* database would go, and its sequence with it.
DoneDeletingOrigin ==
  /\ deleter.at = "lookup" /\ deleter.names = {} /\ deleter.origin
  /\ originDeleted' = FALSE
  /\ rows' = [n \in Names |-> 0]
  /\ quota' = 0
  /\ usage' = NoRecord
  /\ orphans' = openDatabases
  /\ deleter' = NoDeletion
  /\ UNCHANGED <<lastPath, files, beingCreated, beingDeleted, openDatabases, handle, requests,
                 lowered, overcommitted, forgot, debris, crashed>>

-----------------------------------------------------------------------------
OpenHandle(h) ==
  \/ \E n \in Names, e \in Estimates : CanEstablishDatabase(h, n, e)
  \/ CanEstablishAfterAsking(h) \/ FullPathForDatabase(h)
  \/ AddOpenDatabase(h) \/ DoneCreating(h)
  \/ OpenFile(h) \/ OpenFails(h)

UseHandle(h) ==
  \/ GetMaxSizeForDatabase(h) \/ ExecuteStatement(h) \/ EndTransaction(h) \/ Close(h)

Delete ==
  \/ \E n \in Names : DeleteDatabase(n) \/ LookUpPath(n)
  \/ DeleteOrigin \/ CollectHandles \/ DeleteFile
  \/ \E h \in Handles : MarkAsDeletedAndClose(h)
  \/ DoneDeletingDatabase \/ DoneDeletingOrigin

Next ==
  /\ ~crashed
  /\ \/ \E h \in Handles : OpenHandle(h) \/ UseHandle(h)
     \/ \E q \in Quotas : SetQuota(q)
     \/ UsageForOrigin
     \/ Delete

Spec == Init /\ [][Next]_vars

-----------------------------------------------------------------------------
(* Properties                                                              *)

TypeOK ==
  /\ quota \in Nat /\ lastPath \in 0..MaxPaths
  /\ rows \in [Names -> 0..MaxPaths]
  /\ files \in [1..MaxPaths -> Nat \cup {-1}]
  /\ usage.tracked \in BOOLEAN /\ usage.partial \in BOOLEAN /\ usage.unknown \subseteq Names
  /\ usage.path \in [Names -> -1..MaxPaths] /\ usage.size \in [Names -> Nat]
  /\ beingCreated \in [Names -> Nat] /\ beingDeleted \subseteq Names /\ originDeleted \in BOOLEAN
  /\ openDatabases \subseteq Handles
  /\ \A h \in Handles : /\ handle[h].state \in Opening \cup {"new", "open"}
                        /\ handle[h].name \in Names \cup {NoName}
                        /\ handle[h].path \in 0..MaxPaths /\ handle[h].pending \in Nat
                        /\ handle[h].deleted \in BOOLEAN
  /\ deleter \in [at: {"idle", "lookup", "collect", "close"}, origin: BOOLEAN, names: SUBSET Names,
                  name: Names \cup {NoName}, path: 0..MaxPaths, closing: SUBSET Handles]

\* The handles that count as being created with a name.
Creating(n) == {h \in Handles : NameOf(h) = n /\ handle[h].state \in Opening \ {"constructed"}}

\* Creation and deletion of a database exclude each other: m_beingCreated
\* counts the handles between canEstablishDatabase and the end of
\* addOpenDatabase, and none of them has a name that is being deleted.
CreationExcludesDeletion ==
  /\ \A n \in Names : beingCreated[n] = Cardinality(Creating(n))
  /\ \A n \in Names : beingCreated[n] > 0 => n \notin beingDeleted /\ ~originDeleted

\* A database that is proposed to the client has no row, so that the paths of
\* the rows can always be found; see fullPathForDatabaseNoLock.
ProposalsHaveNoRow == \A n \in Names : Proposed(n) => rows[n] = 0

\* No untracked files: a file without a row is one that the system would not
\* delete, or that a handle kept writing to.  The comment of canCreateDatabase.
NoDebris ==
  \A p \in 1..MaxPaths : files[p] # -1 => p \in debris \/ \E n \in Names : rows[n] = p

\* The tracker's table, files and lists of creations and deletions fit together.
TrackerInvariant == TypeOK /\ CreationExcludesDeletion /\ ProposalsHaveNoRow /\ NoDebris

BeingDeleted(n) == originDeleted \/ n \in beingDeleted

\* The usage record is there for every open handle, lists the databases of the
\* table with their paths, has the size of each file that it does not mark as
\* unknown, and caches a sum of known sizes.  The exceptions are what the code
\* lets happen: deleteOrigin drops the record of handles that it does not close
\* (orphans), and only one of those uses a null record; addOpenDatabase sets up
\* a partial record, which lists one database; a size is taken while a handle
\* may still make the file grow (overcommitted).
UsageComplete ==
  /\ \A h \in openDatabases : usage.tracked \/ h \in orphans
  /\ crashed => ~usage.tracked /\ orphans # {}
  /\ usage.tracked /\ ~usage.partial =>
       \A n \in Names : rows[n] # 0 =>
         /\ usage.path[n] = rows[n]
         /\ \/ n \in usage.unknown \/ usage.size[n] = FileSize(rows[n])
            \/ BeingDeleted(n) \/ overcommitted
  /\ usage.cached # -1 => usage.unknown = {} /\ usage.cached = SumOf(usage.size)

\* The origin stays within its quota, and so the unsigned difference of
\* getMaxSizeForDatabase does not wrap: when the quota is never lowered, no
\* record is dropped and no two handles are promised the same space.
QuotaKept ==
  ~lowered /\ ~overcommitted /\ ~forgot =>
    /\ SumOf([n \in Names |-> FileSize(rows[n])]) <= quota
    /\ \A h \in Handles : handle[h].path # 0 /\ rows[NameOf(h)] = handle[h].path => handle[h].max <= quota
=============================================================================
