------------------------ MODULE DatabaseTrackerProofs ------------------------
(***************************************************************************)
(* Proofs about DatabaseTracker, for any number of handles, databases,      *)
(* paths, pages and requests.                                               *)
(***************************************************************************)
EXTENDS DatabaseTracker, FiniteSetTheorems, WellFoundedInduction, TLAPS

-----------------------------------------------------------------------------
(* The inductive invariant.                                                *)

\* The records have their fields.  Of a requirement, a maximum size and a
\* cached sum nothing is said here: they come from sums over Names, and are
\* numbers while the premise of QuotaKept holds; see Numbers.
HandleShape(h) ==
  handle[h] \in [state: Opening \cup {"new", "open"}, name: Names \cup {NoName},
                 requirement: {handle[h].requirement}, path: 0..MaxPaths,
                 max: {handle[h].max}, pending: Nat, deleted: BOOLEAN]

HandlesOK ==
  /\ DOMAIN handle = Handles /\ handle = [h \in Handles |-> handle[h]]
  /\ \A h \in Handles : HandleShape(h)

UsageOK ==
  usage \in [tracked: BOOLEAN, partial: BOOLEAN, path: [Names -> -1..MaxPaths], size: [Names -> Nat],
             unknown: SUBSET Names, cached: {usage.cached}]

TablesOK ==
  /\ quota \in Nat /\ lastPath \in 0..MaxPaths
  /\ rows \in [Names -> 0..MaxPaths]
  /\ files \in [1..MaxPaths -> Nat \cup {-1}]
  /\ openDatabases \subseteq Handles

ExcludeOK == beingCreated \in [Names -> Nat] /\ beingDeleted \subseteq Names /\ originDeleted \in BOOLEAN

DeleterOK ==
  deleter \in [at: {"idle", "lookup", "collect", "close"}, origin: BOOLEAN, names: SUBSET Names,
               name: Names \cup {NoName}, path: 0..MaxPaths, closing: SUBSET Handles]

Shapes == HandlesOK /\ UsageOK /\ TablesOK /\ ExcludeOK /\ DeleterOK

\* A file name is given to one row only, and never again.
RowsDiffer ==
  /\ \A n \in Names : rows[n] <= lastPath
  /\ \A m, n \in Names : rows[m] = rows[n] /\ rows[n] # 0 => m = n

\* What a handle has in each of its states.  The path of a handle is the one
\* of the row with its name, unless deletion is known to have left the file.
HandleConsistent(h) ==
  LET n == NameOf(h)
      p == handle[h].path
  IN  /\ handle[h].state = "new" => n = NoName /\ p = 0
      /\ handle[h].state # "new" => n \in Names
      /\ handle[h].state \in {"asking", "established"} => p = 0
      /\ p # 0 => /\ p <= lastPath
                  /\ p \in debris \/ rows[n] = p
                  /\ \A m \in Names : rows[m] = p => m = n
      /\ h \in openDatabases <=> /\ handle[h].state \in {"registered", "constructed", "open"}
                                 /\ ~handle[h].deleted
      /\ handle[h].deleted => /\ handle[h].state \in {"constructed", "open"}
                              /\ p = 0 \/ p \in debris
      /\ handle[h].max # -1 \/ handle[h].pending > 0 => handle[h].state = "open" /\ ~handle[h].deleted

HandlesConsistent == \A h \in Handles : HandleConsistent(h)

\* What is being deleted at each point of a deletion.
DeletionNoted ==
  /\ deleter.at = "idle" => beingDeleted = {} /\ ~originDeleted
  /\ deleter.at # "idle" =>
       \/ deleter.origin /\ originDeleted /\ beingDeleted = {}
       \/ /\ ~deleter.origin /\ ~originDeleted
          /\ \E n \in Names : /\ beingDeleted = {n} /\ deleter.names \subseteq {n}
                              /\ deleter.at # "lookup" => deleter.name = n

\* The file being deleted is that of a row, and only handles that will be
\* closed still use it, unless it is known that it may be left behind.
FileBeingDeleted ==
  deleter.at \in {"collect", "close"} =>
    /\ deleter.name \in Names \ deleter.names /\ BeingDeleted(deleter.name)
    /\ deleter.path # 0 /\ deleter.path = rows[deleter.name]
    /\ \/ deleter.path \in debris
       \/ \A h \in Handles :
            handle[h].path = deleter.path =>
              /\ handle[h].state = "open" /\ h \notin SyncHandles
              /\ deleter.at = "close" => h \in deleter.closing

\* The deletion is through with a name, but for its row.
Processed(n) ==
  /\ deleter.at # "idle" /\ BeingDeleted(n) /\ n \notin deleter.names
  /\ deleter.at # "lookup" => n # deleter.name

FilesDeleted ==
  \A n \in Names : Processed(n) =>
    \/ rows[n] = 0 \/ rows[n] \in debris
    \/ files[rows[n]] = -1 /\ \A h \in Handles : handle[h].path # rows[n]

\* A cached sum is the sum of known sizes.
CachedIsSum == usage.cached # -1 => usage.unknown = {} /\ usage.cached = SumOf(usage.size)

\* While no record is dropped under a handle that is being opened, the origin
\* is tracked for the handles being opened and open, from the table.
OriginTracked ==
  ~forgot =>
    /\ ~usage.partial
    /\ \A h \in Handles :
         \/ handle[h].state \in {"asking", "established", "pathed"}
         \/ h \in openDatabases /\ handle[h].path # 0 /\ rows[NameOf(h)] = handle[h].path
         => usage.tracked

\* The record has the paths of the table, and the sizes that it has are right.
RowsRecorded ==
  ~usage.partial /\ usage.tracked =>
    \A n \in Names : rows[n] # 0 =>
      /\ usage.path[n] = rows[n]
      /\ \/ n \in usage.unknown \/ usage.size[n] = FileSize(rows[n])
         \/ Processed(n) \/ overcommitted

\* The size of a file that can still grow is marked as unknown.
WillGrow(h) ==
  LET n == NameOf(h)
  IN  /\ rows[n] # 0
      /\ \/ handle[h].state \in Opening /\ handle[h].path \in {0, rows[n]} /\ files[rows[n]] = -1
         \/ handle[h].path = rows[n] /\ handle[h].pending > 0

GrowingUnknown ==
  ~usage.partial /\ usage.tracked /\ ~overcommitted =>
    \A h \in Handles : NameOf(h) \in Names /\ WillGrow(h) =>
      NameOf(h) \in usage.unknown \/ Processed(NameOf(h))

IInv ==
  /\ Shapes /\ RowsDiffer /\ HandlesConsistent /\ CreationExcludesDeletion /\ ProposalsHaveNoRow
  /\ DeletionNoted /\ FileBeingDeleted /\ FilesDeleted /\ NoDebris
  /\ CachedIsSum /\ OriginTracked /\ RowsRecorded /\ GrowingUnknown

-----------------------------------------------------------------------------
(* Lemmas                                                                  *)

\* A handle is changed, and no other.
LEMMA SetHandle ==
  ASSUME HandlesOK, NEW h \in Handles, NEW r,
         r \in [state: Opening \cup {"new", "open"}, name: Names \cup {NoName},
                requirement: {r.requirement}, path: 0..MaxPaths,
                max: {r.max}, pending: Nat, deleted: BOOLEAN],
         handle' = [handle EXCEPT ![h] = r]
  PROVE  /\ HandlesOK' /\ handle'[h] = r
         /\ \A g \in Handles : g # h => handle'[g] = handle[g]
<1>1. /\ handle'[h] = r
      /\ \A g \in Handles : g # h => handle'[g] = handle[g]
      /\ DOMAIN handle' = Handles /\ handle' = [g \in Handles |-> handle'[g]]
  BY DEF HandlesOK
<1>2. ASSUME NEW g \in Handles  PROVE HandleShape(g)'
  <2>1. CASE g = h
    BY <1>1, <2>1 DEF HandleShape
  <2>2. CASE g # h
    BY <1>1, <2>2 DEF HandlesOK, HandleShape
  <2> QED BY <2>1, <2>2
<1> QED BY <1>1, <1>2 DEF HandlesOK

\* The handles being created can be counted.
LEMMA CreatingFinite ==
  ASSUME NEW n
  PROVE  IsFiniteSet(Creating(n)) /\ Cardinality(Creating(n)) \in Nat
<1>1. Creating(n) \in SUBSET Handles
  BY DEF Creating
<1>2. IsFiniteSet(Creating(n))
  BY <1>1, FS_Subset, TrackerAssumption
<1> QED BY <1>2, FS_CardinalityType

\* A handle that is being created excludes the deletion of its name.
LEMMA NotDeleted ==
  ASSUME IInv, NEW h \in Handles, handle[h].state \in Opening \ {"constructed"}
  PROVE  /\ NameOf(h) \in Names /\ beingCreated[NameOf(h)] > 0
         /\ ~BeingDeleted(NameOf(h)) /\ ~Processed(NameOf(h))
<1>1. NameOf(h) \in Names
  BY DEF IInv, HandlesConsistent, HandleConsistent, Opening
<1>2. h \in Creating(NameOf(h))
  BY DEF Creating
<1>3. Cardinality(Creating(NameOf(h))) > 0
  BY <1>2, CreatingFinite, FS_EmptySet
<1>4. beingCreated[NameOf(h)] > 0
  BY <1>1, <1>3 DEF IInv, CreationExcludesDeletion
<1> QED BY <1>1, <1>4 DEF IInv, CreationExcludesDeletion, BeingDeleted, Processed
\* A step that changes at most the number of requests.
LEMMA Stutter ==
  ASSUME IInv, UNCHANGED <<quota, tableVars, files, usage, excludeVars, openDatabases, handle,
                           deleter, historyVars>>
  PROVE  IInv'
<1> USE DEF IInv, Shapes
<1>u. UNCHANGED <<quota, rows, lastPath, files, usage, beingCreated, beingDeleted, originDeleted,
                  openDatabases, handle, deleter, lowered, overcommitted, forgot, debris>>
  BY DEF tableVars, excludeVars, historyVars
<1>1. Shapes'
  <2>1. HandlesOK'
    BY <1>u DEF HandlesOK, HandleShape
  <2>2. UsageOK'
    BY <1>u DEF UsageOK
  <2>3. TablesOK'
    BY <1>u DEF TablesOK
  <2>4. ExcludeOK'
    BY <1>u DEF ExcludeOK
  <2>5. DeleterOK'
    BY <1>u DEF DeleterOK
  <2> QED BY <2>1, <2>2, <2>3, <2>4, <2>5
<1>2. RowsDiffer'
  BY <1>u DEF RowsDiffer
<1>3. HandlesConsistent'
  BY <1>u DEF HandlesConsistent, HandleConsistent, NameOf
<1>4. CreationExcludesDeletion'
  BY <1>u DEF CreationExcludesDeletion, Creating, NameOf
<1>5. ProposalsHaveNoRow'
  BY <1>u DEF ProposalsHaveNoRow, Proposed, NameOf
<1>6. DeletionNoted'
  BY <1>u DEF DeletionNoted
<1>7. FileBeingDeleted'
  BY <1>u DEF FileBeingDeleted, BeingDeleted
<1>8. FilesDeleted'
  BY <1>u DEF FilesDeleted, Processed, BeingDeleted
<1>9. NoDebris'
  BY <1>u DEF NoDebris
<1>10. CachedIsSum'
  BY <1>u DEF CachedIsSum
<1>11. OriginTracked'
  BY <1>u DEF OriginTracked, NameOf
<1>12. RowsRecorded'
  BY <1>u DEF RowsRecorded, FileSize, Processed, BeingDeleted
<1>13. GrowingUnknown'
  BY <1>u DEF GrowingUnknown, WillGrow, NameOf, Processed, BeingDeleted
<1> QED BY <1>1, <1>2, <1>3, <1>4, <1>5, <1>6, <1>7, <1>8, <1>9, <1>10, <1>11, <1>12, <1>13

\* A measurement leaves no size unknown, and a record of all rows.
LEMMA DiskUsageResult ==
  ASSUME IInv, NEW record, record.tracked,
         record \in [tracked: BOOLEAN, partial: BOOLEAN, path: [Names -> -1..MaxPaths], size: [Names -> Nat],
                     unknown: SUBSET Names, cached: {record.cached}],
         record.cached # -1 => record.unknown = {} /\ record.cached = SumOf(record.size)
  PROVE  LET r == DiskUsage(record)
         IN  /\ r \in [tracked: BOOLEAN, partial: BOOLEAN, path: [Names -> -1..MaxPaths], size: [Names -> Nat],
                       unknown: SUBSET Names, cached: {r.cached}]
             /\ r.tracked /\ r.partial = record.partial /\ r.unknown = {}
             /\ r.cached # -1 => r.cached = SumOf(r.size)
             /\ \A n \in Names : record.path[n] > 0 =>
                  /\ r.path[n] = record.path[n]
                  /\ r.size[n] = IF n \in record.unknown THEN FileSize(record.path[n]) ELSE record.size[n]
<1> DEFINE path == [n \in Names |-> IF n \in record.unknown /\ record.path[n] = -1 THEN 0
                                    ELSE record.path[n]]
           size == [n \in Names |-> IF n \in record.unknown THEN FileSize(path[n]) ELSE record.size[n]]
           r == [record EXCEPT !.path = path, !.size = size, !.unknown = {}, !.cached = SumOf(size)]
<1>1. CASE record.cached # -1
  BY <1>1 DEF DiskUsage
<1>2. CASE record.cached = -1
  <2>1. DiskUsage(record) = r
    BY <1>2 DEF DiskUsage
  <2>2. path \in [Names -> -1..MaxPaths]
    BY TrackerAssumption
  <2>3. \A n \in Names : FileSize(path[n]) \in Nat
    BY <2>2, TrackerAssumption DEF FileSize, IInv, Shapes, TablesOK
  <2>4. size \in [Names -> Nat]
    BY <2>3
  <2>5. \A n \in Names : record.path[n] > 0 =>
          /\ path[n] = record.path[n]
          /\ size[n] = IF n \in record.unknown THEN FileSize(record.path[n]) ELSE record.size[n]
    OBVIOUS
  <2> HIDE DEF path, size
  <2>6. /\ r.path = path /\ r.size = size /\ r.unknown = {} /\ r.cached = SumOf(size)
        /\ r.tracked = record.tracked /\ r.partial = record.partial
    OBVIOUS
  <2>7. r \in [tracked: BOOLEAN, partial: BOOLEAN, path: [Names -> -1..MaxPaths], size: [Names -> Nat],
               unknown: SUBSET Names, cached: {r.cached}]
    BY <2>2, <2>4, <2>6
  <2> HIDE DEF r
  <2> QED BY <2>1, <2>2, <2>4, <2>5, <2>6, <2>7
<1> QED BY <1>1, <1>2

\* usageForOriginNoLock makes a record of all rows, and their sizes are right
\* if those of the old record were.
LEMMA UsageResult ==
  ASSUME IInv
  PROVE  LET r == UsageForOriginNoLock
         IN  /\ r \in [tracked: BOOLEAN, partial: BOOLEAN, path: [Names -> -1..MaxPaths], size: [Names -> Nat],
                       unknown: SUBSET Names, cached: {r.cached}]
             /\ r.tracked /\ (r.partial <=> usage.tracked /\ usage.partial) /\ r.unknown = {}
             /\ r.cached # -1 => r.cached = SumOf(r.size)
             /\ ~r.partial => \A n \in Names : rows[n] # 0 =>
                  /\ r.path[n] = rows[n]
                  /\ r.size[n] = FileSize(rows[n]) \/ Processed(n) \/ overcommitted
<1>r. rows \in [Names -> 0..MaxPaths] /\ MaxPaths \in Nat
  BY TrackerAssumption DEF IInv, Shapes, TablesOK
<1>1. CASE usage.tracked
  <2>1. UsageForOriginNoLock = DiskUsage(usage)
    BY <1>1 DEF UsageForOriginNoLock
  <2>2. /\ usage \in [tracked: BOOLEAN, partial: BOOLEAN, path: [Names -> -1..MaxPaths], size: [Names -> Nat],
                      unknown: SUBSET Names, cached: {usage.cached}]
        /\ usage.cached # -1 => usage.unknown = {} /\ usage.cached = SumOf(usage.size)
    BY DEF IInv, Shapes, UsageOK, CachedIsSum
  <2>3. ~usage.partial => \A n \in Names : rows[n] # 0 =>
          /\ usage.path[n] = rows[n] /\ usage.path[n] > 0
          /\ n \in usage.unknown \/ usage.size[n] = FileSize(rows[n]) \/ Processed(n) \/ overcommitted
    BY <1>1, <1>r DEF IInv, RowsRecorded
  <2> DEFINE r == DiskUsage(usage)
  <2>4. /\ r \in [tracked: BOOLEAN, partial: BOOLEAN, path: [Names -> -1..MaxPaths], size: [Names -> Nat],
                  unknown: SUBSET Names, cached: {r.cached}]
        /\ r.tracked /\ r.partial = usage.partial /\ r.unknown = {}
        /\ r.cached # -1 => r.cached = SumOf(r.size)
        /\ \A n \in Names : usage.path[n] > 0 =>
             /\ r.path[n] = usage.path[n]
             /\ r.size[n] = IF n \in usage.unknown THEN FileSize(usage.path[n]) ELSE usage.size[n]
    BY <1>1, <2>2, DiskUsageResult
  <2> HIDE DEF r
  <2> QED BY <1>1, <2>1, <2>3, <2>4 DEF r
<1>2. CASE ~usage.tracked
  <2> DEFINE listed == {n \in Names : rows[n] # 0}
             path == [n \in Names |-> IF n \in listed THEN PathOf(n) ELSE -1]
             primed == [NoRecord EXCEPT !.tracked = TRUE, !.unknown = listed, !.path = path]
             r == DiskUsage(primed)
  <2>1. UsageForOriginNoLock = r
    BY <1>2 DEF UsageForOriginNoLock
  <2>2. \A n \in listed : PathOf(n) = rows[n] /\ rows[n] > 0
    BY <1>r DEF IInv, ProposalsHaveNoRow, PathOf
  <2>3. path \in [Names -> -1..MaxPaths] /\ \A n \in listed : path[n] = rows[n] /\ path[n] > 0
    BY <2>2, <1>r
  <2>4. listed \subseteq Names
    OBVIOUS
  <2> HIDE DEF path, listed
  <2>5. /\ primed.tracked /\ ~primed.partial /\ primed.unknown = listed /\ primed.path = path /\ primed.cached = -1
        /\ primed.size = [n \in Names |-> 0]
    BY DEF NoRecord
  <2>6. primed \in [tracked: BOOLEAN, partial: BOOLEAN, path: [Names -> -1..MaxPaths], size: [Names -> Nat],
                    unknown: SUBSET Names, cached: {primed.cached}]
    BY <2>3, <2>4, <2>5 DEF NoRecord
  <2> HIDE DEF primed
  <2>7. /\ r \in [tracked: BOOLEAN, partial: BOOLEAN, path: [Names -> -1..MaxPaths], size: [Names -> Nat],
                  unknown: SUBSET Names, cached: {r.cached}]
        /\ r.tracked /\ r.partial = primed.partial /\ r.unknown = {}
        /\ r.cached # -1 => r.cached = SumOf(r.size)
        /\ \A n \in Names : primed.path[n] > 0 =>
             /\ r.path[n] = primed.path[n]
             /\ r.size[n] = IF n \in primed.unknown THEN FileSize(primed.path[n]) ELSE primed.size[n]
    BY <2>5, <2>6, DiskUsageResult
  <2> HIDE DEF r
  <2>8. \A n \in Names : rows[n] # 0 => r.path[n] = rows[n] /\ r.size[n] = FileSize(rows[n])
    BY <2>3, <2>5, <2>7 DEF listed
  <2> QED BY <1>2, <2>1, <2>5, <2>7, <2>8
<1> QED BY <1>1, <1>2 DEF IInv, Shapes, UsageOK

\* A step that gives no handle a path, and closes no handle but by forgetting
\* its path, does not disturb the deletion of a file.
LEMMA FileBeingDeletedKept ==
  ASSUME FileBeingDeleted, UNCHANGED <<rows, deleter, beingDeleted, originDeleted, debris>>,
         \A g \in Handles : handle'[g].path # 0 =>
           /\ handle'[g].path = handle[g].path
           /\ handle[g].state = "open" => handle'[g].state = "open"
  PROVE  FileBeingDeleted'
<1> SUFFICES ASSUME deleter.at \in {"collect", "close"}, deleter.path \notin debris
             PROVE  \A g \in Handles : handle'[g].path = deleter.path =>
                      /\ handle'[g].state = "open" /\ g \notin SyncHandles
                      /\ deleter.at = "close" => g \in deleter.closing
  BY DEF FileBeingDeleted, BeingDeleted
<1> QED BY DEF FileBeingDeleted

\* A handle that will grow a row's file may grow.
LEMMA WillMayGrow ==
  ASSUME IInv, NEW h \in Handles, WillGrow(h)
  PROVE  MayGrow(h)
BY DEF WillGrow, MayGrow, IInv, HandlesConsistent, HandleConsistent

\* The usage of the origin is measured, and a file that will grow is noted.
LEMMA MeasureStep ==
  ASSUME IInv, usage' = UsageForOriginNoLock, overcommitted => overcommitted',
         ~overcommitted' => \A g \in Handles : ~WillGrow(g),
         UNCHANGED <<quota, tableVars, files, excludeVars, openDatabases, handle, deleter,
                     lowered, forgot, debris>>
  PROVE  IInv'
<1> USE DEF IInv, Shapes
<1>u. UNCHANGED <<quota, rows, lastPath, files, beingCreated, beingDeleted, originDeleted, openDatabases, handle, deleter, lowered, forgot, debris>>
  BY DEF tableVars, excludeVars, historyVars
<1>p. \A x : Processed(x)' <=> Processed(x)
  BY <1>u DEF Processed, BeingDeleted
<1>m. /\ UsageOK' /\ CachedIsSum' /\ usage'.tracked /\ usage'.unknown = {}
      /\ usage'.partial <=> usage.tracked /\ usage.partial
      /\ ~usage'.partial => \A x \in Names : rows[x] # 0 =>
           /\ usage'.path[x] = rows[x]
           /\ usage'.size[x] = FileSize(rows[x]) \/ Processed(x) \/ overcommitted
  BY UsageResult DEF UsageOK, CachedIsSum
<1>s. \A x : FileSize(x)' = FileSize(x)
  BY <1>u DEF FileSize
<1>w. \A g \in Handles : WillGrow(g)' <=> WillGrow(g)
  BY <1>u DEF WillGrow, NameOf
<1>1. Shapes'
  <2>1. HandlesOK'
    BY <1>u DEF HandlesOK, HandleShape
  <2>2. UsageOK'
    BY <1>m DEF UsageOK
  <2>3. TablesOK'
    BY <1>u DEF TablesOK
  <2>4. ExcludeOK'
    BY <1>u DEF ExcludeOK
  <2>5. DeleterOK'
    BY <1>u DEF DeleterOK
  <2> QED BY <2>1, <2>2, <2>3, <2>4, <2>5
<1>2. RowsDiffer'
  BY <1>u DEF RowsDiffer
<1>3. HandlesConsistent'
  BY <1>u DEF HandlesConsistent, HandleConsistent, NameOf
<1>4. CreationExcludesDeletion'
  BY <1>u DEF CreationExcludesDeletion, Creating, NameOf
<1>5. ProposalsHaveNoRow'
  BY <1>u DEF ProposalsHaveNoRow, Proposed, NameOf
<1>6. DeletionNoted'
  BY <1>u DEF DeletionNoted
<1>7. FileBeingDeleted'
  BY <1>u DEF FileBeingDeleted, BeingDeleted
<1>8. FilesDeleted'
  BY <1>u DEF FilesDeleted, Processed, BeingDeleted
<1>9. NoDebris'
  BY <1>u DEF NoDebris
<1>10. CachedIsSum'
  BY <1>m DEF CachedIsSum
<1>11. OriginTracked'
  BY <1>u, <1>m DEF OriginTracked, NameOf
<1>12. RowsRecorded'
  BY <1>u, <1>m, <1>p, <1>s DEF RowsRecorded
<1>13. GrowingUnknown'
  BY <1>w DEF GrowingUnknown
<1> QED BY <1>1, <1>2, <1>3, <1>4, <1>5, <1>6, <1>7, <1>8, <1>9, <1>10, <1>11, <1>12, <1>13

\* A handle is established, or its name is proposed to the client.
LEMMA EstablishStep ==
  ASSUME IInv, NEW h \in Handles, NEW n \in Names, NEW state \in {"asking", "established"}, NEW requirement,
         handle[h].state = "new", CanCreateDatabase(n), state = "asking" => rows[n] = 0,
         beingCreated' = [beingCreated EXCEPT ![n] = @ + 1],
         handle' = [handle EXCEPT ![h].state = state, ![h].name = n, ![h].requirement = requirement],
         usage' = UsageForOriginNoLock,
         overcommitted' = (overcommitted \/ Overcommits(h) \/ (rows[n] # 0 /\ files[rows[n]] = -1)),
         UNCHANGED <<quota, tableVars, files, beingDeleted, originDeleted, openDatabases, deleter,
                     lowered, forgot, debris>>
  PROVE  IInv'
<1> USE DEF IInv, Shapes
<1>u. UNCHANGED <<quota, rows, lastPath, files, beingDeleted, originDeleted, openDatabases, deleter, lowered, forgot, debris>>
  BY DEF tableVars, excludeVars, historyVars
<1>p. \A x : Processed(x)' <=> Processed(x)
  BY <1>u DEF Processed, BeingDeleted
<1>m. /\ UsageOK' /\ CachedIsSum' /\ usage'.tracked /\ usage'.unknown = {}
      /\ usage'.partial <=> usage.tracked /\ usage.partial
      /\ ~usage'.partial => \A x \in Names : rows[x] # 0 =>
           /\ usage'.path[x] = rows[x]
           /\ usage'.size[x] = FileSize(rows[x]) \/ Processed(x) \/ overcommitted
  BY UsageResult DEF UsageOK, CachedIsSum
<1>s. \A x : FileSize(x)' = FileSize(x)
  BY <1>u DEF FileSize
<1> DEFINE r == [handle[h] EXCEPT !.state = state, !.name = n, !.requirement = requirement]
<1>h. HandlesOK' /\ handle'[h] = r /\ \A g \in Handles : g # h => handle'[g] = handle[g]
  <2>1. r \in [state: Opening \cup {"new", "open"}, name: Names \cup {NoName},
              requirement: {r.requirement}, path: 0..MaxPaths,
              max: {r.max}, pending: Nat, deleted: BOOLEAN]
    BY ZenonT(60) DEF HandlesOK, HandleShape, Opening
  <2>2. handle' = [handle EXCEPT ![h] = r]
    BY DEF HandlesOK
  <2> HIDE DEF r
  <2> QED BY <2>1, <2>2, SetHandle
<1>f. /\ handle'[h].state = state /\ handle'[h].name = n /\ handle'[h].path = handle[h].path
      /\ handle'[h].max = handle[h].max /\ handle'[h].pending = handle[h].pending /\ handle'[h].deleted = handle[h].deleted
  BY <1>h DEF HandlesOK, HandleShape
<1> HIDE DEF r
<1>n. /\ handle[h].path = 0 /\ handle[h].max = -1 /\ ~(handle[h].pending > 0) /\ ~handle[h].deleted
      /\ h \notin openDatabases /\ NameOf(h) = NoName
  BY DEF HandlesConsistent, HandleConsistent
<1>c. /\ \A x \in Names : x # n => Creating(x)' = Creating(x)
      /\ Creating(n)' = Creating(n) \cup {h} /\ h \notin Creating(n)
  <2>1. \A g \in Handles : g # h => handle'[g] = handle[g]
    BY <1>h
  <2>2. handle'[h].state \in Opening \ {"constructed"} /\ NameOf(h)' = n /\ NameOf(h) = NoName /\ NoName \notin Names
    BY <1>f, <1>n, TrackerAssumption DEF NameOf, Opening
  <2> HIDE DEF IInv, Shapes
  <2>3. \A x, g : g \in Handles /\ g # h => (g \in Creating(x)' <=> g \in Creating(x))
    BY <2>1 DEF Creating, NameOf
  <2>4. \A x \in Names : (h \in Creating(x)' <=> x = n) /\ h \notin Creating(x)
    BY <2>2 DEF Creating
  <2>5. \A x : Creating(x) \subseteq Handles /\ Creating(x)' \subseteq Handles
    BY DEF Creating
  <2>6. ASSUME NEW x \in Names, x # n  PROVE Creating(x)' = Creating(x)
    <3>1. \A g : g \in Creating(x)' <=> g \in Creating(x)
      BY <2>3, <2>4, <2>5, <2>6
    <3> QED BY <3>1
  <2>7. Creating(n)' = Creating(n) \cup {h}
    BY <2>3, <2>4, <2>5
  <2> QED BY <2>4, <2>6, <2>7
<1>e. beingCreated \in [Names -> Nat]
  BY DEF ExcludeOK
<1>k. \A g \in Handles : handle'[g].path # 0 => handle'[g] = handle[g]
  BY <1>h, <1>f, <1>n
<1>o. overcommitted => overcommitted'
  OBVIOUS
<1>1. Shapes'
  <2>1. HandlesOK'
    BY <1>h DEF HandlesOK, HandleShape
  <2>2. UsageOK'
    BY <1>m DEF UsageOK
  <2>3. TablesOK'
    BY <1>u DEF TablesOK
  <2>4. ExcludeOK'
    BY <1>u, <1>e DEF ExcludeOK
  <2>5. DeleterOK'
    BY <1>u DEF DeleterOK
  <2> QED BY <2>1, <2>2, <2>3, <2>4, <2>5
<1>2. RowsDiffer'
  BY <1>u DEF RowsDiffer
<1>3. HandlesConsistent'
  <2> SUFFICES ASSUME NEW g \in Handles  PROVE HandleConsistent(g)'
    BY DEF HandlesConsistent
  <2>1. HandleConsistent(g) /\ HandleShape(h)
    BY DEF HandlesConsistent, HandlesOK
  <2> HIDE DEF IInv, Shapes
  <2>2. CASE g = h
    BY <2>1, <2>2, <1>u, <1>f, <1>n DEF HandleConsistent, NameOf
  <2>3. CASE g # h
    BY <2>1, <2>3, <1>u, <1>h DEF HandleConsistent, NameOf
  <2> QED BY <2>2, <2>3
<1>4. CreationExcludesDeletion'
  <2>1. Cardinality(Creating(n)') = Cardinality(Creating(n)) + 1
    BY <1>c, CreatingFinite, FS_AddElement
  <2>2. \A x \in Names : beingCreated'[x] = Cardinality(Creating(x)')
    BY <2>1, <1>c, <1>e DEF CreationExcludesDeletion
  <2>3. \A x \in Names : beingCreated'[x] > 0 => x \notin beingDeleted' /\ ~originDeleted'
    BY <1>u, <1>e DEF CreationExcludesDeletion, CanCreateDatabase
  <2> QED BY <2>2, <2>3 DEF CreationExcludesDeletion
<1>5. ProposalsHaveNoRow'
  BY <1>u, <1>h, <1>f, ZenonT(60) DEF ProposalsHaveNoRow, Proposed, NameOf
<1>6. DeletionNoted'
  BY <1>u DEF DeletionNoted
<1>7. FileBeingDeleted'
  BY <1>u, <1>k, FileBeingDeletedKept DEF Shapes
<1>8. FilesDeleted'
  BY <1>u, <1>p, <1>h, <1>f, <1>n, ZenonT(60) DEF FilesDeleted
<1>9. NoDebris'
  BY <1>u DEF NoDebris
<1>10. CachedIsSum'
  BY <1>m DEF CachedIsSum
<1>11. OriginTracked'
  BY <1>u, <1>m DEF OriginTracked, NameOf
<1>12. RowsRecorded'
  BY <1>u, <1>m, <1>p, <1>s, <1>o DEF RowsRecorded
<1>13. GrowingUnknown'
  <2> SUFFICES ASSUME ~overcommitted', NEW g \in Handles, (NameOf(g) \in Names /\ WillGrow(g))'
               PROVE  FALSE
    BY DEF GrowingUnknown
  <2>1. CASE g = h
    BY <2>1, <1>u, <1>f, <1>n DEF WillGrow, NameOf, HandlesOK, HandleShape
  <2>2. CASE g # h
    <3>1. WillGrow(g)
      BY <2>2, <1>u, <1>h DEF WillGrow, NameOf
    <3>2. MayGrow(g)
      BY <3>1, WillMayGrow
    <3> QED BY <2>2, <3>2 DEF Overcommits
  <2> QED BY <2>1, <2>2
<1> QED BY <1>1, <1>2, <1>3, <1>4, <1>5, <1>6, <1>7, <1>8, <1>9, <1>10, <1>11, <1>12, <1>13

\* canEstablishDatabase.
LEMMA CanEstablishDatabaseStep ==
  ASSUME IInv, NEW h \in Handles, NEW n \in Names, NEW estimate \in Estimates,
         CanEstablishDatabase(h, n, estimate)
  PROVE  IInv'
<1> DEFINE record == UsageForOriginNoLock
           requirement == Wrap(record.cached + Max({1, estimate}))
<1>1. CASE ~CanCreateDatabase(n)
  <2>1. UNCHANGED <<quota, tableVars, files, usage, excludeVars, openDatabases, handle, deleter,
                    historyVars>>
    BY <1>1 DEF CanEstablishDatabase, excludeVars, historyVars
  <2> QED BY <2>1, Stutter
<1>2. CASE CanCreateDatabase(n)
  <2>1. /\ usage' = UsageForOriginNoLock /\ handle[h].state = "new"
        /\ overcommitted' = (overcommitted \/ Overcommits(h) \/ (rows[n] # 0 /\ files[rows[n]] = -1))
        /\ UNCHANGED <<quota, tableVars, files, beingDeleted, originDeleted, openDatabases, deleter,
                       lowered, forgot, debris>>
    BY <1>2 DEF CanEstablishDatabase
  <2>2. \/ \E state \in {"asking", "established"} :
             \E q : /\ state = "asking" => rows[n] = 0
                    /\ beingCreated' = [beingCreated EXCEPT ![n] = @ + 1]
                    /\ handle' = [handle EXCEPT ![h].state = state, ![h].name = n,
                                                ![h].requirement = q]
        \/ UNCHANGED <<handle, beingCreated>>
    <3>1. \/ /\ beingCreated' = [beingCreated EXCEPT ![n] = @ + 1]
             /\ handle' = [handle EXCEPT ![h].state = "established", ![h].name = n,
                                         ![h].requirement = 0]
          \/ UNCHANGED <<handle, beingCreated>>
          \/ /\ rows[n] = 0
             /\ beingCreated' = [beingCreated EXCEPT ![n] = @ + 1]
             /\ handle' = [handle EXCEPT ![h].state = "asking", ![h].name = n,
                                         ![h].requirement = requirement]
      BY <1>2 DEF CanEstablishDatabase
    <3> HIDE DEF requirement
    <3> QED BY <3>1
  <2>3. CASE UNCHANGED <<handle, beingCreated>>
    <3>1. ~overcommitted' => \A g \in Handles : ~WillGrow(g)
      <4>1. WillGrow(h) => FALSE
        BY <2>1, TrackerAssumption DEF WillGrow, IInv, HandlesConsistent, HandleConsistent, NameOf, Opening, Shapes, HandlesOK, HandleShape
      <4> QED BY <4>1, <2>1, WillMayGrow DEF Overcommits
    <3> QED BY <2>1, <2>3, <3>1, MeasureStep DEF excludeVars
  <2>4. CASE \E state \in {"asking", "established"} :
               \E q : /\ state = "asking" => rows[n] = 0
                      /\ beingCreated' = [beingCreated EXCEPT ![n] = @ + 1]
                      /\ handle' = [handle EXCEPT ![h].state = state, ![h].name = n,
                                                  ![h].requirement = q]
    BY <1>2, <2>1, <2>4, EstablishStep
  <2> QED BY <2>2, <2>3, <2>4
<1> QED BY <1>1, <1>2

\* usageForOrigin.
LEMMA UsageForOriginStep ==
  ASSUME IInv, UsageForOrigin  PROVE IInv'
<1>1. ~overcommitted' => \A g \in Handles : ~WillGrow(g)
  BY WillMayGrow DEF UsageForOrigin
<1> QED BY <1>1, MeasureStep DEF UsageForOrigin

\* An origin without databases is a record.
LEMMA NoRecordResult ==
  /\ NoRecord \in [tracked: BOOLEAN, partial: BOOLEAN, path: [Names -> -1..MaxPaths], size: [Names -> Nat],
                   unknown: SUBSET Names, cached: {NoRecord.cached}]
  /\ ~NoRecord.tracked /\ ~NoRecord.partial /\ NoRecord.cached = -1 /\ NoRecord.unknown = {}
  /\ LET r == [NoRecord EXCEPT !.tracked = TRUE, !.partial = TRUE]
     IN  /\ r \in [tracked: BOOLEAN, partial: BOOLEAN, path: [Names -> -1..MaxPaths], size: [Names -> Nat],
                   unknown: SUBSET Names, cached: {r.cached}]
         /\ r.tracked /\ r.partial
<1>1. /\ [n \in Names |-> -1] \in [Names -> -1..MaxPaths]
      /\ [n \in Names |-> 0] \in [Names -> Nat]
  BY TrackerAssumption
<1>2. /\ NoRecord \in [tracked: BOOLEAN, partial: BOOLEAN, path: [Names -> -1..MaxPaths], size: [Names -> Nat],
                       unknown: SUBSET Names, cached: {NoRecord.cached}]
      /\ ~NoRecord.tracked /\ ~NoRecord.partial /\ NoRecord.cached = -1 /\ NoRecord.unknown = {}
  BY <1>1 DEF NoRecord
<1> QED BY <1>2

\* A database that is added is recorded, and its size is not known.
LEMMA AddDatabaseResult ==
  ASSUME NEW record, NEW n \in Names, NEW p \in 0..MaxPaths,
         record \in [tracked: BOOLEAN, partial: BOOLEAN, path: [Names -> -1..MaxPaths], size: [Names -> Nat],
                     unknown: SUBSET Names, cached: {record.cached}]
  PROVE  LET r == AddDatabase(record, n, p)
         IN  /\ r \in [tracked: BOOLEAN, partial: BOOLEAN, path: [Names -> -1..MaxPaths], size: [Names -> Nat],
                       unknown: SUBSET Names, cached: {r.cached}]
             /\ r.tracked = record.tracked /\ r.partial = record.partial /\ r.cached = -1 /\ r.unknown = record.unknown \cup {n}
             /\ r.path = [record.path EXCEPT ![n] = p] /\ r.size = [record.size EXCEPT ![n] = 0]
<1> DEFINE r == AddDatabase(record, n, p)
<1>1. /\ r.tracked = record.tracked /\ r.partial = record.partial /\ r.cached = -1 /\ r.unknown = record.unknown \cup {n}
      /\ r.path = [record.path EXCEPT ![n] = p] /\ r.size = [record.size EXCEPT ![n] = 0]
  BY DEF AddDatabase
<1>2. r.path \in [Names -> -1..MaxPaths] /\ r.size \in [Names -> Nat]
  BY <1>1, TrackerAssumption
<1>3. r \in [tracked: BOOLEAN, partial: BOOLEAN, path: [Names -> -1..MaxPaths], size: [Names -> Nat],
             unknown: SUBSET Names, cached: {r.cached}]
  BY <1>1, <1>2 DEF AddDatabase
<1> QED BY <1>1, <1>3

\* Files only grow, by the hand of one handle, and no handle gets a path: what
\* deletion relies on is kept, and a size changes only where it was to grow.
LEMMA FilesGrow ==
  ASSUME IInv, NEW h \in Handles, files' \in [1..MaxPaths -> Nat \cup {-1}],
         UNCHANGED <<rows, deleter, beingDeleted, originDeleted, debris>>,
         \A p \in 1..MaxPaths : files'[p] # files[p] =>
           files'[p] # -1 /\ p = handle[h].path /\ (rows[NameOf(h)] = p => WillGrow(h)),
         \A g \in Handles : handle'[g].path # 0 => handle'[g].path = handle[g].path
  PROVE  /\ NoDebris' /\ FilesDeleted'
         /\ \A x \in Names : rows[x] # 0 =>
              FileSize(rows[x])' = FileSize(rows[x]) \/ (x = NameOf(h) /\ WillGrow(h))
         /\ \A x \in Names : rows[x] # 0 /\ files'[rows[x]] = -1 => files[rows[x]] = -1
<1>r. rows \in [Names -> 0..MaxPaths] /\ MaxPaths \in Nat /\ files \in [1..MaxPaths -> Nat \cup {-1}]
  BY TrackerAssumption DEF IInv, Shapes, TablesOK
<1>h. /\ handle[h].path # 0 => handle[h].path \in debris \/ rows[NameOf(h)] = handle[h].path
      /\ \A m \in Names : handle[h].path # 0 /\ rows[m] = handle[h].path => m = NameOf(h)
      /\ handle[h].state = "new" => handle[h].path = 0
      /\ handle[h].state # "new" => NameOf(h) \in Names
  BY DEF IInv, HandlesConsistent, HandleConsistent
<1>p. \A x : Processed(x)' <=> Processed(x)
  BY DEF Processed, BeingDeleted
<1>1. NoDebris'
  BY <1>r, <1>h DEF IInv, NoDebris
<1>2. FilesDeleted'
  <2> SUFFICES ASSUME NEW x \in Names, Processed(x), rows[x] # 0, rows[x] \notin debris
               PROVE  files'[rows[x]] = -1 /\ \A g \in Handles : handle'[g].path # rows[x]
    BY <1>p DEF FilesDeleted
  <2>1. files[rows[x]] = -1 /\ \A g \in Handles : handle[g].path # rows[x]
    BY DEF IInv, FilesDeleted
  <2> QED BY <2>1, <1>r, SMTT(30)
<1>3. \A x \in Names : rows[x] # 0 =>
        FileSize(rows[x])' = FileSize(rows[x]) \/ (x = NameOf(h) /\ WillGrow(h))
  BY <1>r, <1>h DEF FileSize
<1>4. \A x \in Names : rows[x] # 0 /\ files'[rows[x]] = -1 => files[rows[x]] = -1
  BY <1>r
<1> QED BY <1>1, <1>2, <1>3, <1>4

\* The client allowed the new database.
LEMMA AskedAndGranted ==
  ASSUME IInv, NEW h \in Handles, handle[h].state = "asking",
         Goto(h, "established"),
         UNCHANGED <<quota, tableVars, files, usage, excludeVars, openDatabases, deleter, historyVars>>
  PROVE  IInv'
<1> USE DEF IInv, Shapes
<1>u. UNCHANGED <<quota, rows, lastPath, files, usage, beingCreated, beingDeleted, originDeleted, openDatabases, deleter, lowered, overcommitted, forgot, debris>>
  BY DEF tableVars, excludeVars, historyVars
<1>p. \A x : Processed(x)' <=> Processed(x)
  BY <1>u DEF Processed, BeingDeleted
<1>s. \A x : FileSize(x)' = FileSize(x)
  BY <1>u DEF FileSize
<1> DEFINE r == [handle[h] EXCEPT !.state = "established"]
<1>h. HandlesOK' /\ handle'[h] = r /\ \A g \in Handles : g # h => handle'[g] = handle[g]
  <2>1. r \in [state: Opening \cup {"new", "open"}, name: Names \cup {NoName},
              requirement: {r.requirement}, path: 0..MaxPaths,
              max: {r.max}, pending: Nat, deleted: BOOLEAN]
    BY DEF HandlesOK, HandleShape, Opening
  <2>2. handle' = [handle EXCEPT ![h] = r]
    BY DEF HandlesOK, Goto
  <2> HIDE DEF r
  <2> QED BY <2>1, <2>2, SetHandle
<1>f. /\ handle'[h].state = "established" /\ handle'[h].name = handle[h].name /\ handle'[h].path = handle[h].path
      /\ handle'[h].max = handle[h].max /\ handle'[h].pending = handle[h].pending /\ handle'[h].deleted = handle[h].deleted
  BY <1>h DEF HandlesOK, HandleShape
<1> HIDE DEF r
<1>n. HandleConsistent(h)
  BY DEF HandlesConsistent
<1>k. \A g \in Handles : handle'[g].path # 0 =>
        /\ handle'[g].path = handle[g].path
        /\ handle[g].state = "open" => handle'[g].state = "open"
  BY <1>h, <1>f
<1>c. \A x \in Names : Creating(x)' = Creating(x)
  BY <1>h, <1>f, <1>u DEF Creating, NameOf, Opening
<1>1. Shapes'
  <2>1. HandlesOK'
    BY <1>h DEF HandlesOK, HandleShape
  <2>2. UsageOK'
    BY <1>u DEF UsageOK
  <2>3. TablesOK'
    BY <1>u DEF TablesOK
  <2>4. ExcludeOK'
    BY <1>u DEF ExcludeOK
  <2>5. DeleterOK'
    BY <1>u DEF DeleterOK
  <2> QED BY <2>1, <2>2, <2>3, <2>4, <2>5
<1>2. RowsDiffer'
  BY <1>u DEF RowsDiffer
<1>3. HandlesConsistent'
  BY <1>u, <1>h, <1>f, <1>n DEF HandlesConsistent, HandleConsistent, NameOf
<1>4. CreationExcludesDeletion'
  BY <1>u, <1>c DEF CreationExcludesDeletion
<1>5. ProposalsHaveNoRow'
  BY <1>u, <1>h, <1>f DEF ProposalsHaveNoRow, Proposed, NameOf
<1>6. DeletionNoted'
  BY <1>u DEF DeletionNoted
<1>7. FileBeingDeleted'
  BY <1>u, <1>k, FileBeingDeletedKept DEF Shapes
<1>8. FilesDeleted'
  BY <1>u, <1>p, <1>k DEF FilesDeleted
<1>9. NoDebris'
  BY <1>u DEF NoDebris
<1>10. CachedIsSum'
  BY <1>u DEF CachedIsSum
<1>11. OriginTracked'
  BY <1>u, <1>h, <1>f, <1>n DEF OriginTracked, HandleConsistent, NameOf
<1>12. RowsRecorded'
  BY <1>u, <1>p, <1>s DEF RowsRecorded
<1>13. GrowingUnknown'
  BY <1>u, <1>p, <1>h, <1>f, <1>n DEF GrowingUnknown, WillGrow, NameOf, HandleConsistent, Opening
<1> QED BY <1>1, <1>2, <1>3, <1>4, <1>5, <1>6, <1>7, <1>8, <1>9, <1>10, <1>11, <1>12, <1>13

\* The client did not allow the new database.
LEMMA AskedAndRefused ==
  ASSUME IInv, NEW h \in Handles, handle[h].state = "asking",
         handle' = [handle EXCEPT ![h] = NewHandle], DoneCreatingDatabase(NameOf(h)),
         UNCHANGED <<quota, tableVars, files, usage, beingDeleted, originDeleted, openDatabases,
                     deleter, historyVars>>
  PROVE  IInv'
<1> USE DEF IInv, Shapes
<1>u. UNCHANGED <<quota, rows, lastPath, files, usage, beingDeleted, originDeleted, openDatabases, deleter, lowered, overcommitted, forgot, debris>>
  BY DEF tableVars, excludeVars, historyVars
<1>p. \A x : Processed(x)' <=> Processed(x)
  BY <1>u DEF Processed, BeingDeleted
<1>s. \A x : FileSize(x)' = FileSize(x)
  BY <1>u DEF FileSize
<1> DEFINE r == NewHandle
<1>h. HandlesOK' /\ handle'[h] = r /\ \A g \in Handles : g # h => handle'[g] = handle[g]
  <2>1. r \in [state: Opening \cup {"new", "open"}, name: Names \cup {NoName},
              requirement: {r.requirement}, path: 0..MaxPaths,
              max: {r.max}, pending: Nat, deleted: BOOLEAN]
    BY TrackerAssumption DEF HandlesOK, HandleShape, Opening, NewHandle
  <2>2. handle' = [handle EXCEPT ![h] = r]
    BY DEF HandlesOK
  <2> HIDE DEF r
  <2> QED BY <2>1, <2>2, SetHandle
<1>f. /\ handle'[h].state = "new" /\ handle'[h].name = NoName /\ handle'[h].path = 0
      /\ handle'[h].max = -1 /\ handle'[h].pending = 0 /\ handle'[h].deleted = FALSE
  BY <1>h DEF HandlesOK, HandleShape, NewHandle
<1> HIDE DEF r
<1>n. HandleConsistent(h)
  BY DEF HandlesConsistent
<1>k. \A g \in Handles : handle'[g].path # 0 =>
        /\ handle'[g].path = handle[g].path
        /\ handle[g].state = "open" => handle'[g].state = "open"
  BY <1>h, <1>f
<1>0. PICK n : n = NameOf(h)
  OBVIOUS
<1>e. /\ n \in Names /\ beingCreated[n] > 0 /\ beingCreated \in [Names -> Nat]
  BY <1>0, NotDeleted DEF ExcludeOK, Opening
<1>c. /\ \A x \in Names : x # n => Creating(x)' = Creating(x)
      /\ Creating(n)' = Creating(n) \ {h} /\ h \in Creating(n)
  BY <1>0, <1>e, <1>h, <1>f, TrackerAssumption DEF Creating, NameOf, Opening
<1>b. \A x \in Names : beingCreated'[x] = IF x = n THEN beingCreated[x] - 1 ELSE beingCreated[x]
  BY <1>0, <1>e DEF DoneCreatingDatabase
<1>1. Shapes'
  <2>1. HandlesOK'
    BY <1>h DEF HandlesOK, HandleShape
  <2>2. UsageOK'
    BY <1>u DEF UsageOK
  <2>3. TablesOK'
    BY <1>u DEF TablesOK
  <2>4. ExcludeOK'
    BY <1>0, <1>u, <1>e DEF ExcludeOK, DoneCreatingDatabase
  <2>5. DeleterOK'
    BY <1>u DEF DeleterOK
  <2> QED BY <2>1, <2>2, <2>3, <2>4, <2>5
<1>2. RowsDiffer'
  BY <1>u DEF RowsDiffer
<1>3. HandlesConsistent'
  BY <1>u, <1>h, <1>f, <1>n, TrackerAssumption DEF HandlesConsistent, HandleConsistent, NameOf
<1>4. CreationExcludesDeletion'
  <2>1. Cardinality(Creating(n)') = Cardinality(Creating(n)) - 1
    BY <1>c, CreatingFinite, FS_RemoveElement
  <2>2. \A x \in Names : beingCreated'[x] = Cardinality(Creating(x)')
    BY <2>1, <1>c, <1>b DEF CreationExcludesDeletion
  <2>3. \A x \in Names : beingCreated'[x] > 0 => beingCreated[x] > 0
    BY <1>b, <1>e
  <2> QED BY <2>2, <2>3, <1>u DEF CreationExcludesDeletion
<1>5. ProposalsHaveNoRow'
  BY <1>u, <1>h, <1>f, TrackerAssumption DEF ProposalsHaveNoRow, Proposed, NameOf
<1>6. DeletionNoted'
  BY <1>u DEF DeletionNoted
<1>7. FileBeingDeleted'
  BY <1>u, <1>k, FileBeingDeletedKept DEF Shapes
<1>8. FilesDeleted'
  BY <1>u, <1>p, <1>k DEF FilesDeleted
<1>9. NoDebris'
  BY <1>u DEF NoDebris
<1>10. CachedIsSum'
  BY <1>u DEF CachedIsSum
<1>11. OriginTracked'
  BY <1>u, <1>h, <1>f, <1>n DEF OriginTracked, HandleConsistent, NameOf
<1>12. RowsRecorded'
  BY <1>u, <1>p, <1>s DEF RowsRecorded
<1>13. GrowingUnknown'
  BY <1>u, <1>p, <1>h, <1>f, <1>n, TrackerAssumption DEF GrowingUnknown, WillGrow, NameOf, HandleConsistent, Opening
<1> QED BY <1>1, <1>2, <1>3, <1>4, <1>5, <1>6, <1>7, <1>8, <1>9, <1>10, <1>11, <1>12, <1>13

\* The handle no longer counts as being created.
LEMMA DoneCreatingStep ==
  ASSUME IInv, NEW h \in Handles, DoneCreating(h)
  PROVE  IInv'
<1> USE DEF IInv, Shapes
<1> USE DEF DoneCreating
<1>u. UNCHANGED <<quota, rows, lastPath, files, usage, beingDeleted, originDeleted, openDatabases, deleter, lowered, overcommitted, forgot, debris>>
  BY DEF tableVars, excludeVars, historyVars
<1>p. \A x : Processed(x)' <=> Processed(x)
  BY <1>u DEF Processed, BeingDeleted
<1>s. \A x : FileSize(x)' = FileSize(x)
  BY <1>u DEF FileSize
<1> DEFINE r == [handle[h] EXCEPT !.state = "constructed"]
<1>h. HandlesOK' /\ handle'[h] = r /\ \A g \in Handles : g # h => handle'[g] = handle[g]
  <2>1. r \in [state: Opening \cup {"new", "open"}, name: Names \cup {NoName},
              requirement: {r.requirement}, path: 0..MaxPaths,
              max: {r.max}, pending: Nat, deleted: BOOLEAN]
    BY DEF HandlesOK, HandleShape, Opening
  <2>2. handle' = [handle EXCEPT ![h] = r]
    BY DEF HandlesOK, Goto
  <2> HIDE DEF r
  <2> QED BY <2>1, <2>2, SetHandle
<1>f. /\ handle'[h].state = "constructed" /\ handle'[h].name = handle[h].name /\ handle'[h].path = handle[h].path
      /\ handle'[h].max = handle[h].max /\ handle'[h].pending = handle[h].pending /\ handle'[h].deleted = handle[h].deleted
  BY <1>h DEF HandlesOK, HandleShape
<1> HIDE DEF r
<1>n. HandleConsistent(h)
  BY DEF HandlesConsistent
<1>k. \A g \in Handles : handle'[g].path # 0 =>
        /\ handle'[g].path = handle[g].path
        /\ handle[g].state = "open" => handle'[g].state = "open"
  BY <1>h, <1>f
<1>0. PICK n : n = NameOf(h)
  OBVIOUS
<1>e. /\ n \in Names /\ beingCreated[n] > 0 /\ beingCreated \in [Names -> Nat]
  BY <1>0, NotDeleted DEF ExcludeOK, Opening
<1>c. /\ \A x \in Names : x # n => Creating(x)' = Creating(x)
      /\ Creating(n)' = Creating(n) \ {h} /\ h \in Creating(n)
  BY <1>0, <1>e, <1>h, <1>f, TrackerAssumption DEF Creating, NameOf, Opening
<1>b. \A x \in Names : beingCreated'[x] = IF x = n THEN beingCreated[x] - 1 ELSE beingCreated[x]
  BY <1>0, <1>e DEF DoneCreatingDatabase
<1>1. Shapes'
  <2>1. HandlesOK'
    BY <1>h DEF HandlesOK, HandleShape
  <2>2. UsageOK'
    BY <1>u DEF UsageOK
  <2>3. TablesOK'
    BY <1>u DEF TablesOK
  <2>4. ExcludeOK'
    BY <1>0, <1>u, <1>e DEF ExcludeOK, DoneCreatingDatabase
  <2>5. DeleterOK'
    BY <1>u DEF DeleterOK
  <2> QED BY <2>1, <2>2, <2>3, <2>4, <2>5
<1>2. RowsDiffer'
  BY <1>u DEF RowsDiffer
<1>3. HandlesConsistent'
  BY <1>u, <1>h, <1>f, <1>n DEF HandlesConsistent, HandleConsistent, NameOf
<1>4. CreationExcludesDeletion'
  <2>1. Cardinality(Creating(n)') = Cardinality(Creating(n)) - 1
    BY <1>c, CreatingFinite, FS_RemoveElement
  <2>2. \A x \in Names : beingCreated'[x] = Cardinality(Creating(x)')
    BY <2>1, <1>c, <1>b DEF CreationExcludesDeletion
  <2>3. \A x \in Names : beingCreated'[x] > 0 => beingCreated[x] > 0
    BY <1>b, <1>e
  <2> QED BY <2>2, <2>3, <1>u DEF CreationExcludesDeletion
<1>5. ProposalsHaveNoRow'
  BY <1>u, <1>h, <1>f DEF ProposalsHaveNoRow, Proposed, NameOf
<1>6. DeletionNoted'
  BY <1>u DEF DeletionNoted
<1>7. FileBeingDeleted'
  BY <1>u, <1>k, FileBeingDeletedKept DEF Shapes
<1>8. FilesDeleted'
  BY <1>u, <1>p, <1>k DEF FilesDeleted
<1>9. NoDebris'
  BY <1>u DEF NoDebris
<1>10. CachedIsSum'
  BY <1>u DEF CachedIsSum
<1>11. OriginTracked'
  BY <1>u, <1>h, <1>f, <1>n DEF OriginTracked, HandleConsistent, NameOf
<1>12. RowsRecorded'
  BY <1>u, <1>p, <1>s DEF RowsRecorded
<1>13. GrowingUnknown'
  BY <1>u, <1>p, <1>h, <1>f, <1>n DEF GrowingUnknown, WillGrow, NameOf, HandleConsistent, Opening
<1> QED BY <1>1, <1>2, <1>3, <1>4, <1>5, <1>6, <1>7, <1>8, <1>9, <1>10, <1>11, <1>12, <1>13

\* setQuota.
LEMMA SetQuotaStep ==
  ASSUME IInv, NEW q \in Quotas, SetQuota(q)
  PROVE  IInv'
<1> USE DEF IInv, Shapes
<1> USE DEF SetQuota
<1>u. UNCHANGED <<rows, lastPath, files, usage, beingCreated, beingDeleted, originDeleted, openDatabases, handle, deleter, overcommitted, forgot, debris>>
  BY DEF tableVars, excludeVars, historyVars
<1>1. Shapes'
  <2>1. HandlesOK'
    BY <1>u DEF HandlesOK, HandleShape
  <2>2. UsageOK'
    BY <1>u DEF UsageOK
  <2>3. TablesOK'
    BY <1>u, TrackerAssumption DEF TablesOK
  <2>4. ExcludeOK'
    BY <1>u DEF ExcludeOK
  <2>5. DeleterOK'
    BY <1>u DEF DeleterOK
  <2> QED BY <2>1, <2>2, <2>3, <2>4, <2>5
<1>2. RowsDiffer'
  BY <1>u DEF RowsDiffer
<1>3. HandlesConsistent'
  BY <1>u DEF HandlesConsistent, HandleConsistent, NameOf
<1>4. CreationExcludesDeletion'
  BY <1>u DEF CreationExcludesDeletion, Creating, NameOf
<1>5. ProposalsHaveNoRow'
  BY <1>u DEF ProposalsHaveNoRow, Proposed, NameOf
<1>6. DeletionNoted'
  BY <1>u DEF DeletionNoted
<1>7. FileBeingDeleted'
  BY <1>u DEF FileBeingDeleted, BeingDeleted
<1>8. FilesDeleted'
  BY <1>u DEF FilesDeleted, Processed, BeingDeleted
<1>9. NoDebris'
  BY <1>u DEF NoDebris
<1>10. CachedIsSum'
  BY <1>u DEF CachedIsSum
<1>11. OriginTracked'
  BY <1>u DEF OriginTracked, NameOf
<1>12. RowsRecorded'
  BY <1>u DEF RowsRecorded, FileSize, Processed, BeingDeleted
<1>13. GrowingUnknown'
  BY <1>u DEF GrowingUnknown, WillGrow, NameOf, Processed, BeingDeleted
<1> QED BY <1>1, <1>2, <1>3, <1>4, <1>5, <1>6, <1>7, <1>8, <1>9, <1>10, <1>11, <1>12, <1>13

\* addOpenDatabase: the map.
LEMMA AddOpenDatabaseStep ==
  ASSUME IInv, NEW h \in Handles, AddOpenDatabase(h)
  PROVE  IInv'
<1> USE DEF IInv, Shapes
<1> USE DEF AddOpenDatabase
<1>u. UNCHANGED <<quota, rows, lastPath, files, beingCreated, beingDeleted, originDeleted, deleter, lowered, overcommitted, forgot, debris>>
  BY DEF tableVars, excludeVars, historyVars
<1>p. \A x : Processed(x)' <=> Processed(x)
  BY <1>u DEF Processed, BeingDeleted
<1>s. \A x : FileSize(x)' = FileSize(x)
  BY <1>u DEF FileSize
<1> DEFINE r == [handle[h] EXCEPT !.state = "registered"]
<1>h. HandlesOK' /\ handle'[h] = r /\ \A g \in Handles : g # h => handle'[g] = handle[g]
  <2>1. r \in [state: Opening \cup {"new", "open"}, name: Names \cup {NoName},
              requirement: {r.requirement}, path: 0..MaxPaths,
              max: {r.max}, pending: Nat, deleted: BOOLEAN]
    BY DEF HandlesOK, HandleShape, Opening
  <2>2. handle' = [handle EXCEPT ![h] = r]
    BY DEF HandlesOK, Goto
  <2> HIDE DEF r
  <2> QED BY <2>1, <2>2, SetHandle
<1>f. /\ handle'[h].state = "registered" /\ handle'[h].name = handle[h].name /\ handle'[h].path = handle[h].path
      /\ handle'[h].max = handle[h].max /\ handle'[h].pending = handle[h].pending /\ handle'[h].deleted = handle[h].deleted
  BY <1>h DEF HandlesOK, HandleShape
<1> HIDE DEF r
<1>n. HandleConsistent(h)
  BY DEF HandlesConsistent
<1>a. /\ UsageOK' /\ CachedIsSum' /\ usage'.tracked
      /\ IF usage.tracked THEN usage' = usage ELSE usage'.partial
  <2>1. CASE usage.tracked
    BY <2>1 DEF UsageOK, CachedIsSum
  <2>2. CASE ~usage.tracked
    <3> DEFINE new == AddDatabase([NoRecord EXCEPT !.tracked = TRUE, !.partial = TRUE], NameOf(h), handle[h].path)
    <3>0. NameOf(h) \in Names /\ handle[h].path \in 0..MaxPaths
      BY DEF HandlesOK, HandleShape, HandlesConsistent, HandleConsistent
    <3>1. /\ new \in [tracked: BOOLEAN, partial: BOOLEAN, path: [Names -> -1..MaxPaths], size: [Names -> Nat],
                      unknown: SUBSET Names, cached: {new.cached}]
          /\ new.tracked /\ new.partial /\ new.cached = -1
      BY <3>0, AddDatabaseResult, NoRecordResult
    <3>3. usage' = new
      BY <2>2
    <3> HIDE DEF new, AddOpenDatabase
    <3> QED BY <2>2, <3>1, <3>3 DEF UsageOK, CachedIsSum
  <2> QED BY <2>1, <2>2 DEF UsageOK
<1>b. /\ handle[h].state = "pathed" /\ openDatabases' = openDatabases \cup {h}
      /\ (~forgot => usage.tracked)
  BY DEF OriginTracked
<1> HIDE DEF AddOpenDatabase
<1>k. \A g \in Handles : handle'[g].path # 0 =>
        /\ handle'[g].path = handle[g].path
        /\ handle[g].state = "open" => handle'[g].state = "open"
  BY <1>h, <1>f, <1>b
<1>c. \A x \in Names : Creating(x)' = Creating(x)
  BY <1>h, <1>f, <1>b, <1>u DEF Creating, NameOf, Opening
<1>1. Shapes'
  <2>1. HandlesOK'
    BY <1>h DEF HandlesOK, HandleShape
  <2>2. UsageOK'
    BY <1>a DEF UsageOK
  <2>3. TablesOK'
    BY <1>u, <1>b DEF TablesOK
  <2>4. ExcludeOK'
    BY <1>u DEF ExcludeOK
  <2>5. DeleterOK'
    BY <1>u DEF DeleterOK
  <2> QED BY <2>1, <2>2, <2>3, <2>4, <2>5
<1>2. RowsDiffer'
  BY <1>u DEF RowsDiffer
<1>3. HandlesConsistent'
  BY <1>u, <1>h, <1>f, <1>n, <1>b DEF HandlesConsistent, HandleConsistent, NameOf
<1>4. CreationExcludesDeletion'
  BY <1>u, <1>c DEF CreationExcludesDeletion
<1>5. ProposalsHaveNoRow'
  BY <1>u, <1>h, <1>f DEF ProposalsHaveNoRow, Proposed, NameOf
<1>6. DeletionNoted'
  BY <1>u DEF DeletionNoted
<1>7. FileBeingDeleted'
  BY <1>u, <1>k, FileBeingDeletedKept DEF Shapes
<1>8. FilesDeleted'
  BY <1>u, <1>p, <1>k DEF FilesDeleted
<1>9. NoDebris'
  BY <1>u DEF NoDebris
<1>10. CachedIsSum'
  BY <1>a DEF CachedIsSum
<1>11. OriginTracked'
  BY <1>u, <1>a, <1>b DEF OriginTracked, NameOf
<1>12. RowsRecorded'
  BY <1>u, <1>p, <1>s, <1>a, <1>b DEF RowsRecorded
<1>13. GrowingUnknown'
  BY <1>u, <1>a, <1>b, <1>p, <1>h, <1>f, <1>n DEF GrowingUnknown, WillGrow, NameOf, HandleConsistent, Opening
<1> QED BY <1>1, <1>2, <1>3, <1>4, <1>5, <1>6, <1>7, <1>8, <1>9, <1>10, <1>11, <1>12, <1>13

\* fullPathForDatabase: the path of the row, or none for a name that is proposed.
LEMMA RowPathStep ==
  ASSUME IInv, NEW h \in Handles, handle[h].state = "established", Proposed(NameOf(h)) \/ rows[NameOf(h)] # 0,
         FullPathForDatabase(h)
  PROVE  IInv'
<1> USE DEF IInv, Shapes
<1>u. UNCHANGED <<quota, rows, lastPath, files, usage, beingCreated, beingDeleted, originDeleted, openDatabases, deleter, lowered, overcommitted, forgot, debris>>
  BY DEF tableVars, excludeVars, historyVars, FullPathForDatabase
<1>p. \A x : Processed(x)' <=> Processed(x)
  BY <1>u DEF Processed, BeingDeleted
<1>s. \A x : FileSize(x)' = FileSize(x)
  BY <1>u DEF FileSize
<1>i. rows \in [Names -> 0..MaxPaths] /\ MaxPaths \in Nat /\ lastPath \in 0..MaxPaths
  BY TrackerAssumption DEF TablesOK
<1>0. PICK n : n = NameOf(h)
  OBVIOUS
<1>n. /\ n \in Names /\ ~BeingDeleted(n) /\ ~Processed(n)
      /\ handle[h].path = 0 /\ handle[h].max = -1 /\ ~(handle[h].pending > 0) /\ ~handle[h].deleted
      /\ h \notin openDatabases
  BY <1>0, NotDeleted DEF HandlesConsistent, HandleConsistent, Opening
<1> DEFINE r == [handle[h] EXCEPT !.state = "pathed", !.path = PathOf(n)]
<1>h. HandlesOK' /\ handle'[h] = r /\ \A g \in Handles : g # h => handle'[g] = handle[g]
  <2>1. r \in [state: Opening \cup {"new", "open"}, name: Names \cup {NoName},
              requirement: {r.requirement}, path: 0..MaxPaths,
              max: {r.max}, pending: Nat, deleted: BOOLEAN]
    BY <1>0, <1>n, <1>i, ZenonT(60) DEF HandlesOK, HandleShape, Opening, PathOf
  <2>2. handle' = [handle EXCEPT ![h] = r]
    BY <1>0 DEF HandlesOK, FullPathForDatabase
  <2> HIDE DEF r
  <2> QED BY <2>1, <2>2, SetHandle
<1>f. /\ handle'[h].state = "pathed" /\ handle'[h].name = handle[h].name /\ handle'[h].path = PathOf(n)
      /\ handle'[h].max = handle[h].max /\ handle'[h].pending = handle[h].pending /\ handle'[h].deleted = handle[h].deleted
  BY <1>h DEF HandlesOK, HandleShape, PathOf
<1> HIDE DEF r
<1>v. PathOf(n) = 0 \/ PathOf(n) = rows[n]
  BY DEF PathOf
<1>o. /\ \A x \in Names : rows[x] # 0 /\ rows[x] = rows[n] => x = n
      /\ rows[n] <= lastPath
  BY <1>n DEF RowsDiffer
<1>c. \A x \in Names : Creating(x)' = Creating(x)
  BY <1>h, <1>f, <1>u DEF Creating, NameOf, Opening
<1>1. Shapes'
  <2>1. HandlesOK'
    BY <1>h DEF HandlesOK, HandleShape
  <2>2. UsageOK'
    BY <1>u DEF UsageOK
  <2>3. TablesOK'
    BY <1>u DEF TablesOK
  <2>4. ExcludeOK'
    BY <1>u DEF ExcludeOK
  <2>5. DeleterOK'
    BY <1>u DEF DeleterOK
  <2> QED BY <2>1, <2>2, <2>3, <2>4, <2>5
<1>2. RowsDiffer'
  BY <1>u DEF RowsDiffer
<1>3. HandlesConsistent'
  BY <1>u, <1>h, <1>f, <1>n, <1>v, <1>o, <1>0 DEF HandlesConsistent, HandleConsistent, NameOf
<1>4. CreationExcludesDeletion'
  BY <1>u, <1>c DEF CreationExcludesDeletion
<1>5. ProposalsHaveNoRow'
  BY <1>u, <1>h, <1>f DEF ProposalsHaveNoRow, Proposed, NameOf
<1>6. DeletionNoted'
  BY <1>u DEF DeletionNoted
<1>7. FileBeingDeleted'
  <2>1. ASSUME deleter.at \in {"collect", "close"}  PROVE handle'[h].path # deleter.path
    BY <2>1, <1>f, <1>v, <1>o, <1>n DEF FileBeingDeleted
  <2>2. \A g \in Handles : handle'[g].path = deleter.path /\ deleter.at \in {"collect", "close"} =>
          handle'[g] = handle[g]
    BY <2>1, <1>h
  <2> HIDE DEF Shapes
  <2> SUFFICES ASSUME deleter.at \in {"collect", "close"}, deleter.path \notin debris
               PROVE  \A g \in Handles : handle'[g].path = deleter.path =>
                        /\ handle'[g].state = "open" /\ g \notin SyncHandles
                        /\ deleter.at = "close" => g \in deleter.closing
    BY <1>u DEF FileBeingDeleted, BeingDeleted
  <2> QED BY <2>2 DEF FileBeingDeleted
<1>8. FilesDeleted'
  BY <1>u, <1>p, <1>h, <1>f, <1>n, <1>v, <1>o DEF FilesDeleted
<1>9. NoDebris'
  BY <1>u DEF NoDebris
<1>10. CachedIsSum'
  BY <1>u DEF CachedIsSum
<1>11. OriginTracked'
  BY <1>u, <1>h, <1>f, <1>n, <1>0 DEF OriginTracked, NameOf
<1>12. RowsRecorded'
  BY <1>u, <1>p, <1>s DEF RowsRecorded
<1>13. GrowingUnknown'
  <2> SUFFICES ASSUME ~usage.partial, usage.tracked, ~overcommitted, NEW g \in Handles,
                      (NameOf(g) \in Names /\ WillGrow(g))'
               PROVE  NameOf(g)' \in usage.unknown \/ Processed(NameOf(g)')
    BY <1>u, <1>p DEF GrowingUnknown
  <2>1. NameOf(g)' = NameOf(g) /\ WillGrow(g)
    <3>1. CASE g = h
      BY <3>1, <1>0, <1>u, <1>f, <1>n, <1>v DEF WillGrow, NameOf, Opening
    <3>2. CASE g # h
      BY <3>2, <1>u, <1>h DEF WillGrow, NameOf
    <3> QED BY <3>1, <3>2
  <2> QED BY <2>1 DEF GrowingUnknown
<1> QED BY <1>1, <1>2, <1>3, <1>4, <1>5, <1>6, <1>7, <1>8, <1>9, <1>10, <1>11, <1>12, <1>13

\* fullPathForDatabase: a new row, with a path that was never used.
LEMMA NewPathStep ==
  ASSUME IInv, NEW h \in Handles, handle[h].state = "established", ~Proposed(NameOf(h)), rows[NameOf(h)] = 0,
         FullPathForDatabase(h)
  PROVE  IInv'
<1> USE DEF IInv, Shapes
<1>u. UNCHANGED <<quota, files, beingCreated, beingDeleted, originDeleted, openDatabases, deleter, lowered, overcommitted, forgot, debris>>
  BY DEF tableVars, excludeVars, historyVars, FullPathForDatabase
<1>p. \A x : Processed(x)' <=> Processed(x)
  BY <1>u DEF Processed, BeingDeleted
<1>i. rows \in [Names -> 0..MaxPaths] /\ MaxPaths \in Nat /\ lastPath \in 0..MaxPaths
  BY TrackerAssumption DEF TablesOK
<1>0. PICK n : n = NameOf(h)
  OBVIOUS
<1>n. /\ n \in Names /\ ~BeingDeleted(n) /\ ~Processed(n)
      /\ handle[h].path = 0 /\ handle[h].max = -1 /\ ~(handle[h].pending > 0) /\ ~handle[h].deleted
      /\ h \notin openDatabases
  BY <1>0, NotDeleted DEF HandlesConsistent, HandleConsistent, Opening
<1>a. /\ lastPath' = lastPath + 1 /\ lastPath + 1 \in 0..MaxPaths /\ lastPath + 1 # 0
      /\ rows' = [rows EXCEPT ![n] = lastPath + 1] /\ rows[n] = 0
      /\ usage' = IF usage.tracked THEN AddDatabase(usage, n, lastPath + 1) ELSE usage
  BY <1>0, <1>i DEF FullPathForDatabase
<1>r. /\ rows'[n] = lastPath + 1 /\ \A x \in Names : x # n => rows'[x] = rows[x]
      /\ rows' \in [Names -> 0..MaxPaths]
  BY <1>a, <1>i, <1>n
<1> DEFINE r == [handle[h] EXCEPT !.state = "pathed", !.path = lastPath + 1]
<1>h. HandlesOK' /\ handle'[h] = r /\ \A g \in Handles : g # h => handle'[g] = handle[g]
  <2>1. r \in [state: Opening \cup {"new", "open"}, name: Names \cup {NoName},
              requirement: {r.requirement}, path: 0..MaxPaths,
              max: {r.max}, pending: Nat, deleted: BOOLEAN]
    BY <1>a, <1>i, ZenonT(60) DEF HandlesOK, HandleShape, Opening
  <2>2. handle' = [handle EXCEPT ![h] = r]
    BY <1>0 DEF HandlesOK, FullPathForDatabase
  <2> HIDE DEF r
  <2> QED BY <2>1, <2>2, SetHandle
<1>f. /\ handle'[h].state = "pathed" /\ handle'[h].name = handle[h].name /\ handle'[h].path = lastPath + 1
      /\ handle'[h].max = handle[h].max /\ handle'[h].pending = handle[h].pending /\ handle'[h].deleted = handle[h].deleted
  BY <1>h DEF HandlesOK, HandleShape
<1> HIDE DEF r
<1>t. /\ UsageOK' /\ CachedIsSum' /\ usage'.tracked = usage.tracked /\ usage'.partial = usage.partial
      /\ usage.tracked => /\ n \in usage'.unknown /\ usage'.path[n] = lastPath + 1
                          /\ usage.unknown \subseteq usage'.unknown
                          /\ \A x \in Names : x # n => /\ usage'.path[x] = usage.path[x]
                                                       /\ usage'.size[x] = usage.size[x]
  <2>1. CASE usage.tracked
    <3> DEFINE new == AddDatabase(usage, n, lastPath + 1)
    <3>1. /\ new \in [tracked: BOOLEAN, partial: BOOLEAN, path: [Names -> -1..MaxPaths], size: [Names -> Nat],
                      unknown: SUBSET Names, cached: {new.cached}]
          /\ new.tracked = usage.tracked /\ new.partial = usage.partial /\ new.cached = -1 /\ new.unknown = usage.unknown \cup {n}
          /\ new.path = [usage.path EXCEPT ![n] = lastPath + 1]
          /\ new.size = [usage.size EXCEPT ![n] = 0]
      <4>1. /\ usage \in [tracked: BOOLEAN, partial: BOOLEAN, path: [Names -> -1..MaxPaths], size: [Names -> Nat],
                          unknown: SUBSET Names, cached: {usage.cached}]
        BY DEF UsageOK
      <4>2. n \in Names /\ lastPath + 1 \in 0..MaxPaths
        BY <1>n, <1>a
      <4> HIDE DEF IInv, Shapes
      <4> QED BY ONLY <4>1, <4>2, AddDatabaseResult
    <3>2. usage' = new
      BY <2>1, <1>a
    <3> HIDE DEF new
    <3> QED BY <3>1, <3>2, <1>n DEF UsageOK, CachedIsSum
  <2>2. CASE ~usage.tracked
    BY <2>2, <1>a DEF UsageOK, CachedIsSum
  <2> QED BY <2>1, <2>2 DEF UsageOK
<1>o. \A x \in Names : rows[x] <= lastPath /\ rows[x] # lastPath + 1
  BY <1>i DEF RowsDiffer
<1>q. \A g \in Handles : handle[g].path <= lastPath /\ handle[g].path # lastPath + 1
  BY <1>i DEF HandlesConsistent, HandleConsistent, HandlesOK, HandleShape
<1>s. \A x \in Names : x # n => FileSize(rows[x])' = FileSize(rows[x])
  BY <1>u, <1>r DEF FileSize
<1>c. \A x \in Names : Creating(x)' = Creating(x)
  BY <1>h, <1>f, <1>u DEF Creating, NameOf, Opening
<1>1. Shapes'
  <2>1. HandlesOK'
    BY <1>h DEF HandlesOK, HandleShape
  <2>2. UsageOK'
    BY <1>t DEF UsageOK
  <2>3. TablesOK'
    BY <1>u, <1>a, <1>r, <1>i DEF TablesOK
  <2>4. ExcludeOK'
    BY <1>u DEF ExcludeOK
  <2>5. DeleterOK'
    BY <1>u DEF DeleterOK
  <2> QED BY <2>1, <2>2, <2>3, <2>4, <2>5
<1>2. RowsDiffer'
  BY <1>a, <1>r, <1>o, <1>i DEF RowsDiffer
<1>3. HandlesConsistent'
  <2>1. HandleConsistent(h)'
    <3>1. \A m \in Names : rows'[m] = lastPath + 1 => m = n
      BY <1>r, <1>o
    <3> QED BY <3>1, <1>0, <1>u, <1>f, <1>n, <1>r, <1>a, <1>i DEF HandleConsistent, NameOf
  <2>2. ASSUME NEW g \in Handles, g # h  PROVE HandleConsistent(g)'
    <3>1. HandleConsistent(g)
      BY DEF HandlesConsistent
    <3>2. handle'[g] = handle[g] /\ handle[g].path \in 0..MaxPaths
      BY <2>2, <1>h DEF HandlesOK, HandleShape
    <3>3. handle[g].path # 0 => /\ handle[g].path \in debris \/ rows'[NameOf(g)] = handle[g].path
                                /\ \A m \in Names : rows'[m] = handle[g].path => m = NameOf(g)
                                /\ handle[g].path <= lastPath + 1
      BY <3>1, <3>2, <1>q, <1>r, <1>a, <1>i DEF HandleConsistent
    <3> QED BY <3>1, <3>2, <3>3, <1>u, <1>a DEF HandleConsistent, NameOf
  <2> QED BY <2>1, <2>2 DEF HandlesConsistent
<1>4. CreationExcludesDeletion'
  BY <1>u, <1>c DEF CreationExcludesDeletion
<1>5. ProposalsHaveNoRow'
  BY <1>0, <1>h, <1>f, <1>r DEF ProposalsHaveNoRow, Proposed, NameOf
<1>6. DeletionNoted'
  BY <1>u DEF DeletionNoted
<1>7. FileBeingDeleted'
  <2>1. ASSUME deleter.at \in {"collect", "close"}
        PROVE  /\ handle'[h].path # deleter.path /\ deleter.name # n
               /\ rows'[deleter.name] = rows[deleter.name]
    BY <2>1, <1>f, <1>o, <1>n, <1>r DEF FileBeingDeleted
  <2>2. \A g \in Handles : handle'[g].path = deleter.path /\ deleter.at \in {"collect", "close"} =>
          handle'[g] = handle[g]
    BY <2>1, <1>h
  <2> HIDE DEF Shapes
  <2> SUFFICES ASSUME deleter.at \in {"collect", "close"}, deleter.path \notin debris
               PROVE  \A g \in Handles : handle'[g].path = deleter.path =>
                        /\ handle'[g].state = "open" /\ g \notin SyncHandles
                        /\ deleter.at = "close" => g \in deleter.closing
    BY <2>1, <1>u DEF FileBeingDeleted, BeingDeleted
  <2> QED BY <2>2 DEF FileBeingDeleted
<1>8. FilesDeleted'
  <2> SUFFICES ASSUME NEW x \in Names, Processed(x)
               PROVE  \/ rows'[x] = 0 \/ rows'[x] \in debris
                      \/ files[rows'[x]] = -1 /\ \A g \in Handles : handle'[g].path # rows'[x]
    BY <1>u, <1>p DEF FilesDeleted
  <2>1. rows'[x] = rows[x] /\ rows[x] # lastPath + 1
    BY <1>n, <1>r, <1>o
  <2> QED BY <2>1, <1>h, <1>f DEF FilesDeleted
<1>9. NoDebris'
  BY <1>u, <1>r, <1>a DEF NoDebris
<1>10. CachedIsSum'
  BY <1>t DEF CachedIsSum
<1>11. OriginTracked'
  BY <1>u, <1>t, <1>h, <1>f, <1>n, <1>r, <1>q, <1>0 DEF OriginTracked, NameOf
<1>12. RowsRecorded'
  <2> SUFFICES ASSUME ~usage.partial, usage.tracked, NEW x \in Names, rows'[x] # 0
               PROVE  /\ usage'.path[x] = rows'[x]
                      /\ \/ x \in usage'.unknown \/ usage'.size[x] = FileSize(rows[x])'
                         \/ Processed(x) \/ overcommitted
    BY <1>u, <1>t, <1>p DEF RowsRecorded
  <2> QED BY <1>t, <1>r, <1>s DEF RowsRecorded
<1>13. GrowingUnknown'
  <2> SUFFICES ASSUME ~usage.partial, usage.tracked, ~overcommitted, NEW g \in Handles,
                      (NameOf(g) \in Names /\ WillGrow(g))', NameOf(g)' # n
               PROVE  NameOf(g)' \in usage.unknown \/ Processed(NameOf(g)')
    BY <1>u, <1>p, <1>t DEF GrowingUnknown
  <2>1. g # h
    BY <1>0, <1>f DEF NameOf
  <2>2. NameOf(g)' = NameOf(g) /\ rows'[NameOf(g)] = rows[NameOf(g)]
    BY <2>1, <1>h, <1>r DEF NameOf
  <2>3. WillGrow(g)
    BY <2>1, <2>2, <1>u, <1>h DEF WillGrow, NameOf
  <2> QED BY <2>2, <2>3 DEF GrowingUnknown
<1> QED BY <1>1, <1>2, <1>3, <1>4, <1>5, <1>6, <1>7, <1>8, <1>9, <1>10, <1>11, <1>12, <1>13

\* performOpenAndVerify changes at most the file of the handle.
LEMMA OpenedFilesResult ==
  ASSUME IInv, NEW h \in Handles, handle[h].state = "constructed", files' \in {files, OpenedFiles(h)}
  PROVE  /\ files' \in [1..MaxPaths -> Nat \cup {-1}]
         /\ \A p \in 1..MaxPaths : files'[p] # files[p] =>
              files'[p] # -1 /\ p = handle[h].path /\ (rows[NameOf(h)] = p => WillGrow(h))
         /\ handle[h].path # 0 /\ files' = OpenedFiles(h) => files'[handle[h].path] # -1
<1>1. /\ files \in [1..MaxPaths -> Nat \cup {-1}] /\ handle[h].path \in 0..MaxPaths /\ MaxPaths \in Nat
  BY TrackerAssumption DEF IInv, Shapes, TablesOK, HandlesOK, HandleShape
<1>2. files' = files \/ (handle[h].path # 0 /\ files[handle[h].path] = -1
                           /\ files' = [files EXCEPT ![handle[h].path] = 1])
  BY DEF OpenedFiles
<1> QED BY <1>1, <1>2 DEF WillGrow, Opening, OpenedFiles

\* The file of a handle is opened.
LEMMA OpenFileStep ==
  ASSUME IInv, NEW h \in Handles, OpenFile(h)
  PROVE  IInv'
<1> USE DEF IInv, Shapes
<1> USE DEF OpenFile
<1>u. UNCHANGED <<quota, rows, lastPath, usage, beingCreated, beingDeleted, originDeleted, openDatabases, deleter, lowered, overcommitted, forgot, debris>>
  BY DEF tableVars, excludeVars, historyVars
<1>p. \A x : Processed(x)' <=> Processed(x)
  BY <1>u DEF Processed, BeingDeleted
<1> DEFINE r == [handle[h] EXCEPT !.state = "open"]
<1>h. HandlesOK' /\ handle'[h] = r /\ \A g \in Handles : g # h => handle'[g] = handle[g]
  <2>1. r \in [state: Opening \cup {"new", "open"}, name: Names \cup {NoName},
              requirement: {r.requirement}, path: 0..MaxPaths,
              max: {r.max}, pending: Nat, deleted: BOOLEAN]
    BY DEF HandlesOK, HandleShape, Opening
  <2>2. handle' = [handle EXCEPT ![h] = r]
    BY DEF HandlesOK, Goto
  <2> HIDE DEF r
  <2> QED BY <2>1, <2>2, SetHandle
<1>f. /\ handle'[h].state = "open" /\ handle'[h].name = handle[h].name /\ handle'[h].path = handle[h].path
      /\ handle'[h].max = handle[h].max /\ handle'[h].pending = handle[h].pending /\ handle'[h].deleted = handle[h].deleted
  BY <1>h DEF HandlesOK, HandleShape
<1> HIDE DEF r
<1>n. HandleConsistent(h)
  BY DEF HandlesConsistent
<1>k. \A g \in Handles : handle'[g].path # 0 =>
        /\ handle'[g].path = handle[g].path
        /\ handle[g].state = "open" => handle'[g].state = "open"
  BY <1>h, <1>f
<1>c. \A x \in Names : Creating(x)' = Creating(x)
  BY <1>h, <1>f, <1>u DEF Creating, NameOf, Opening
<1>d. /\ files' \in [1..MaxPaths -> Nat \cup {-1}]
      /\ \A p \in 1..MaxPaths : files'[p] # files[p] =>
           files'[p] # -1 /\ p = handle[h].path /\ (rows[NameOf(h)] = p => WillGrow(h))
      /\ handle[h].state = "constructed"
  BY OpenedFilesResult
<1> HIDE DEF OpenFile
<1>g. /\ NoDebris' /\ FilesDeleted'
      /\ \A x \in Names : rows[x] # 0 =>
           FileSize(rows[x])' = FileSize(rows[x]) \/ (x = NameOf(h) /\ WillGrow(h))
      /\ \A x \in Names : rows[x] # 0 /\ files'[rows[x]] = -1 => files[rows[x]] = -1
  BY <1>u, <1>d, <1>k, FilesGrow
<1>1. Shapes'
  <2>1. HandlesOK'
    BY <1>h DEF HandlesOK, HandleShape
  <2>2. UsageOK'
    BY <1>u DEF UsageOK
  <2>3. TablesOK'
    BY <1>u, <1>d DEF TablesOK
  <2>4. ExcludeOK'
    BY <1>u DEF ExcludeOK
  <2>5. DeleterOK'
    BY <1>u DEF DeleterOK
  <2> QED BY <2>1, <2>2, <2>3, <2>4, <2>5
<1>2. RowsDiffer'
  BY <1>u DEF RowsDiffer
<1>3. HandlesConsistent'
  BY <1>u, <1>h, <1>f, <1>n, <1>d DEF HandlesConsistent, HandleConsistent, NameOf
<1>4. CreationExcludesDeletion'
  BY <1>u, <1>c DEF CreationExcludesDeletion
<1>5. ProposalsHaveNoRow'
  BY <1>u, <1>h, <1>f DEF ProposalsHaveNoRow, Proposed, NameOf
<1>6. DeletionNoted'
  BY <1>u DEF DeletionNoted
<1>7. FileBeingDeleted'
  BY <1>u, <1>k, FileBeingDeletedKept DEF Shapes
<1>8. FilesDeleted'
  BY <1>g DEF FilesDeleted, Processed, BeingDeleted
<1>9. NoDebris'
  BY <1>g DEF NoDebris
<1>10. CachedIsSum'
  BY <1>u DEF CachedIsSum
<1>11. OriginTracked'
  BY <1>u, <1>h, <1>f, <1>n, <1>d DEF OriginTracked, HandleConsistent, NameOf
<1>12. RowsRecorded'
  <2> SUFFICES ASSUME ~usage'.partial, usage'.tracked, NEW x \in Names, rows[x] # 0
               PROVE  /\ usage'.path[x] = rows[x]
                      /\ \/ x \in usage'.unknown \/ usage'.size[x] = FileSize(rows[x])'
                         \/ Processed(x) \/ overcommitted
    BY <1>u, <1>p DEF RowsRecorded
  <2>1. usage' = usage /\ ~usage.partial /\ usage.tracked
    BY <1>u
  <2>2. /\ usage.path[x] = rows[x]
        /\ \/ x \in usage.unknown \/ usage.size[x] = FileSize(rows[x])
           \/ Processed(x) \/ overcommitted
    BY <2>1 DEF RowsRecorded
  <2>3. CASE x = NameOf(h) /\ WillGrow(h)
    BY <2>1, <2>2, <2>3 DEF GrowingUnknown
  <2>4. CASE FileSize(rows[x])' = FileSize(rows[x])
    BY <2>1, <2>2, <2>4
  <2> QED BY <2>3, <2>4, <1>g
<1>13. GrowingUnknown'
  <2> SUFFICES ASSUME ~usage'.partial, usage'.tracked, ~overcommitted, NEW g \in Handles,
                      (NameOf(g) \in Names /\ WillGrow(g))'
               PROVE  NameOf(g)' \in usage'.unknown \/ Processed(NameOf(g)')
    BY <1>u, <1>p DEF GrowingUnknown
  <2>1. usage' = usage /\ ~usage.partial /\ usage.tracked
    BY <1>u
  <2>2. NameOf(g)' = NameOf(g) /\ WillGrow(g)
    <3>1. CASE g = h
      BY <3>1, <1>u, <1>f, <1>g, <1>n, TrackerAssumption DEF WillGrow, NameOf, Opening, HandleConsistent
    <3>2. CASE g # h
      BY <3>2, <1>u, <1>h, <1>g DEF WillGrow, NameOf
    <3> QED BY <3>1, <3>2
  <2> QED BY <2>1, <2>2 DEF GrowingUnknown
<1> QED BY <1>1, <1>2, <1>3, <1>4, <1>5, <1>6, <1>7, <1>8, <1>9, <1>10, <1>11, <1>12, <1>13

\* The file of a handle cannot be used.
LEMMA OpenFailsStep ==
  ASSUME IInv, NEW h \in Handles, OpenFails(h)
  PROVE  IInv'
<1> USE DEF IInv, Shapes
<1> USE DEF OpenFails
<1>u. UNCHANGED <<quota, rows, lastPath, beingCreated, beingDeleted, originDeleted, deleter, lowered, overcommitted, debris>>
  BY DEF tableVars, excludeVars, historyVars
<1>p. \A x : Processed(x)' <=> Processed(x)
  BY <1>u DEF Processed, BeingDeleted
<1> DEFINE r == NewHandle
<1>h. HandlesOK' /\ handle'[h] = r /\ \A g \in Handles : g # h => handle'[g] = handle[g]
  <2>1. r \in [state: Opening \cup {"new", "open"}, name: Names \cup {NoName},
              requirement: {r.requirement}, path: 0..MaxPaths,
              max: {r.max}, pending: Nat, deleted: BOOLEAN]
    BY TrackerAssumption DEF HandlesOK, HandleShape, Opening, NewHandle
  <2>2. handle' = [handle EXCEPT ![h] = r]
    BY DEF HandlesOK, RemoveOpenDatabase
  <2> HIDE DEF r
  <2> QED BY <2>1, <2>2, SetHandle
<1>f. /\ handle'[h].state = "new" /\ handle'[h].name = NoName /\ handle'[h].path = 0
      /\ handle'[h].max = -1 /\ handle'[h].pending = 0 /\ handle'[h].deleted = FALSE
  BY <1>h DEF HandlesOK, HandleShape, NewHandle
<1> HIDE DEF r
<1>n. HandleConsistent(h)
  BY DEF HandlesConsistent
<1>k. \A g \in Handles : handle'[g].path # 0 =>
        /\ handle'[g].path = handle[g].path
        /\ handle[g].state = "open" => handle'[g].state = "open"
  BY <1>h, <1>f
<1>c. \A x \in Names : Creating(x)' = Creating(x)
  BY <1>h, <1>f, <1>u, TrackerAssumption DEF Creating, NameOf, Opening
<1>d. /\ files' \in [1..MaxPaths -> Nat \cup {-1}]
      /\ \A p \in 1..MaxPaths : files'[p] # files[p] =>
           files'[p] # -1 /\ p = handle[h].path /\ (rows[NameOf(h)] = p => WillGrow(h))
      /\ handle[h].state = "constructed"
  BY OpenedFilesResult
<1>a. /\ openDatabases' = openDatabases \ {h}
      /\ \/ usage' = usage /\ (forgot' <=> forgot)
         \/ /\ usage' = NoRecord /\ openDatabases = {h}
            /\ forgot' \/ \A g \in Handles : g # h =>
                 handle[g].state \notin {"asking", "established", "pathed"}
      /\ forgot => forgot'
  BY DEF RemoveOpenDatabase
<1>b. UsageOK' /\ CachedIsSum' /\ (usage'.tracked \/ usage'.partial => usage' = usage)
  BY <1>a, NoRecordResult DEF UsageOK, CachedIsSum
<1> HIDE DEF OpenFails
<1>g. /\ NoDebris' /\ FilesDeleted'
      /\ \A x \in Names : rows[x] # 0 =>
           FileSize(rows[x])' = FileSize(rows[x]) \/ (x = NameOf(h) /\ WillGrow(h))
      /\ \A x \in Names : rows[x] # 0 /\ files'[rows[x]] = -1 => files[rows[x]] = -1
  BY <1>u, <1>d, <1>k, FilesGrow
<1>1. Shapes'
  <2>1. HandlesOK'
    BY <1>h DEF HandlesOK, HandleShape
  <2>2. UsageOK'
    BY <1>b DEF UsageOK
  <2>3. TablesOK'
    BY <1>u, <1>a, <1>d DEF TablesOK
  <2>4. ExcludeOK'
    BY <1>u DEF ExcludeOK
  <2>5. DeleterOK'
    BY <1>u DEF DeleterOK
  <2> QED BY <2>1, <2>2, <2>3, <2>4, <2>5
<1>2. RowsDiffer'
  BY <1>u DEF RowsDiffer
<1>3. HandlesConsistent'
  BY <1>u, <1>a, <1>h, <1>f, <1>n, TrackerAssumption DEF HandlesConsistent, HandleConsistent, NameOf
<1>4. CreationExcludesDeletion'
  BY <1>u, <1>c DEF CreationExcludesDeletion
<1>5. ProposalsHaveNoRow'
  BY <1>u, <1>h, <1>f, TrackerAssumption DEF ProposalsHaveNoRow, Proposed, NameOf
<1>6. DeletionNoted'
  BY <1>u DEF DeletionNoted
<1>7. FileBeingDeleted'
  BY <1>u, <1>k, FileBeingDeletedKept DEF Shapes
<1>8. FilesDeleted'
  BY <1>g DEF FilesDeleted, Processed, BeingDeleted
<1>9. NoDebris'
  BY <1>g DEF NoDebris
<1>10. CachedIsSum'
  BY <1>b DEF CachedIsSum
<1>11. OriginTracked'
  BY <1>u, <1>a, <1>b, <1>h, <1>f, <1>n, TrackerAssumption DEF OriginTracked, HandleConsistent, NameOf
<1>12. RowsRecorded'
  <2> SUFFICES ASSUME ~usage'.partial, usage'.tracked, NEW x \in Names, rows[x] # 0
               PROVE  /\ usage'.path[x] = rows[x]
                      /\ \/ x \in usage'.unknown \/ usage'.size[x] = FileSize(rows[x])'
                         \/ Processed(x) \/ overcommitted
    BY <1>u, <1>p DEF RowsRecorded
  <2>1. usage' = usage /\ ~usage.partial /\ usage.tracked
    BY <1>a, <1>b, NoRecordResult
  <2>2. /\ usage.path[x] = rows[x]
        /\ \/ x \in usage.unknown \/ usage.size[x] = FileSize(rows[x])
           \/ Processed(x) \/ overcommitted
    BY <2>1 DEF RowsRecorded
  <2>3. CASE x = NameOf(h) /\ WillGrow(h)
    BY <2>1, <2>2, <2>3 DEF GrowingUnknown
  <2>4. CASE FileSize(rows[x])' = FileSize(rows[x])
    BY <2>1, <2>2, <2>4
  <2> QED BY <2>3, <2>4, <1>g
<1>13. GrowingUnknown'
  <2> SUFFICES ASSUME ~usage'.partial, usage'.tracked, ~overcommitted, NEW g \in Handles,
                      (NameOf(g) \in Names /\ WillGrow(g))'
               PROVE  NameOf(g)' \in usage'.unknown \/ Processed(NameOf(g)')
    BY <1>u, <1>p DEF GrowingUnknown
  <2>1. usage' = usage /\ ~usage.partial /\ usage.tracked
    BY <1>a, <1>b, NoRecordResult
  <2>2. NameOf(g)' = NameOf(g) /\ WillGrow(g)
    <3>1. CASE g = h
      BY <3>1, <1>u, <1>f, <1>g, <1>n, TrackerAssumption DEF WillGrow, NameOf, Opening, HandleConsistent
    <3>2. CASE g # h
      BY <3>2, <1>u, <1>h, <1>g DEF WillGrow, NameOf
    <3> QED BY <3>1, <3>2
  <2> QED BY <2>1, <2>2 DEF GrowingUnknown
<1> QED BY <1>1, <1>2, <1>3, <1>4, <1>5, <1>6, <1>7, <1>8, <1>9, <1>10, <1>11, <1>12, <1>13

\* A handle is closed by its owner.
LEMMA CloseStep ==
  ASSUME IInv, NEW h \in Handles, Close(h)
  PROVE  IInv'
<1> USE DEF IInv, Shapes
<1> USE DEF Close
<1>u. UNCHANGED <<quota, rows, lastPath, files, beingCreated, beingDeleted, originDeleted, deleter, lowered, overcommitted, debris>>
  BY DEF tableVars, excludeVars, historyVars
<1>p. \A x : Processed(x)' <=> Processed(x)
  BY <1>u DEF Processed, BeingDeleted
<1> DEFINE r == NewHandle
<1>h. HandlesOK' /\ handle'[h] = r /\ \A g \in Handles : g # h => handle'[g] = handle[g]
  <2>1. r \in [state: Opening \cup {"new", "open"}, name: Names \cup {NoName},
              requirement: {r.requirement}, path: 0..MaxPaths,
              max: {r.max}, pending: Nat, deleted: BOOLEAN]
    BY TrackerAssumption DEF HandlesOK, HandleShape, Opening, NewHandle
  <2>2. handle' = [handle EXCEPT ![h] = r]
    BY DEF HandlesOK, RemoveOpenDatabase
  <2> HIDE DEF r
  <2> QED BY <2>1, <2>2, SetHandle
<1>f. /\ handle'[h].state = "new" /\ handle'[h].name = NoName /\ handle'[h].path = 0
      /\ handle'[h].max = -1 /\ handle'[h].pending = 0 /\ handle'[h].deleted = FALSE
  BY <1>h DEF HandlesOK, HandleShape, NewHandle
<1> HIDE DEF r
<1>n. HandleConsistent(h)
  BY DEF HandlesConsistent
<1>k. \A g \in Handles : handle'[g].path # 0 =>
        /\ handle'[g].path = handle[g].path
        /\ handle[g].state = "open" => handle'[g].state = "open"
  BY <1>h, <1>f
<1>c. \A x \in Names : Creating(x)' = Creating(x)
  BY <1>h, <1>f, <1>u, TrackerAssumption DEF Creating, NameOf, Opening
<1>d. handle[h].state = "open"
  OBVIOUS
<1>s. \A x : FileSize(x)' = FileSize(x)
  BY <1>u DEF FileSize
<1>a. /\ openDatabases' = openDatabases \ {h}
      /\ \/ usage' = usage /\ (forgot' <=> forgot)
         \/ /\ usage' = NoRecord /\ openDatabases = {h}
            /\ forgot' \/ \A g \in Handles : g # h =>
                 handle[g].state \notin {"asking", "established", "pathed"}
      /\ forgot => forgot'
  BY DEF RemoveOpenDatabase
<1>b. UsageOK' /\ CachedIsSum' /\ (usage'.tracked \/ usage'.partial => usage' = usage)
  BY <1>a, NoRecordResult DEF UsageOK, CachedIsSum
<1> HIDE DEF Close
<1>g. \A x \in Names : rows[x] # 0 /\ files'[rows[x]] = -1 => files[rows[x]] = -1
  BY <1>u
<1>1. Shapes'
  <2>1. HandlesOK'
    BY <1>h DEF HandlesOK, HandleShape
  <2>2. UsageOK'
    BY <1>b DEF UsageOK
  <2>3. TablesOK'
    BY <1>u, <1>a, <1>d DEF TablesOK
  <2>4. ExcludeOK'
    BY <1>u DEF ExcludeOK
  <2>5. DeleterOK'
    BY <1>u DEF DeleterOK
  <2> QED BY <2>1, <2>2, <2>3, <2>4, <2>5
<1>2. RowsDiffer'
  BY <1>u DEF RowsDiffer
<1>3. HandlesConsistent'
  BY <1>u, <1>a, <1>h, <1>f, <1>n, TrackerAssumption DEF HandlesConsistent, HandleConsistent, NameOf
<1>4. CreationExcludesDeletion'
  BY <1>u, <1>c DEF CreationExcludesDeletion
<1>5. ProposalsHaveNoRow'
  BY <1>u, <1>h, <1>f, TrackerAssumption DEF ProposalsHaveNoRow, Proposed, NameOf
<1>6. DeletionNoted'
  BY <1>u DEF DeletionNoted
<1>7. FileBeingDeleted'
  BY <1>u, <1>k, FileBeingDeletedKept DEF Shapes
<1>8. FilesDeleted'
  BY <1>u, <1>p, <1>k DEF FilesDeleted
<1>9. NoDebris'
  BY <1>u DEF NoDebris
<1>10. CachedIsSum'
  BY <1>b DEF CachedIsSum
<1>11. OriginTracked'
  BY <1>u, <1>a, <1>b, <1>h, <1>f, <1>n, TrackerAssumption DEF OriginTracked, HandleConsistent, NameOf
<1>12. RowsRecorded'
  BY <1>u, <1>a, <1>b, <1>p, <1>s DEF RowsRecorded
<1>13. GrowingUnknown'
  <2> SUFFICES ASSUME ~usage'.partial, usage'.tracked, ~overcommitted, NEW g \in Handles,
                      (NameOf(g) \in Names /\ WillGrow(g))'
               PROVE  NameOf(g)' \in usage'.unknown \/ Processed(NameOf(g)')
    BY <1>u, <1>p DEF GrowingUnknown
  <2>1. usage' = usage /\ ~usage.partial /\ usage.tracked
    BY <1>a, <1>b, NoRecordResult
  <2>2. NameOf(g)' = NameOf(g) /\ WillGrow(g)
    <3>1. CASE g = h
      BY <3>1, <1>u, <1>f, <1>g, <1>n, TrackerAssumption DEF WillGrow, NameOf, Opening, HandleConsistent
    <3>2. CASE g # h
      BY <3>2, <1>u, <1>h, <1>g DEF WillGrow, NameOf
    <3> QED BY <3>1, <3>2
  <2> QED BY <2>1, <2>2 DEF GrowingUnknown
<1> QED BY <1>1, <1>2, <1>3, <1>4, <1>5, <1>6, <1>7, <1>8, <1>9, <1>10, <1>11, <1>12, <1>13

\* getMaxSizeForDatabase.
LEMMA GetMaxSizeStep ==
  ASSUME IInv, NEW h \in Handles, GetMaxSizeForDatabase(h), usage.tracked
  PROVE  IInv'
<1> USE DEF IInv, Shapes
<1> USE DEF GetMaxSizeForDatabase
<1>u. UNCHANGED <<quota, rows, lastPath, files, beingCreated, beingDeleted, originDeleted, openDatabases, deleter, lowered, forgot, debris>>
  BY DEF tableVars, excludeVars, historyVars
<1>p. \A x : Processed(x)' <=> Processed(x)
  BY <1>u DEF Processed, BeingDeleted
<1>s. \A x : FileSize(x)' = FileSize(x)
  BY <1>u DEF FileSize
<1>q. usage' = UsageForOriginNoLock
  BY DEF UsageForOriginNoLock
<1>t. handle[h].state = "open" /\ ~handle[h].deleted
  OBVIOUS
<1>o. (overcommitted => overcommitted') /\ (Overcommits(h) => overcommitted')
  OBVIOUS
<1> DEFINE r == [handle[h] EXCEPT !.max = MaxSize(h)]
<1>h. HandlesOK' /\ handle'[h] = r /\ \A g \in Handles : g # h => handle'[g] = handle[g]
  <2>1. r \in [state: Opening \cup {"new", "open"}, name: Names \cup {NoName},
              requirement: {r.requirement}, path: 0..MaxPaths,
              max: {r.max}, pending: Nat, deleted: BOOLEAN]
    BY DEF HandlesOK, HandleShape, Opening
  <2>2. handle' = [handle EXCEPT ![h] = r]
    BY DEF HandlesOK
  <2> HIDE DEF r
  <2> QED BY <2>1, <2>2, SetHandle, ZenonT(60)
<1>f. /\ handle'[h].state = handle[h].state /\ handle'[h].name = handle[h].name /\ handle'[h].path = handle[h].path
      /\ handle'[h].max = MaxSize(h) /\ handle'[h].pending = handle[h].pending /\ handle'[h].deleted = handle[h].deleted
  BY <1>h DEF HandlesOK, HandleShape
<1> HIDE DEF r
<1> HIDE DEF GetMaxSizeForDatabase
<1>m. /\ UsageOK' /\ CachedIsSum' /\ usage'.tracked /\ usage'.unknown = {}
      /\ usage'.partial <=> usage.tracked /\ usage.partial
      /\ ~usage'.partial => \A x \in Names : rows[x] # 0 =>
           /\ usage'.path[x] = rows[x]
           /\ usage'.size[x] = FileSize(rows[x]) \/ Processed(x) \/ overcommitted
  BY <1>q, UsageResult DEF UsageOK, CachedIsSum
<1>n. HandleConsistent(h)
  BY DEF HandlesConsistent
<1>k. \A g \in Handles : handle'[g].path # 0 =>
        /\ handle'[g].path = handle[g].path
        /\ handle[g].state = "open" => handle'[g].state = "open"
  BY <1>h, <1>f
<1>c. \A x \in Names : Creating(x)' = Creating(x)
  BY <1>h, <1>f, <1>u DEF Creating, NameOf, Opening
<1>1. Shapes'
  <2>1. HandlesOK'
    BY <1>h DEF HandlesOK, HandleShape
  <2>2. UsageOK'
    BY <1>m DEF UsageOK
  <2>3. TablesOK'
    BY <1>u DEF TablesOK
  <2>4. ExcludeOK'
    BY <1>u DEF ExcludeOK
  <2>5. DeleterOK'
    BY <1>u DEF DeleterOK
  <2> QED BY <2>1, <2>2, <2>3, <2>4, <2>5
<1>2. RowsDiffer'
  BY <1>u DEF RowsDiffer
<1>3. HandlesConsistent'
  BY <1>u, <1>h, <1>f, <1>n, <1>t DEF HandlesConsistent, HandleConsistent, NameOf
<1>4. CreationExcludesDeletion'
  BY <1>u, <1>c DEF CreationExcludesDeletion
<1>5. ProposalsHaveNoRow'
  BY <1>u, <1>h, <1>f DEF ProposalsHaveNoRow, Proposed, NameOf
<1>6. DeletionNoted'
  BY <1>u DEF DeletionNoted
<1>7. FileBeingDeleted'
  BY <1>u, <1>k, FileBeingDeletedKept DEF Shapes
<1>8. FilesDeleted'
  BY <1>u, <1>p, <1>k DEF FilesDeleted
<1>9. NoDebris'
  BY <1>u DEF NoDebris
<1>10. CachedIsSum'
  BY <1>m DEF CachedIsSum
<1>11. OriginTracked'
  BY <1>u, <1>m DEF OriginTracked, NameOf
<1>12. RowsRecorded'
  BY <1>u, <1>m, <1>p, <1>s, <1>o DEF RowsRecorded
<1>13. GrowingUnknown'
  <2> SUFFICES ASSUME ~overcommitted', NEW g \in Handles, (NameOf(g) \in Names /\ WillGrow(g))'
               PROVE  FALSE
    BY DEF GrowingUnknown
  <2>1. WillGrow(g)
    BY <1>u, <1>h, <1>f DEF WillGrow, NameOf
  <2>2. CASE g = h
    BY <2>1, <2>2, <1>o, <1>t DEF WillGrow, Overcommits, Opening
  <2>3. CASE g # h
    BY <2>1, <2>3, <1>o, WillMayGrow DEF Overcommits
  <2> QED BY <2>2, <2>3
<1> QED BY <1>1, <1>2, <1>3, <1>4, <1>5, <1>6, <1>7, <1>8, <1>9, <1>10, <1>11, <1>12, <1>13

\* A database that is marked has no known size.
LEMMA MarkDatabaseResult ==
  ASSUME NEW record, NEW n \in Names,
         record \in [tracked: BOOLEAN, partial: BOOLEAN, path: [Names -> -1..MaxPaths], size: [Names -> Nat],
                     unknown: SUBSET Names, cached: {record.cached}]
  PROVE  LET r == MarkDatabase(record, n)
         IN  /\ r \in [tracked: BOOLEAN, partial: BOOLEAN, path: [Names -> -1..MaxPaths], size: [Names -> Nat],
                       unknown: SUBSET Names, cached: {r.cached}]
             /\ r.tracked = record.tracked /\ r.partial = record.partial /\ r.cached = -1 /\ r.unknown = record.unknown \cup {n}
             /\ r.path = record.path /\ r.size = [record.size EXCEPT ![n] = 0]
<1> DEFINE r == MarkDatabase(record, n)
<1>1. /\ r.tracked = record.tracked /\ r.partial = record.partial /\ r.cached = -1 /\ r.unknown = record.unknown \cup {n}
      /\ r.path = record.path /\ r.size = [record.size EXCEPT ![n] = 0]
  BY DEF MarkDatabase
<1>2. r.size \in [Names -> Nat]
  BY <1>1
<1>3. r \in [tracked: BOOLEAN, partial: BOOLEAN, path: [Names -> -1..MaxPaths], size: [Names -> Nat],
             unknown: SUBSET Names, cached: {r.cached}]
  BY <1>1, <1>2 DEF MarkDatabase
<1> QED BY <1>1, <1>3

\* A database that is removed is no longer recorded.
LEMMA RemoveDatabaseResult ==
  ASSUME NEW record, NEW n \in Names, record.tracked,
         record \in [tracked: BOOLEAN, partial: BOOLEAN, path: [Names -> -1..MaxPaths], size: [Names -> Nat],
                     unknown: SUBSET Names, cached: {record.cached}]
  PROVE  LET r == RemoveDatabase(record, n)
         IN  /\ r \in [tracked: BOOLEAN, partial: BOOLEAN, path: [Names -> -1..MaxPaths], size: [Names -> Nat],
                       unknown: SUBSET Names, cached: {r.cached}]
             /\ r.tracked = record.tracked /\ r.partial = record.partial /\ r.cached = -1 /\ r.unknown = record.unknown \ {n}
             /\ r.path = [record.path EXCEPT ![n] = -1] /\ r.size = [record.size EXCEPT ![n] = 0]
<1> DEFINE r == RemoveDatabase(record, n)
<1>1. /\ r.tracked = record.tracked /\ r.partial = record.partial /\ r.cached = -1 /\ r.unknown = record.unknown \ {n}
      /\ r.path = [record.path EXCEPT ![n] = -1] /\ r.size = [record.size EXCEPT ![n] = 0]
  BY DEF RemoveDatabase
<1>2. r.path \in [Names -> -1..MaxPaths] /\ r.size \in [Names -> Nat]
  BY <1>1, TrackerAssumption
<1>3. r \in [tracked: BOOLEAN, partial: BOOLEAN, path: [Names -> -1..MaxPaths], size: [Names -> Nat],
             unknown: SUBSET Names, cached: {r.cached}]
  BY <1>1, <1>2 DEF RemoveDatabase
<1> QED BY <1>1, <1>3

\* A statement needs a new page.
LEMMA ExecuteStatementStep ==
  ASSUME IInv, NEW h \in Handles, ExecuteStatement(h), usage.tracked
  PROVE  IInv'
<1> USE DEF IInv, Shapes
<1> USE DEF ExecuteStatement
<1>u. UNCHANGED <<quota, rows, lastPath, files, beingCreated, beingDeleted, originDeleted, openDatabases, deleter, lowered, overcommitted, forgot, debris>>
  BY DEF tableVars, excludeVars, historyVars
<1>p. \A x : Processed(x)' <=> Processed(x)
  BY <1>u DEF Processed, BeingDeleted
<1>s. \A x : FileSize(x)' = FileSize(x)
  BY <1>u DEF FileSize
<1>t. /\ handle[h].state = "open" /\ handle[h].max # -1 /\ usage' = MarkDatabase(usage, NameOf(h))
      /\ handle' = [handle EXCEPT ![h].pending = @ + 1]
  OBVIOUS
<1> HIDE DEF ExecuteStatement
<1> DEFINE r == [handle[h] EXCEPT !.pending = @ + 1]
<1>h. HandlesOK' /\ handle'[h] = r /\ \A g \in Handles : g # h => handle'[g] = handle[g]
  <2>1. r \in [state: Opening \cup {"new", "open"}, name: Names \cup {NoName},
              requirement: {r.requirement}, path: 0..MaxPaths,
              max: {r.max}, pending: Nat, deleted: BOOLEAN]
    BY DEF HandlesOK, HandleShape, Opening
  <2>2. handle' = [handle EXCEPT ![h] = r]
    BY <1>t DEF HandlesOK
  <2> HIDE DEF r
  <2> QED BY <2>1, <2>2, SetHandle
<1>f. /\ handle'[h].state = handle[h].state /\ handle'[h].name = handle[h].name /\ handle'[h].path = handle[h].path
      /\ handle'[h].max = handle[h].max /\ handle'[h].pending = handle[h].pending + 1 /\ handle'[h].deleted = handle[h].deleted
  BY <1>h DEF HandlesOK, HandleShape
<1> HIDE DEF r
<1>n. HandleConsistent(h)
  BY DEF HandlesConsistent
<1>m. /\ UsageOK' /\ CachedIsSum' /\ usage'.tracked = usage.tracked /\ usage'.partial = usage.partial
      /\ NameOf(h) \in usage'.unknown /\ usage.unknown \subseteq usage'.unknown
      /\ usage'.path = usage.path
      /\ \A x \in Names : x # NameOf(h) => usage'.size[x] = usage.size[x]
  <2>1. usage \in [tracked: BOOLEAN, partial: BOOLEAN, path: [Names -> -1..MaxPaths], size: [Names -> Nat],
                   unknown: SUBSET Names, cached: {usage.cached}]
    BY DEF UsageOK
  <2>2. NameOf(h) \in Names
    BY <1>n, <1>t DEF HandleConsistent
  <2> DEFINE new == MarkDatabase(usage, NameOf(h))
  <2>3. /\ new \in [tracked: BOOLEAN, partial: BOOLEAN, path: [Names -> -1..MaxPaths], size: [Names -> Nat],
                    unknown: SUBSET Names, cached: {new.cached}]
        /\ new.tracked = usage.tracked /\ new.partial = usage.partial /\ new.cached = -1
        /\ new.unknown = usage.unknown \cup {NameOf(h)}
        /\ new.path = usage.path /\ new.size = [usage.size EXCEPT ![NameOf(h)] = 0]
    BY ONLY <2>1, <2>2, MarkDatabaseResult
  <2>4. usage' = new
    BY <1>t
  <2> HIDE DEF new
  <2> QED BY <2>1, <2>2, <2>3, <2>4 DEF UsageOK, CachedIsSum
<1>k. \A g \in Handles : handle'[g].path # 0 =>
        /\ handle'[g].path = handle[g].path
        /\ handle[g].state = "open" => handle'[g].state = "open"
  BY <1>h, <1>f
<1>c. \A x \in Names : Creating(x)' = Creating(x)
  BY <1>h, <1>f, <1>u DEF Creating, NameOf, Opening
<1>1. Shapes'
  <2>1. HandlesOK'
    BY <1>h DEF HandlesOK, HandleShape
  <2>2. UsageOK'
    BY <1>m DEF UsageOK
  <2>3. TablesOK'
    BY <1>u DEF TablesOK
  <2>4. ExcludeOK'
    BY <1>u DEF ExcludeOK
  <2>5. DeleterOK'
    BY <1>u DEF DeleterOK
  <2> QED BY <2>1, <2>2, <2>3, <2>4, <2>5
<1>2. RowsDiffer'
  BY <1>u DEF RowsDiffer
<1>3. HandlesConsistent'
  BY <1>u, <1>h, <1>f, <1>n, <1>t DEF HandlesConsistent, HandleConsistent, NameOf
<1>4. CreationExcludesDeletion'
  BY <1>u, <1>c DEF CreationExcludesDeletion
<1>5. ProposalsHaveNoRow'
  BY <1>u, <1>h, <1>f DEF ProposalsHaveNoRow, Proposed, NameOf
<1>6. DeletionNoted'
  BY <1>u DEF DeletionNoted
<1>7. FileBeingDeleted'
  BY <1>u, <1>k, FileBeingDeletedKept DEF Shapes
<1>8. FilesDeleted'
  BY <1>u, <1>p, <1>k DEF FilesDeleted
<1>9. NoDebris'
  BY <1>u DEF NoDebris
<1>10. CachedIsSum'
  BY <1>m DEF CachedIsSum
<1>11. OriginTracked'
  BY <1>u, <1>m, <1>h, <1>f DEF OriginTracked, NameOf
<1>12. RowsRecorded'
  BY <1>u, <1>m, <1>p, <1>s DEF RowsRecorded
<1>13. GrowingUnknown'
  <2> SUFFICES ASSUME ~usage.partial, usage.tracked, ~overcommitted, NEW g \in Handles,
                      (NameOf(g) \in Names /\ WillGrow(g))'
               PROVE  NameOf(g)' \in usage'.unknown \/ Processed(NameOf(g)')
    BY <1>u, <1>p, <1>m DEF GrowingUnknown
  <2>1. NameOf(g)' = NameOf(g)
    BY <1>h, <1>f DEF NameOf
  <2>2. CASE g = h
    BY <2>1, <2>2, <1>m
  <2>3. CASE g # h
    <3>1. WillGrow(g)
      BY <2>3, <1>u, <1>h DEF WillGrow, NameOf
    <3> QED BY <2>1, <3>1, <1>m DEF GrowingUnknown
  <2> QED BY <2>2, <2>3
<1> QED BY <1>1, <1>2, <1>3, <1>4, <1>5, <1>6, <1>7, <1>8, <1>9, <1>10, <1>11, <1>12, <1>13

\* A transaction commits or rolls back.
LEMMA EndTransactionStep ==
  ASSUME IInv, NEW h \in Handles, EndTransaction(h)
  PROVE  IInv'
<1> USE DEF IInv, Shapes
<1> USE DEF EndTransaction
<1>u. UNCHANGED <<quota, rows, lastPath, usage, beingCreated, beingDeleted, originDeleted, openDatabases, deleter, lowered, overcommitted, forgot, debris>>
  BY DEF tableVars, excludeVars, historyVars
<1>p. \A x : Processed(x)' <=> Processed(x)
  BY <1>u DEF Processed, BeingDeleted
<1>t. /\ handle[h].max # -1 /\ handle' = [handle EXCEPT ![h].max = -1, ![h].pending = 0]
      /\ \/ files' = files
         \/ /\ handle[h].path # 0 /\ files[handle[h].path] # -1
            /\ files' = [files EXCEPT ![handle[h].path] = @ + handle[h].pending]
  OBVIOUS
<1> HIDE DEF EndTransaction
<1> DEFINE r == [handle[h] EXCEPT !.max = -1, !.pending = 0]
<1>h. HandlesOK' /\ handle'[h] = r /\ \A g \in Handles : g # h => handle'[g] = handle[g]
  <2>1. r \in [state: Opening \cup {"new", "open"}, name: Names \cup {NoName},
              requirement: {r.requirement}, path: 0..MaxPaths,
              max: {r.max}, pending: Nat, deleted: BOOLEAN]
    <3>1. HandleShape(h) /\ 0 \in Nat
      BY DEF HandlesOK
    <3> HIDE DEF IInv, Shapes
    <3>2. \A x \in [state: Opening \cup {"new", "open"}, name: Names \cup {NoName},
                     requirement: {handle[h].requirement}, path: 0..MaxPaths,
                     max: {handle[h].max}, pending: Nat, deleted: BOOLEAN] :
            [x EXCEPT !.max = -1, !.pending = 0] \in
              [state: Opening \cup {"new", "open"}, name: Names \cup {NoName},
               requirement: {handle[h].requirement}, path: 0..MaxPaths,
               max: {-1}, pending: Nat, deleted: BOOLEAN]
      OBVIOUS
    <3>3. r.requirement = handle[h].requirement /\ r.max = -1
      BY <3>1 DEF HandleShape
    <3> QED BY <3>1, <3>2, <3>3, Zenon DEF HandleShape
  <2>2. handle' = [handle EXCEPT ![h] = r]
    BY <1>t DEF HandlesOK
  <2> HIDE DEF r
  <2> QED BY <2>1, <2>2, SetHandle
<1>f. /\ handle'[h].state = handle[h].state /\ handle'[h].name = handle[h].name /\ handle'[h].path = handle[h].path
      /\ handle'[h].max = -1 /\ handle'[h].pending = 0 /\ handle'[h].deleted = handle[h].deleted
  BY <1>h DEF HandlesOK, HandleShape
<1> HIDE DEF r
<1>n. HandleConsistent(h)
  BY DEF HandlesConsistent
<1>k. \A g \in Handles : handle'[g].path # 0 =>
        /\ handle'[g].path = handle[g].path
        /\ handle[g].state = "open" => handle'[g].state = "open"
  BY <1>h, <1>f
<1>c. \A x \in Names : Creating(x)' = Creating(x)
  BY <1>h, <1>f, <1>u DEF Creating, NameOf, Opening
<1>d. /\ files' \in [1..MaxPaths -> Nat \cup {-1}]
      /\ \A p \in 1..MaxPaths : files'[p] # files[p] =>
           files'[p] # -1 /\ p = handle[h].path /\ (rows[NameOf(h)] = p => WillGrow(h))
  <2>1. /\ files \in [1..MaxPaths -> Nat \cup {-1}] /\ handle[h].path \in 0..MaxPaths
        /\ MaxPaths \in Nat /\ handle[h].pending \in Nat
    BY TrackerAssumption DEF TablesOK, HandlesOK, HandleShape
  <2> QED BY <2>1, <1>t, SMTT(30) DEF WillGrow
<1>g. /\ NoDebris' /\ FilesDeleted'
      /\ \A x \in Names : rows[x] # 0 =>
           FileSize(rows[x])' = FileSize(rows[x]) \/ (x = NameOf(h) /\ WillGrow(h))
      /\ \A x \in Names : rows[x] # 0 /\ files'[rows[x]] = -1 => files[rows[x]] = -1
  BY <1>u, <1>d, <1>k, FilesGrow
<1>1. Shapes'
  <2>1. HandlesOK'
    BY <1>h DEF HandlesOK, HandleShape
  <2>2. UsageOK'
    BY <1>u DEF UsageOK
  <2>3. TablesOK'
    BY <1>u, <1>d DEF TablesOK
  <2>4. ExcludeOK'
    BY <1>u DEF ExcludeOK
  <2>5. DeleterOK'
    BY <1>u DEF DeleterOK
  <2> QED BY <2>1, <2>2, <2>3, <2>4, <2>5
<1>2. RowsDiffer'
  BY <1>u DEF RowsDiffer
<1>3. HandlesConsistent'
  BY <1>u, <1>h, <1>f, <1>n DEF HandlesConsistent, HandleConsistent, NameOf
<1>4. CreationExcludesDeletion'
  BY <1>u, <1>c DEF CreationExcludesDeletion
<1>5. ProposalsHaveNoRow'
  BY <1>u, <1>h, <1>f DEF ProposalsHaveNoRow, Proposed, NameOf
<1>6. DeletionNoted'
  BY <1>u DEF DeletionNoted
<1>7. FileBeingDeleted'
  BY <1>u, <1>k, FileBeingDeletedKept DEF Shapes
<1>8. FilesDeleted'
  BY <1>g DEF FilesDeleted, Processed, BeingDeleted
<1>9. NoDebris'
  BY <1>g DEF NoDebris
<1>10. CachedIsSum'
  BY <1>u DEF CachedIsSum
<1>11. OriginTracked'
  BY <1>u, <1>h, <1>f DEF OriginTracked, NameOf
<1>12. RowsRecorded'
  <2> SUFFICES ASSUME ~usage'.partial, usage'.tracked, NEW x \in Names, rows[x] # 0
               PROVE  /\ usage'.path[x] = rows[x]
                      /\ \/ x \in usage'.unknown \/ usage'.size[x] = FileSize(rows[x])'
                         \/ Processed(x) \/ overcommitted
    BY <1>u, <1>p DEF RowsRecorded
  <2>1. usage' = usage /\ ~usage.partial /\ usage.tracked
    BY <1>u
  <2>2. /\ usage.path[x] = rows[x]
        /\ \/ x \in usage.unknown \/ usage.size[x] = FileSize(rows[x])
           \/ Processed(x) \/ overcommitted
    BY <2>1 DEF RowsRecorded
  <2>3. CASE x = NameOf(h) /\ WillGrow(h)
    BY <2>1, <2>2, <2>3 DEF GrowingUnknown
  <2>4. CASE FileSize(rows[x])' = FileSize(rows[x])
    BY <2>1, <2>2, <2>4
  <2> QED BY <2>3, <2>4, <1>g
<1>13. GrowingUnknown'
  <2> SUFFICES ASSUME ~usage'.partial, usage'.tracked, ~overcommitted, NEW g \in Handles,
                      (NameOf(g) \in Names /\ WillGrow(g))'
               PROVE  NameOf(g)' \in usage'.unknown \/ Processed(NameOf(g)')
    BY <1>u, <1>p DEF GrowingUnknown
  <2>1. usage' = usage /\ ~usage.partial /\ usage.tracked
    BY <1>u
  <2>2. NameOf(g)' = NameOf(g) /\ WillGrow(g)
    <3>1. CASE g = h
      BY <3>1, <1>u, <1>f, <1>g, <1>n, TrackerAssumption DEF WillGrow, NameOf, Opening, HandleConsistent
    <3>2. CASE g # h
      BY <3>2, <1>u, <1>h, <1>g DEF WillGrow, NameOf
    <3> QED BY <3>1, <3>2
  <2> QED BY <2>1, <2>2 DEF GrowingUnknown
<1> QED BY <1>1, <1>2, <1>3, <1>4, <1>5, <1>6, <1>7, <1>8, <1>9, <1>10, <1>11, <1>12, <1>13

\* No deletion is a state of the deleter.
LEMMA NoDeletionOK ==
  NoDeletion \in [at: {"idle", "lookup", "collect", "close"}, origin: BOOLEAN, names: SUBSET Names,
                  name: Names \cup {NoName}, path: 0..MaxPaths, closing: SUBSET Handles]
<1>1. 0 \in 0..MaxPaths
  BY TrackerAssumption
<1> QED BY <1>1 DEF NoDeletion

\* deleteDatabase begins.
LEMMA DeleteDatabaseStep ==
  ASSUME IInv, NEW n \in Names, DeleteDatabase(n)
  PROVE  IInv'
<1> USE DEF IInv, Shapes
<1>a. /\ deleter.at = "idle" /\ beingCreated[n] = 0 /\ beingDeleted' = beingDeleted \cup {n}
      /\ deleter'.at = "lookup" /\ deleter'.origin = FALSE /\ deleter'.names = {n}
  BY DEF DeleteDatabase, NoDeletion
<1>u. UNCHANGED <<quota, rows, lastPath, files, usage, beingCreated, originDeleted, openDatabases, handle, lowered, overcommitted, forgot, debris>>
  BY DEF tableVars, excludeVars, historyVars, DeleteDatabase
<1>d. beingDeleted = {} /\ ~originDeleted /\ beingDeleted' = {n}
  BY <1>a DEF DeletionNoted
<1>p. \A x : ~Processed(x) /\ ~Processed(x)'
  BY <1>a, <1>d, <1>u DEF Processed, BeingDeleted
<1>s. \A x : FileSize(x)' = FileSize(x)
  BY <1>u DEF FileSize
<1>w. \A g \in Handles : WillGrow(g)' <=> WillGrow(g)
  BY <1>u DEF WillGrow, NameOf
<1>c. \A x : Creating(x)' = Creating(x)
  BY <1>u DEF Creating, NameOf
<1>1. Shapes'
  <2>1. HandlesOK'
    BY <1>u DEF HandlesOK, HandleShape
  <2>2. UsageOK'
    BY <1>u DEF UsageOK
  <2>3. TablesOK'
    BY <1>u DEF TablesOK
  <2>4. ExcludeOK'
    BY <1>u, <1>d DEF ExcludeOK
  <2>5. DeleterOK'
    BY NoDeletionOK DEF DeleteDatabase, DeleterOK
  <2> QED BY <2>1, <2>2, <2>3, <2>4, <2>5
<1>2. RowsDiffer'
  BY <1>u DEF RowsDiffer
<1>3. HandlesConsistent'
  BY <1>u DEF HandlesConsistent, HandleConsistent, NameOf
<1>4. CreationExcludesDeletion'
  BY <1>u, <1>a, <1>c, <1>d DEF CreationExcludesDeletion
<1>5. ProposalsHaveNoRow'
  BY <1>u DEF ProposalsHaveNoRow, Proposed, NameOf
<1>6. DeletionNoted'
  BY <1>a, <1>d, <1>u DEF DeletionNoted
<1>7. FileBeingDeleted'
  BY <1>a DEF FileBeingDeleted, BeingDeleted
<1>8. FilesDeleted'
  BY <1>p DEF FilesDeleted
<1>9. NoDebris'
  BY <1>u DEF NoDebris
<1>10. CachedIsSum'
  BY <1>u DEF CachedIsSum
<1>11. OriginTracked'
  BY <1>u DEF OriginTracked, NameOf
<1>12. RowsRecorded'
  <2> SUFFICES ASSUME ~usage.partial, usage.tracked, NEW x \in Names, rows[x] # 0
               PROVE  /\ usage.path[x] = rows[x]
                      /\ \/ x \in usage.unknown \/ usage.size[x] = FileSize(rows[x])
                         \/ Processed(x)' \/ overcommitted
    BY <1>u, <1>s DEF RowsRecorded
  <2> QED BY <1>p DEF RowsRecorded
<1>13. GrowingUnknown'
  <2> SUFFICES ASSUME ~usage.partial, usage.tracked, ~overcommitted, NEW g \in Handles,
                      NameOf(g) \in Names, WillGrow(g)
               PROVE  NameOf(g) \in usage.unknown \/ Processed(NameOf(g))'
    BY <1>u, <1>w DEF GrowingUnknown, NameOf
  <2> QED BY <1>p, <1>w, <1>u DEF GrowingUnknown, NameOf
<1> QED BY <1>1, <1>2, <1>3, <1>4, <1>5, <1>6, <1>7, <1>8, <1>9, <1>10, <1>11, <1>12, <1>13

\* deleteOrigin begins.
LEMMA DeleteOriginStep ==
  ASSUME IInv, DeleteOrigin
  PROVE  IInv'
<1> USE DEF IInv, Shapes
<1>a. /\ deleter.at = "idle" /\ (\A n \in Names : beingCreated[n] = 0) /\ originDeleted' = TRUE
      /\ deleter'.at = "lookup" /\ deleter'.origin = TRUE /\ deleter'.names = {n \in Names : rows[n] # 0}
  BY DEF DeleteOrigin, NoDeletion
<1>u. UNCHANGED <<quota, rows, lastPath, files, usage, beingCreated, beingDeleted, openDatabases, handle, lowered, overcommitted, forgot, debris>>
  BY DEF tableVars, excludeVars, historyVars, DeleteOrigin
<1>d. beingDeleted = {}
  BY <1>a DEF DeletionNoted
<1>p. /\ \A x : ~Processed(x)
      /\ \A x \in Names : Processed(x)' => rows[x] = 0
  BY <1>a DEF Processed
<1>s. \A x : FileSize(x)' = FileSize(x)
  BY <1>u DEF FileSize
<1>w. \A g \in Handles : WillGrow(g)' <=> WillGrow(g)
  BY <1>u DEF WillGrow, NameOf
<1>c. \A x : Creating(x)' = Creating(x)
  BY <1>u DEF Creating, NameOf
<1>1. Shapes'
  <2>1. HandlesOK'
    BY <1>u DEF HandlesOK, HandleShape
  <2>2. UsageOK'
    BY <1>u DEF UsageOK
  <2>3. TablesOK'
    BY <1>u DEF TablesOK
  <2>4. ExcludeOK'
    BY <1>u, <1>a DEF ExcludeOK
  <2>5. DeleterOK'
    BY NoDeletionOK DEF DeleteOrigin, DeleterOK
  <2> QED BY <2>1, <2>2, <2>3, <2>4, <2>5
<1>2. RowsDiffer'
  BY <1>u DEF RowsDiffer
<1>3. HandlesConsistent'
  BY <1>u DEF HandlesConsistent, HandleConsistent, NameOf
<1>4. CreationExcludesDeletion'
  BY <1>u, <1>a, <1>c DEF CreationExcludesDeletion
<1>5. ProposalsHaveNoRow'
  BY <1>u DEF ProposalsHaveNoRow, Proposed, NameOf
<1>6. DeletionNoted'
  BY <1>a, <1>d, <1>u DEF DeletionNoted
<1>7. FileBeingDeleted'
  BY <1>a DEF FileBeingDeleted, BeingDeleted
<1>8. FilesDeleted'
  BY <1>p, <1>u DEF FilesDeleted
<1>9. NoDebris'
  BY <1>u DEF NoDebris
<1>10. CachedIsSum'
  BY <1>u DEF CachedIsSum
<1>11. OriginTracked'
  BY <1>u DEF OriginTracked, NameOf
<1>12. RowsRecorded'
  <2> SUFFICES ASSUME ~usage.partial, usage.tracked, NEW x \in Names, rows[x] # 0
               PROVE  /\ usage.path[x] = rows[x]
                      /\ \/ x \in usage.unknown \/ usage.size[x] = FileSize(rows[x])
                         \/ Processed(x)' \/ overcommitted
    BY <1>u, <1>s DEF RowsRecorded
  <2> QED BY <1>p DEF RowsRecorded
<1>13. GrowingUnknown'
  <2> SUFFICES ASSUME ~usage.partial, usage.tracked, ~overcommitted, NEW g \in Handles,
                      NameOf(g) \in Names, WillGrow(g)
               PROVE  NameOf(g) \in usage.unknown \/ Processed(NameOf(g))'
    BY <1>u, <1>w DEF GrowingUnknown, NameOf
  <2> QED BY <1>p, <1>w, <1>u DEF GrowingUnknown, NameOf
<1> QED BY <1>1, <1>2, <1>3, <1>4, <1>5, <1>6, <1>7, <1>8, <1>9, <1>10, <1>11, <1>12, <1>13

\* The deletion of the next name begins.
LEMMA LookUpPathStep ==
  ASSUME IInv, NEW n \in Names, LookUpPath(n)
  PROVE  IInv'
<1> USE DEF IInv, Shapes
<1> DEFINE escapes(h) == handle[h].path = PathOf(n) /\ (h \in SyncHandles \/ handle[h].state = "constructed")
<1>a. /\ deleter.at = "lookup" /\ n \in deleter.names
      /\ deleter' = [deleter EXCEPT !.names = @ \ {n}, !.name = n, !.path = PathOf(n),
                                    !.at = IF PathOf(n) = 0 THEN "lookup" ELSE "collect"]
      /\ debris' = IF PathOf(n) # 0 /\ (\E h \in Handles : escapes(h)) THEN debris \cup {PathOf(n)}
                   ELSE debris
  BY DEF LookUpPath
<1>u. UNCHANGED <<quota, rows, lastPath, files, usage, beingCreated, beingDeleted, originDeleted, openDatabases, handle, lowered, overcommitted, forgot>>
  BY DEF tableVars, excludeVars, historyVars, LookUpPath
<1>b. /\ deleter'.names = deleter.names \ {n} /\ deleter'.name = n /\ deleter'.path = PathOf(n)
      /\ deleter'.at = (IF PathOf(n) = 0 THEN "lookup" ELSE "collect")
      /\ deleter'.origin = deleter.origin /\ deleter'.closing = deleter.closing
  BY <1>a DEF DeleterOK
<1>d. BeingDeleted(n)
  BY <1>a DEF DeletionNoted, BeingDeleted
<1>e. \A h \in Handles : NameOf(h) = n => handle[h].state \notin Opening \ {"constructed"}
  BY <1>d, NotDeleted
<1>i. PathOf(n) = rows[n] /\ rows[n] \in 0..MaxPaths
  BY <1>e DEF PathOf, Proposed, Opening, TablesOK
<1>j. debris \subseteq debris' /\ (\A h \in Handles : rows[n] # 0 /\ escapes(h) => rows[n] \in debris')
  BY <1>a, <1>i
<1>k. \A h \in Handles : rows[n] # 0 /\ handle[h].path = rows[n] /\ rows[n] \notin debris' =>
        handle[h].state = "open" /\ h \notin SyncHandles
  <2> SUFFICES ASSUME NEW h \in Handles, rows[n] # 0, handle[h].path = rows[n], rows[n] \notin debris'
               PROVE  handle[h].state = "open" /\ h \notin SyncHandles
    OBVIOUS
  <2>1. ~escapes(h)
    BY <1>j
  <2>2. NameOf(h) = n /\ handle[h].state \notin {"new", "asking", "established"}
    BY DEF HandlesConsistent, HandleConsistent
  <2>3. handle[h].state \in Opening \cup {"new", "open"}
    BY DEF HandlesOK, HandleShape
  <2> QED BY <2>1, <2>2, <2>3, <1>e, <1>i DEF Opening
<1> HIDE DEF escapes
<1>q. \A x : BeingDeleted(x)' <=> BeingDeleted(x)
  BY <1>u DEF BeingDeleted
<1>p. /\ \A x : x # n => (Processed(x)' <=> Processed(x))
      /\ ~Processed(n) /\ (Processed(n)' => rows[n] = 0)
  BY <1>a, <1>b, <1>d, <1>i, <1>q DEF Processed
<1>s. \A x : FileSize(x)' = FileSize(x)
  BY <1>u DEF FileSize
<1>w. \A g \in Handles : WillGrow(g)' <=> WillGrow(g)
  BY <1>u DEF WillGrow, NameOf
<1>c. \A x : Creating(x)' = Creating(x)
  BY <1>u DEF Creating, NameOf
<1>1. Shapes'
  <2>1. HandlesOK'
    BY <1>u DEF HandlesOK, HandleShape
  <2>2. UsageOK'
    BY <1>u DEF UsageOK
  <2>3. TablesOK'
    BY <1>u DEF TablesOK
  <2>4. ExcludeOK'
    BY <1>u DEF ExcludeOK
  <2>5. DeleterOK'
    BY <1>a, <1>i DEF DeleterOK
  <2> QED BY <2>1, <2>2, <2>3, <2>4, <2>5
<1>2. RowsDiffer'
  BY <1>u DEF RowsDiffer
<1>3. HandlesConsistent'
  BY <1>u, <1>j DEF HandlesConsistent, HandleConsistent, NameOf
<1>4. CreationExcludesDeletion'
  BY <1>u DEF CreationExcludesDeletion, Creating, NameOf
<1>5. ProposalsHaveNoRow'
  BY <1>u DEF ProposalsHaveNoRow, Proposed, NameOf
<1>6. DeletionNoted'
  BY <1>a, <1>b, <1>u, <1>d DEF DeletionNoted, BeingDeleted
<1>7. FileBeingDeleted'
  BY <1>b, <1>d, <1>i, <1>k, <1>q, <1>u DEF FileBeingDeleted
<1>8. FilesDeleted'
  BY <1>p, <1>u, <1>j DEF FilesDeleted
<1>9. NoDebris'
  BY <1>u, <1>j DEF NoDebris
<1>10. CachedIsSum'
  BY <1>u DEF CachedIsSum
<1>11. OriginTracked'
  BY <1>u DEF OriginTracked, NameOf
<1>12. RowsRecorded'
  <2> SUFFICES ASSUME ~usage.partial, usage.tracked, NEW x \in Names, rows[x] # 0
               PROVE  /\ usage.path[x] = rows[x]
                      /\ \/ x \in usage.unknown \/ usage.size[x] = FileSize(rows[x])
                         \/ Processed(x)' \/ overcommitted
    BY <1>u, <1>s DEF RowsRecorded
  <2> QED BY <1>p DEF RowsRecorded
<1>13. GrowingUnknown'
  <2> SUFFICES ASSUME ~usage.partial, usage.tracked, ~overcommitted, NEW g \in Handles,
                      NameOf(g) \in Names, WillGrow(g)
               PROVE  NameOf(g) \in usage.unknown \/ Processed(NameOf(g))'
    BY <1>u, <1>w DEF GrowingUnknown, NameOf
  <2> QED BY <1>p, <1>w, <1>u DEF GrowingUnknown, NameOf
<1> QED BY <1>1, <1>2, <1>3, <1>4, <1>5, <1>6, <1>7, <1>8, <1>9, <1>10, <1>11, <1>12, <1>13

\* The handles to close are collected.
LEMMA CollectHandlesStep ==
  ASSUME IInv, CollectHandles
  PROVE  IInv'
<1> USE DEF IInv, Shapes
<1>a. /\ deleter.at = "collect"
      /\ deleter' = [deleter EXCEPT !.at = "close",
                                    !.closing = {h \in openDatabases : NameOf(h) = deleter.name}]
  BY DEF CollectHandles
<1>u. UNCHANGED <<quota, rows, lastPath, files, usage, beingCreated, beingDeleted, originDeleted, openDatabases, handle, lowered, overcommitted, forgot, debris>>
  BY DEF tableVars, excludeVars, historyVars, CollectHandles
<1>b. /\ deleter'.names = deleter.names /\ deleter'.name = deleter.name /\ deleter'.path = deleter.path
      /\ deleter'.at = "close" /\ deleter'.origin = deleter.origin
      /\ deleter'.closing = {h \in openDatabases : NameOf(h) = deleter.name}
  BY <1>a DEF DeleterOK
<1>p. \A x : Processed(x)' <=> Processed(x)
  BY <1>a, <1>b, <1>u DEF Processed, BeingDeleted
<1>k. \A h \in Handles :
        handle[h].path = deleter.path /\ handle[h].state = "open" /\ deleter.path # 0
          /\ deleter.name \in Names /\ deleter.path = rows[deleter.name] /\ deleter.path \notin debris
        => h \in deleter'.closing
  BY <1>b DEF HandlesConsistent, HandleConsistent
<1>s. \A x : FileSize(x)' = FileSize(x)
  BY <1>u DEF FileSize
<1>w. \A g \in Handles : WillGrow(g)' <=> WillGrow(g)
  BY <1>u DEF WillGrow, NameOf
<1>c. \A x : Creating(x)' = Creating(x)
  BY <1>u DEF Creating, NameOf
<1>1. Shapes'
  <2>1. HandlesOK'
    BY <1>u DEF HandlesOK, HandleShape
  <2>2. UsageOK'
    BY <1>u DEF UsageOK
  <2>3. TablesOK'
    BY <1>u DEF TablesOK
  <2>4. ExcludeOK'
    BY <1>u DEF ExcludeOK
  <2>5. DeleterOK'
    BY <1>a DEF DeleterOK, TablesOK
  <2> QED BY <2>1, <2>2, <2>3, <2>4, <2>5
<1>2. RowsDiffer'
  BY <1>u DEF RowsDiffer
<1>3. HandlesConsistent'
  BY <1>u DEF HandlesConsistent, HandleConsistent, NameOf
<1>4. CreationExcludesDeletion'
  BY <1>u DEF CreationExcludesDeletion, Creating, NameOf
<1>5. ProposalsHaveNoRow'
  BY <1>u DEF ProposalsHaveNoRow, Proposed, NameOf
<1>6. DeletionNoted'
  BY <1>a, <1>b, <1>u DEF DeletionNoted
<1>7. FileBeingDeleted'
  BY <1>a, <1>b, <1>k, <1>u DEF FileBeingDeleted, BeingDeleted
<1>8. FilesDeleted'
  BY <1>p, <1>u DEF FilesDeleted
<1>9. NoDebris'
  BY <1>u DEF NoDebris
<1>10. CachedIsSum'
  BY <1>u DEF CachedIsSum
<1>11. OriginTracked'
  BY <1>u DEF OriginTracked, NameOf
<1>12. RowsRecorded'
  <2> SUFFICES ASSUME ~usage.partial, usage.tracked, NEW x \in Names, rows[x] # 0
               PROVE  /\ usage.path[x] = rows[x]
                      /\ \/ x \in usage.unknown \/ usage.size[x] = FileSize(rows[x])
                         \/ Processed(x)' \/ overcommitted
    BY <1>u, <1>s DEF RowsRecorded
  <2> QED BY <1>p DEF RowsRecorded
<1>13. GrowingUnknown'
  <2> SUFFICES ASSUME ~usage.partial, usage.tracked, ~overcommitted, NEW g \in Handles,
                      NameOf(g) \in Names, WillGrow(g)
               PROVE  NameOf(g) \in usage.unknown \/ Processed(NameOf(g))'
    BY <1>u, <1>w DEF GrowingUnknown, NameOf
  <2> QED BY <1>p, <1>w, <1>u DEF GrowingUnknown, NameOf
<1> QED BY <1>1, <1>2, <1>3, <1>4, <1>5, <1>6, <1>7, <1>8, <1>9, <1>10, <1>11, <1>12, <1>13

\* Nothing is left to do for a handle to close, or it is a DatabaseSync.
LEMMA MarkNothingStep ==
  ASSUME IInv, NEW h \in Handles, MarkAsDeletedAndClose(h),
         h \in SyncHandles \/ handle[h].deleted \/ NameOf(h) # deleter.name
  PROVE  IInv'
<1> USE DEF IInv, Shapes
<1>a. /\ deleter.at = "close" /\ deleter' = [deleter EXCEPT !.closing = @ \ {h}]
  BY DEF MarkAsDeletedAndClose
<1>b. /\ deleter'.names = deleter.names /\ deleter'.name = deleter.name /\ deleter'.path = deleter.path
      /\ deleter'.at = "close" /\ deleter'.origin = deleter.origin
      /\ deleter'.closing = deleter.closing \ {h} /\ DeleterOK'
  BY <1>a DEF DeleterOK
<1>u. UNCHANGED <<quota, rows, lastPath, files, usage, beingCreated, beingDeleted, originDeleted, openDatabases, handle, lowered, overcommitted, forgot, debris>>
  BY DEF tableVars, excludeVars, historyVars, MarkAsDeletedAndClose
<1>p. \A x : Processed(x)' <=> Processed(x)
  BY <1>a, <1>b, <1>u DEF Processed, BeingDeleted
<1>y. /\ deleter.name \in Names \ deleter.names /\ BeingDeleted(deleter.name)
      /\ deleter.path # 0 /\ deleter.path = rows[deleter.name]
      /\ \/ deleter.path \in debris
         \/ \A g \in Handles : handle[g].path = deleter.path =>
              handle[g].state = "open" /\ g \notin SyncHandles /\ g \in deleter.closing
  BY <1>a DEF FileBeingDeleted
<1>z. \A x : BeingDeleted(x)' <=> BeingDeleted(x)
  BY <1>u DEF BeingDeleted
<1>k. handle[h].path = deleter.path => deleter.path \in debris
  BY <1>y DEF HandlesConsistent, HandleConsistent
<1>s. \A x : FileSize(x)' = FileSize(x)
  BY <1>u DEF FileSize
<1>w. \A g \in Handles : WillGrow(g)' <=> WillGrow(g)
  BY <1>u DEF WillGrow, NameOf
<1>c. \A x : Creating(x)' = Creating(x)
  BY <1>u DEF Creating, NameOf
<1>1. Shapes'
  <2>1. HandlesOK'
    BY <1>u DEF HandlesOK, HandleShape
  <2>2. UsageOK'
    BY <1>u DEF UsageOK
  <2>3. TablesOK'
    BY <1>u DEF TablesOK
  <2>4. ExcludeOK'
    BY <1>u DEF ExcludeOK
  <2>5. DeleterOK'
    BY <1>b DEF DeleterOK
  <2> QED BY <2>1, <2>2, <2>3, <2>4, <2>5
<1>2. RowsDiffer'
  BY <1>u DEF RowsDiffer
<1>3. HandlesConsistent'
  BY <1>u DEF HandlesConsistent, HandleConsistent, NameOf
<1>4. CreationExcludesDeletion'
  BY <1>u DEF CreationExcludesDeletion, Creating, NameOf
<1>5. ProposalsHaveNoRow'
  BY <1>u DEF ProposalsHaveNoRow, Proposed, NameOf
<1>6. DeletionNoted'
  BY <1>a, <1>b, <1>u DEF DeletionNoted
<1>7. FileBeingDeleted'
  BY <1>b, <1>k, <1>u, <1>y, <1>z DEF FileBeingDeleted
<1>8. FilesDeleted'
  BY <1>p, <1>u DEF FilesDeleted
<1>9. NoDebris'
  BY <1>u DEF NoDebris
<1>10. CachedIsSum'
  BY <1>u DEF CachedIsSum
<1>11. OriginTracked'
  BY <1>u DEF OriginTracked, NameOf
<1>12. RowsRecorded'
  <2> SUFFICES ASSUME ~usage.partial, usage.tracked, NEW x \in Names, rows[x] # 0
               PROVE  /\ usage.path[x] = rows[x]
                      /\ \/ x \in usage.unknown \/ usage.size[x] = FileSize(rows[x])
                         \/ Processed(x)' \/ overcommitted
    BY <1>u, <1>s DEF RowsRecorded
  <2> QED BY <1>p DEF RowsRecorded
<1>13. GrowingUnknown'
  <2> SUFFICES ASSUME ~usage.partial, usage.tracked, ~overcommitted, NEW g \in Handles,
                      NameOf(g) \in Names, WillGrow(g)
               PROVE  NameOf(g) \in usage.unknown \/ Processed(NameOf(g))'
    BY <1>u, <1>w DEF GrowingUnknown, NameOf
  <2> QED BY <1>p, <1>w, <1>u DEF GrowingUnknown, NameOf
<1> QED BY <1>1, <1>2, <1>3, <1>4, <1>5, <1>6, <1>7, <1>8, <1>9, <1>10, <1>11, <1>12, <1>13

\* An open handle is closed because its database is deleted.
LEMMA MarkOpenStep ==
  ASSUME IInv, NEW h \in Handles, MarkAsDeletedAndClose(h),
         h \notin SyncHandles, ~handle[h].deleted, NameOf(h) = deleter.name, handle[h].state # "constructed"
  PROVE  IInv'
<1> USE DEF IInv, Shapes
<1>a. /\ deleter.at = "close" /\ deleter' = [deleter EXCEPT !.closing = @ \ {h}]
  BY DEF MarkAsDeletedAndClose
<1>b. /\ deleter'.names = deleter.names /\ deleter'.name = deleter.name /\ deleter'.path = deleter.path
      /\ deleter'.at = "close" /\ deleter'.origin = deleter.origin
      /\ deleter'.closing = deleter.closing \ {h} /\ DeleterOK'
  BY <1>a DEF DeleterOK
<1>u. UNCHANGED <<quota, rows, lastPath, files, beingCreated, beingDeleted, originDeleted, lowered, overcommitted, debris>>
  BY DEF tableVars, excludeVars, historyVars, MarkAsDeletedAndClose
<1>p. \A x : Processed(x)' <=> Processed(x)
  BY <1>a, <1>b, <1>u DEF Processed, BeingDeleted
<1>y. /\ deleter.name \in Names \ deleter.names /\ BeingDeleted(deleter.name)
      /\ deleter.path # 0 /\ deleter.path = rows[deleter.name]
      /\ \/ deleter.path \in debris
         \/ \A g \in Handles : handle[g].path = deleter.path =>
              handle[g].state = "open" /\ g \notin SyncHandles /\ g \in deleter.closing
  BY <1>a DEF FileBeingDeleted
<1>z. \A x : BeingDeleted(x)' <=> BeingDeleted(x)
  BY <1>u DEF BeingDeleted
<1>s. \A x : FileSize(x)' = FileSize(x)
  BY <1>u DEF FileSize
<1>r. RemoveOpenDatabase(h, NewHandle)
  BY DEF MarkAsDeletedAndClose
<1> DEFINE r == NewHandle
<1>h. HandlesOK' /\ handle'[h] = r /\ \A g \in Handles : g # h => handle'[g] = handle[g]
  <2>1. r \in [state: Opening \cup {"new", "open"}, name: Names \cup {NoName},
              requirement: {r.requirement}, path: 0..MaxPaths,
              max: {r.max}, pending: Nat, deleted: BOOLEAN]
    BY TrackerAssumption DEF HandlesOK, HandleShape, Opening, NewHandle
  <2>2. handle' = [handle EXCEPT ![h] = r]
    BY <1>r DEF HandlesOK, RemoveOpenDatabase
  <2> HIDE DEF r
  <2> QED BY <2>1, <2>2, SetHandle
<1>f. /\ handle'[h].state = "new" /\ handle'[h].name = NoName /\ handle'[h].path = 0
      /\ handle'[h].max = -1 /\ handle'[h].pending = 0 /\ handle'[h].deleted = FALSE
  BY <1>h DEF HandlesOK, HandleShape, NewHandle
<1> HIDE DEF r
<1>n. HandleConsistent(h)
  BY DEF HandlesConsistent
<1>d. handle[h].state \notin Opening
  BY <1>y, NotDeleted DEF Opening
<1>k. \A g \in Handles : handle'[g].path # 0 =>
        /\ handle'[g].path = handle[g].path
        /\ handle[g].state = "open" => handle'[g].state = "open"
  BY <1>h, <1>f, <1>d
<1>c. \A x \in Names : Creating(x)' = Creating(x)
  BY <1>h, <1>f, <1>u, <1>d, TrackerAssumption DEF Creating, NameOf, Opening
<1>q. /\ openDatabases' = openDatabases \ {h}
      /\ \/ usage' = usage /\ (forgot' <=> forgot)
         \/ /\ usage' = NoRecord /\ openDatabases = {h}
            /\ forgot' \/ \A g \in Handles : g # h =>
                 handle[g].state \notin {"asking", "established", "pathed"}
      /\ forgot => forgot'
  BY <1>r DEF RemoveOpenDatabase
<1>v. UsageOK' /\ CachedIsSum' /\ (usage'.tracked \/ usage'.partial => usage' = usage)
  BY <1>q, NoRecordResult DEF UsageOK, CachedIsSum
<1>g. \A x \in Names : rows[x] # 0 /\ files'[rows[x]] = -1 => files[rows[x]] = -1
  BY <1>u
<1>1. Shapes'
  <2>1. HandlesOK'
    BY <1>h DEF HandlesOK, HandleShape
  <2>2. UsageOK'
    BY <1>b, <1>v DEF UsageOK
  <2>3. TablesOK'
    BY <1>u, <1>q DEF TablesOK
  <2>4. ExcludeOK'
    BY <1>u DEF ExcludeOK
  <2>5. DeleterOK'
    BY <1>b DEF DeleterOK
  <2> QED BY <2>1, <2>2, <2>3, <2>4, <2>5
<1>2. RowsDiffer'
  BY <1>u DEF RowsDiffer
<1>3. HandlesConsistent'
  BY <1>u, <1>q, <1>h, <1>f, <1>n, TrackerAssumption DEF HandlesConsistent, HandleConsistent, NameOf
<1>4. CreationExcludesDeletion'
  BY <1>u, <1>c DEF CreationExcludesDeletion
<1>5. ProposalsHaveNoRow'
  BY <1>u, <1>h, <1>f, TrackerAssumption DEF ProposalsHaveNoRow, Proposed, NameOf
<1>6. DeletionNoted'
  BY <1>a, <1>b, <1>u DEF DeletionNoted
<1>7. FileBeingDeleted'
  <2> SUFFICES ASSUME deleter.path \notin debris
               PROVE  \A g \in Handles : handle'[g].path = deleter.path =>
                        handle'[g].state = "open" /\ g \notin SyncHandles /\ g \in deleter.closing \ {h}
    BY <1>b, <1>y, <1>z, <1>u DEF FileBeingDeleted
  <2> QED BY <1>y, <1>h, <1>f
<1>8. FilesDeleted'
  BY <1>u, <1>p, <1>k DEF FilesDeleted
<1>9. NoDebris'
  BY <1>u DEF NoDebris
<1>10. CachedIsSum'
  BY <1>v DEF CachedIsSum
<1>11. OriginTracked'
  BY <1>u, <1>q, <1>v, <1>h, <1>f, <1>n, TrackerAssumption DEF OriginTracked, HandleConsistent, NameOf
<1>12. RowsRecorded'
  BY <1>u, <1>q, <1>v, <1>p, <1>s DEF RowsRecorded
<1>13. GrowingUnknown'
  <2> SUFFICES ASSUME ~usage'.partial, usage'.tracked, ~overcommitted, NEW g \in Handles,
                      (NameOf(g) \in Names /\ WillGrow(g))'
               PROVE  NameOf(g)' \in usage'.unknown \/ Processed(NameOf(g)')
    BY <1>u, <1>p DEF GrowingUnknown
  <2>1. usage' = usage /\ ~usage.partial /\ usage.tracked
    BY <1>q, <1>v, NoRecordResult
  <2>2. NameOf(g)' = NameOf(g) /\ WillGrow(g)
    <3>1. CASE g = h
      BY <3>1, <1>u, <1>f, <1>g, <1>n, TrackerAssumption DEF WillGrow, NameOf, Opening, HandleConsistent
    <3>2. CASE g # h
      BY <3>2, <1>u, <1>h, <1>g DEF WillGrow, NameOf
    <3> QED BY <3>1, <3>2
  <2> QED BY <2>1, <2>2 DEF GrowingUnknown
<1> QED BY <1>1, <1>2, <1>3, <1>4, <1>5, <1>6, <1>7, <1>8, <1>9, <1>10, <1>11, <1>12, <1>13

\* A handle is unregistered before its file was opened.
LEMMA MarkConstructedStep ==
  ASSUME IInv, NEW h \in Handles, MarkAsDeletedAndClose(h),
         h \notin SyncHandles, ~handle[h].deleted, NameOf(h) = deleter.name, handle[h].state = "constructed"
  PROVE  IInv'
<1> USE DEF IInv, Shapes
<1>a. /\ deleter.at = "close" /\ deleter' = [deleter EXCEPT !.closing = @ \ {h}]
  BY DEF MarkAsDeletedAndClose
<1>b. /\ deleter'.names = deleter.names /\ deleter'.name = deleter.name /\ deleter'.path = deleter.path
      /\ deleter'.at = "close" /\ deleter'.origin = deleter.origin
      /\ deleter'.closing = deleter.closing \ {h} /\ DeleterOK'
  BY <1>a DEF DeleterOK
<1>u. UNCHANGED <<quota, rows, lastPath, files, beingCreated, beingDeleted, originDeleted, lowered, overcommitted, debris>>
  BY DEF tableVars, excludeVars, historyVars, MarkAsDeletedAndClose
<1>p. \A x : Processed(x)' <=> Processed(x)
  BY <1>a, <1>b, <1>u DEF Processed, BeingDeleted
<1>y. /\ deleter.name \in Names \ deleter.names /\ BeingDeleted(deleter.name)
      /\ deleter.path # 0 /\ deleter.path = rows[deleter.name]
      /\ \/ deleter.path \in debris
         \/ \A g \in Handles : handle[g].path = deleter.path =>
              handle[g].state = "open" /\ g \notin SyncHandles /\ g \in deleter.closing
  BY <1>a DEF FileBeingDeleted
<1>z. \A x : BeingDeleted(x)' <=> BeingDeleted(x)
  BY <1>u DEF BeingDeleted
<1>s. \A x : FileSize(x)' = FileSize(x)
  BY <1>u DEF FileSize
<1>r. RemoveOpenDatabase(h, [handle[h] EXCEPT !.deleted = TRUE])
  BY DEF MarkAsDeletedAndClose
<1> DEFINE r == [handle[h] EXCEPT !.deleted = TRUE]
<1>h. HandlesOK' /\ handle'[h] = r /\ \A g \in Handles : g # h => handle'[g] = handle[g]
  <2>1. r \in [state: Opening \cup {"new", "open"}, name: Names \cup {NoName},
              requirement: {r.requirement}, path: 0..MaxPaths,
              max: {r.max}, pending: Nat, deleted: BOOLEAN]
    BY ZenonT(60) DEF HandlesOK, HandleShape, Opening
  <2>2. handle' = [handle EXCEPT ![h] = r]
    BY <1>r DEF HandlesOK, RemoveOpenDatabase
  <2> HIDE DEF r
  <2> QED BY <2>1, <2>2, SetHandle
<1>f. /\ handle'[h].state = handle[h].state /\ handle'[h].name = handle[h].name /\ handle'[h].path = handle[h].path
      /\ handle'[h].max = handle[h].max /\ handle'[h].pending = handle[h].pending /\ handle'[h].deleted = TRUE
  BY <1>h DEF HandlesOK, HandleShape
<1> HIDE DEF r
<1>n. HandleConsistent(h)
  BY DEF HandlesConsistent
<1>d. handle[h].path = 0 \/ handle[h].path \in debris
  BY <1>y, <1>n DEF HandleConsistent
<1>k. \A g \in Handles : handle'[g].path # 0 =>
        /\ handle'[g].path = handle[g].path
        /\ handle[g].state = "open" => handle'[g].state = "open"
  BY <1>h, <1>f
<1>c. \A x \in Names : Creating(x)' = Creating(x)
  BY <1>h, <1>f, <1>u, <1>d, TrackerAssumption DEF Creating, NameOf, Opening
<1>q. /\ openDatabases' = openDatabases \ {h}
      /\ \/ usage' = usage /\ (forgot' <=> forgot)
         \/ /\ usage' = NoRecord /\ openDatabases = {h}
            /\ forgot' \/ \A g \in Handles : g # h =>
                 handle[g].state \notin {"asking", "established", "pathed"}
      /\ forgot => forgot'
  BY <1>r DEF RemoveOpenDatabase
<1>v. UsageOK' /\ CachedIsSum' /\ (usage'.tracked \/ usage'.partial => usage' = usage)
  BY <1>q, NoRecordResult DEF UsageOK, CachedIsSum
<1>g. \A x \in Names : rows[x] # 0 /\ files'[rows[x]] = -1 => files[rows[x]] = -1
  BY <1>u
<1>1. Shapes'
  <2>1. HandlesOK'
    BY <1>h DEF HandlesOK, HandleShape
  <2>2. UsageOK'
    BY <1>b, <1>v DEF UsageOK
  <2>3. TablesOK'
    BY <1>u, <1>q DEF TablesOK
  <2>4. ExcludeOK'
    BY <1>u DEF ExcludeOK
  <2>5. DeleterOK'
    BY <1>b DEF DeleterOK
  <2> QED BY <2>1, <2>2, <2>3, <2>4, <2>5
<1>2. RowsDiffer'
  BY <1>u DEF RowsDiffer
<1>3. HandlesConsistent'
  BY <1>u, <1>q, <1>d, <1>h, <1>f, <1>n, TrackerAssumption DEF HandlesConsistent, HandleConsistent, NameOf
<1>4. CreationExcludesDeletion'
  BY <1>u, <1>c DEF CreationExcludesDeletion
<1>5. ProposalsHaveNoRow'
  BY <1>u, <1>h, <1>f, TrackerAssumption DEF ProposalsHaveNoRow, Proposed, NameOf
<1>6. DeletionNoted'
  BY <1>a, <1>b, <1>u DEF DeletionNoted
<1>7. FileBeingDeleted'
  <2> SUFFICES ASSUME deleter.path \notin debris
               PROVE  \A g \in Handles : handle'[g].path = deleter.path =>
                        handle'[g].state = "open" /\ g \notin SyncHandles /\ g \in deleter.closing \ {h}
    BY <1>b, <1>y, <1>z, <1>u DEF FileBeingDeleted
  <2> QED BY <1>y, <1>h, <1>f, <1>d
<1>8. FilesDeleted'
  BY <1>u, <1>p, <1>k DEF FilesDeleted
<1>9. NoDebris'
  BY <1>u DEF NoDebris
<1>10. CachedIsSum'
  BY <1>v DEF CachedIsSum
<1>11. OriginTracked'
  BY <1>u, <1>q, <1>v, <1>h, <1>f, <1>n, TrackerAssumption DEF OriginTracked, HandleConsistent, NameOf
<1>12. RowsRecorded'
  BY <1>u, <1>q, <1>v, <1>p, <1>s DEF RowsRecorded
<1>13. GrowingUnknown'
  <2> SUFFICES ASSUME ~usage'.partial, usage'.tracked, ~overcommitted, NEW g \in Handles,
                      (NameOf(g) \in Names /\ WillGrow(g))'
               PROVE  NameOf(g)' \in usage'.unknown \/ Processed(NameOf(g)')
    BY <1>u, <1>p DEF GrowingUnknown
  <2>1. usage' = usage /\ ~usage.partial /\ usage.tracked
    BY <1>q, <1>v, NoRecordResult
  <2>2. NameOf(g)' = NameOf(g) /\ WillGrow(g)
    <3>1. CASE g = h
      BY <3>1, <1>u, <1>f, <1>g, <1>n, TrackerAssumption DEF WillGrow, NameOf, Opening, HandleConsistent
    <3>2. CASE g # h
      BY <3>2, <1>u, <1>h, <1>g DEF WillGrow, NameOf
    <3> QED BY <3>1, <3>2
  <2> QED BY <2>1, <2>2 DEF GrowingUnknown
<1> QED BY <1>1, <1>2, <1>3, <1>4, <1>5, <1>6, <1>7, <1>8, <1>9, <1>10, <1>11, <1>12, <1>13

\* The file is deleted.
LEMMA FileDeletedStep ==
  ASSUME IInv, deleter.at = "close", deleter.closing = {},
         files' = [files EXCEPT ![deleter.path] = -1],
         handle' = [h \in Handles |-> IF handle[h].state = "open" /\ handle[h].path = deleter.path
                                      THEN [handle[h] EXCEPT !.path = 0] ELSE handle[h]],
         deleter' = [deleter EXCEPT !.at = "lookup"],
         UNCHANGED <<quota, tableVars, usage, excludeVars, openDatabases, historyVars>>
  PROVE  IInv'
<1> USE DEF IInv, Shapes
<1>u. UNCHANGED <<quota, rows, lastPath, usage, beingCreated, beingDeleted, originDeleted, openDatabases, lowered, overcommitted, forgot, debris>>
  BY DEF tableVars, excludeVars, historyVars
<1>y. /\ deleter.name \in Names \ deleter.names /\ BeingDeleted(deleter.name)
      /\ deleter.path # 0 /\ deleter.path = rows[deleter.name] /\ deleter.path \in 0..MaxPaths
      /\ \/ deleter.path \in debris
         \/ \A g \in Handles : handle[g].path # deleter.path
  BY DEF FileBeingDeleted, DeleterOK
<1>0. PICK n : n = deleter.name
  OBVIOUS
<1>i. /\ rows \in [Names -> 0..MaxPaths] /\ MaxPaths \in Nat
      /\ files \in [1..MaxPaths -> Nat \cup {-1}]
      /\ \A x \in Names : rows[x] = deleter.path => x = n
  BY <1>0, <1>y, TrackerAssumption DEF TablesOK, RowsDiffer
<1>b. /\ deleter'.at = "lookup" /\ deleter'.names = deleter.names /\ deleter'.origin = deleter.origin
      /\ DeleterOK'
  BY DEF DeleterOK
<1>z. \A x : BeingDeleted(x)' <=> BeingDeleted(x)
  BY <1>u DEF BeingDeleted
<1>p. /\ \A x : x # n => (Processed(x)' <=> Processed(x))
      /\ Processed(n)' /\ ~Processed(n)
  BY <1>0, <1>b, <1>y, <1>z DEF Processed
<1>d. /\ files' \in [1..MaxPaths -> Nat \cup {-1}] /\ files'[deleter.path] = -1
      /\ \A p \in 1..MaxPaths : p # deleter.path => files'[p] = files[p]
  BY <1>i, <1>y
<1>h. \A g \in Handles : \/ handle'[g] = handle[g]
                         \/ /\ handle'[g] = [handle[g] EXCEPT !.path = 0]
                            /\ handle[g].state = "open" /\ handle[g].path = deleter.path
  OBVIOUS
<1>e. DOMAIN handle' = Handles /\ handle' = [g \in Handles |-> handle'[g]]
  OBVIOUS
<1>f. \A g \in Handles :
        /\ handle'[g].state = handle[g].state /\ handle'[g].name = handle[g].name
        /\ handle'[g].max = handle[g].max /\ handle'[g].pending = handle[g].pending
        /\ handle'[g].deleted = handle[g].deleted
        /\ handle'[g].path = handle[g].path \/ (handle[g].state = "open" /\ handle'[g].path = 0)
  BY <1>h DEF HandlesOK, HandleShape
<1>k. \A g \in Handles : HandleShape(g)'
  <2> SUFFICES ASSUME NEW g \in Handles  PROVE HandleShape(g)'
    OBVIOUS
  <2>1. HandleShape(g) /\ 0 \in 0..MaxPaths
    BY TrackerAssumption DEF HandlesOK
  <2>2. CASE handle'[g] = handle[g]
    BY <2>1, <2>2 DEF HandleShape
  <2>3. CASE handle'[g] = [handle[g] EXCEPT !.path = 0]
    BY <2>1, <2>3 DEF HandleShape
  <2> QED BY <1>h, <2>2, <2>3
<1>c. \A x : Creating(x)' = Creating(x)
  BY <1>f DEF Creating, NameOf
<1>1. Shapes'
  <2>1. HandlesOK'
    BY <1>e, <1>k DEF HandlesOK
  <2>2. UsageOK'
    BY <1>u DEF UsageOK
  <2>3. TablesOK'
    BY <1>u, <1>d DEF TablesOK
  <2>4. ExcludeOK'
    BY <1>u DEF ExcludeOK
  <2>5. DeleterOK'
    BY <1>b DEF DeleterOK
  <2> QED BY <2>1, <2>2, <2>3, <2>4, <2>5
<1>2. RowsDiffer'
  BY <1>u DEF RowsDiffer
<1>3. HandlesConsistent'
  BY <1>u, <1>f DEF HandlesConsistent, HandleConsistent, NameOf
<1>4. CreationExcludesDeletion'
  BY <1>u, <1>c DEF CreationExcludesDeletion
<1>5. ProposalsHaveNoRow'
  BY <1>u, <1>f DEF ProposalsHaveNoRow, Proposed, NameOf
<1>6. DeletionNoted'
  BY <1>b, <1>u DEF DeletionNoted
<1>7. FileBeingDeleted'
  BY <1>b DEF FileBeingDeleted
<1>8. FilesDeleted'
  <2> SUFFICES ASSUME NEW x \in Names, Processed(x)', rows[x] # 0, rows[x] \notin debris
               PROVE  files'[rows[x]] = -1 /\ \A g \in Handles : handle'[g].path # rows[x]
    BY <1>u DEF FilesDeleted
  <2>1. CASE x = n
    BY <2>1, <1>0, <1>y, <1>d, <1>f
  <2>2. CASE x # n
    <3>1. files[rows[x]] = -1 /\ \A g \in Handles : handle[g].path # rows[x]
      BY <2>2, <1>p DEF FilesDeleted
    <3> QED BY <2>2, <3>1, <1>d, <1>f, <1>i
  <2> QED BY <2>1, <2>2
<1>9. NoDebris'
  BY <1>u, <1>d, <1>i DEF NoDebris
<1>10. CachedIsSum'
  BY <1>u DEF CachedIsSum
<1>11. OriginTracked'
  BY <1>u, <1>f DEF OriginTracked, NameOf
<1>12. RowsRecorded'
  <2> SUFFICES ASSUME ~usage.partial, usage.tracked, NEW x \in Names, rows[x] # 0
               PROVE  /\ usage.path[x] = rows[x]
                      /\ \/ x \in usage.unknown \/ usage.size[x] = FileSize(rows[x])'
                         \/ Processed(x)' \/ overcommitted
    BY <1>u DEF RowsRecorded
  <2>1. CASE x = n
    BY <2>1, <1>p DEF RowsRecorded
  <2>2. CASE x # n
    <3>1. FileSize(rows[x])' = FileSize(rows[x])
      BY <2>2, <1>u, <1>d, <1>i DEF FileSize
    <3> QED BY <2>2, <3>1, <1>p DEF RowsRecorded
  <2> QED BY <2>1, <2>2
<1>13. GrowingUnknown'
  <2>0. \A g \in Handles : NameOf(g)' = NameOf(g)
    BY <1>f DEF NameOf
  <2> SUFFICES ASSUME ~usage.partial, usage.tracked, ~overcommitted, NEW g \in Handles,
                      NameOf(g) \in Names, WillGrow(g)', NameOf(g) # n
               PROVE  NameOf(g) \in usage.unknown \/ Processed(NameOf(g))
    BY <2>0, <1>u, <1>p, <1>f DEF GrowingUnknown
  <2>1. rows[NameOf(g)] # deleter.path
    BY <1>i
  <2>2. WillGrow(g)
    <3>1. rows[NameOf(g)] # 0
      BY <1>u, <1>f DEF WillGrow, NameOf
    <3>2. files'[rows[NameOf(g)]] = files[rows[NameOf(g)]]
      BY <2>1, <3>1, <1>d, <1>i
    <3> QED BY <3>1, <3>2, <1>u, <1>f DEF WillGrow, NameOf, Opening
  <2> QED BY <2>2 DEF GrowingUnknown
<1> QED BY <1>1, <1>2, <1>3, <1>4, <1>5, <1>6, <1>7, <1>8, <1>9, <1>10, <1>11, <1>12, <1>13

\* The file cannot be deleted, and deleteOrigin goes on.
LEMMA FileKeptStep ==
  ASSUME IInv, deleter.at = "close", deleter.closing = {}, deleter.origin,
         deleter' = [deleter EXCEPT !.at = "lookup"], debris' = debris \cup {deleter.path},
         UNCHANGED <<quota, tableVars, files, handle, usage, excludeVars, openDatabases,
                     lowered, overcommitted, forgot>>
  PROVE  IInv'
<1> USE DEF IInv, Shapes
<1>u. UNCHANGED <<quota, rows, lastPath, files, usage, beingCreated, beingDeleted, originDeleted, openDatabases, handle, lowered, overcommitted, forgot>>
  BY DEF tableVars, excludeVars, historyVars
<1>y. /\ deleter.name \in Names \ deleter.names /\ BeingDeleted(deleter.name)
      /\ deleter.path # 0 /\ deleter.path = rows[deleter.name] /\ deleter.path \in 0..MaxPaths
      /\ \/ deleter.path \in debris
         \/ \A g \in Handles : handle[g].path # deleter.path
  BY DEF FileBeingDeleted, DeleterOK
<1>0. PICK n : n = deleter.name
  OBVIOUS
<1>i. /\ rows \in [Names -> 0..MaxPaths] /\ MaxPaths \in Nat
      /\ files \in [1..MaxPaths -> Nat \cup {-1}]
      /\ \A x \in Names : rows[x] = deleter.path => x = n
  BY <1>0, <1>y, TrackerAssumption DEF TablesOK, RowsDiffer
<1>b. /\ deleter'.at = "lookup" /\ deleter'.names = deleter.names /\ deleter'.origin = deleter.origin
      /\ DeleterOK'
  BY DEF DeleterOK
<1>z. \A x : BeingDeleted(x)' <=> BeingDeleted(x)
  BY <1>u DEF BeingDeleted
<1>p. /\ \A x : x # n => (Processed(x)' <=> Processed(x))
      /\ Processed(n)' /\ ~Processed(n)
  BY <1>0, <1>b, <1>y, <1>z DEF Processed
<1>s. \A x : FileSize(x)' = FileSize(x)
  BY <1>u DEF FileSize
<1>w. \A g \in Handles : WillGrow(g)' <=> WillGrow(g)
  BY <1>u DEF WillGrow, NameOf
<1>c. \A x : Creating(x)' = Creating(x)
  BY <1>u DEF Creating, NameOf
<1>j. debris \subseteq debris' /\ rows[n] \in debris'
  BY <1>0, <1>y
<1>1. Shapes'
  <2>1. HandlesOK'
    BY <1>u DEF HandlesOK, HandleShape
  <2>2. UsageOK'
    BY <1>u DEF UsageOK
  <2>3. TablesOK'
    BY <1>u DEF TablesOK
  <2>4. ExcludeOK'
    BY <1>u DEF ExcludeOK
  <2>5. DeleterOK'
    BY <1>b DEF DeleterOK
  <2> QED BY <2>1, <2>2, <2>3, <2>4, <2>5
<1>2. RowsDiffer'
  BY <1>u DEF RowsDiffer
<1>3. HandlesConsistent'
  BY <1>u, <1>j DEF HandlesConsistent, HandleConsistent, NameOf
<1>4. CreationExcludesDeletion'
  BY <1>u DEF CreationExcludesDeletion, Creating, NameOf
<1>5. ProposalsHaveNoRow'
  BY <1>u DEF ProposalsHaveNoRow, Proposed, NameOf
<1>6. DeletionNoted'
  BY <1>b, <1>u DEF DeletionNoted
<1>7. FileBeingDeleted'
  BY <1>b DEF FileBeingDeleted
<1>8. FilesDeleted'
  BY <1>p, <1>u, <1>j DEF FilesDeleted
<1>9. NoDebris'
  BY <1>u, <1>j DEF NoDebris
<1>10. CachedIsSum'
  BY <1>u DEF CachedIsSum
<1>11. OriginTracked'
  BY <1>u DEF OriginTracked, NameOf
<1>12. RowsRecorded'
  <2> SUFFICES ASSUME ~usage.partial, usage.tracked, NEW x \in Names, rows[x] # 0
               PROVE  /\ usage.path[x] = rows[x]
                      /\ \/ x \in usage.unknown \/ usage.size[x] = FileSize(rows[x])
                         \/ Processed(x)' \/ overcommitted
    BY <1>u, <1>s DEF RowsRecorded
  <2> QED BY <1>p DEF RowsRecorded
<1>13. GrowingUnknown'
  <2> SUFFICES ASSUME ~usage.partial, usage.tracked, ~overcommitted, NEW g \in Handles,
                      NameOf(g) \in Names, WillGrow(g)
               PROVE  NameOf(g) \in usage.unknown \/ Processed(NameOf(g))'
    BY <1>u, <1>w DEF GrowingUnknown, NameOf
  <2> QED BY <1>p, <1>w, <1>u DEF GrowingUnknown, NameOf
<1> QED BY <1>1, <1>2, <1>3, <1>4, <1>5, <1>6, <1>7, <1>8, <1>9, <1>10, <1>11, <1>12, <1>13

\* The file cannot be deleted, and deleteDatabase gives up.
LEMMA DeletionFailsStep ==
  ASSUME IInv, deleter.at = "close", ~deleter.origin, deleter' = NoDeletion, beingDeleted' = {},
         UNCHANGED <<quota, tableVars, files, handle, usage, beingCreated, originDeleted,
                     openDatabases, historyVars>>
  PROVE  IInv'
<1> USE DEF IInv, Shapes
<1>u. UNCHANGED <<quota, rows, lastPath, files, usage, beingCreated, originDeleted, openDatabases, handle, lowered, overcommitted, forgot, debris>>
  BY DEF tableVars, excludeVars, historyVars
<1>b. deleter'.at = "idle" /\ DeleterOK'
  BY NoDeletionOK DEF DeleterOK, NoDeletion
<1>z. ~originDeleted
  BY DEF DeletionNoted
<1>p. /\ \A x : ~Processed(x)'
      /\ \A x : ~Processed(x)
  BY <1>b DEF Processed, BeingDeleted, DeletionNoted
<1>s. \A x : FileSize(x)' = FileSize(x)
  BY <1>u DEF FileSize
<1>w. \A g \in Handles : WillGrow(g)' <=> WillGrow(g)
  BY <1>u DEF WillGrow, NameOf
<1>c. \A x : Creating(x)' = Creating(x)
  BY <1>u DEF Creating, NameOf
<1>1. Shapes'
  <2>1. HandlesOK'
    BY <1>u DEF HandlesOK, HandleShape
  <2>2. UsageOK'
    BY <1>u DEF UsageOK
  <2>3. TablesOK'
    BY <1>u DEF TablesOK
  <2>4. ExcludeOK'
    BY <1>u DEF ExcludeOK
  <2>5. DeleterOK'
    BY <1>b DEF DeleterOK
  <2> QED BY <2>1, <2>2, <2>3, <2>4, <2>5
<1>2. RowsDiffer'
  BY <1>u DEF RowsDiffer
<1>3. HandlesConsistent'
  BY <1>u DEF HandlesConsistent, HandleConsistent, NameOf
<1>4. CreationExcludesDeletion'
  BY <1>u DEF CreationExcludesDeletion, Creating, NameOf
<1>5. ProposalsHaveNoRow'
  BY <1>u DEF ProposalsHaveNoRow, Proposed, NameOf
<1>6. DeletionNoted'
  BY <1>b, <1>z, <1>u DEF DeletionNoted
<1>7. FileBeingDeleted'
  BY <1>b DEF FileBeingDeleted
<1>8. FilesDeleted'
  BY <1>p DEF FilesDeleted
<1>9. NoDebris'
  BY <1>u DEF NoDebris
<1>10. CachedIsSum'
  BY <1>u DEF CachedIsSum
<1>11. OriginTracked'
  BY <1>u DEF OriginTracked, NameOf
<1>12. RowsRecorded'
  <2> SUFFICES ASSUME ~usage.partial, usage.tracked, NEW x \in Names, rows[x] # 0
               PROVE  /\ usage.path[x] = rows[x]
                      /\ \/ x \in usage.unknown \/ usage.size[x] = FileSize(rows[x])
                         \/ Processed(x)' \/ overcommitted
    BY <1>u, <1>s DEF RowsRecorded
  <2> QED BY <1>p DEF RowsRecorded
<1>13. GrowingUnknown'
  <2> SUFFICES ASSUME ~usage.partial, usage.tracked, ~overcommitted, NEW g \in Handles,
                      NameOf(g) \in Names, WillGrow(g)
               PROVE  NameOf(g) \in usage.unknown \/ Processed(NameOf(g))'
    BY <1>u, <1>w DEF GrowingUnknown, NameOf
  <2> QED BY <1>p, <1>w, <1>u DEF GrowingUnknown, NameOf
<1> QED BY <1>1, <1>2, <1>3, <1>4, <1>5, <1>6, <1>7, <1>8, <1>9, <1>10, <1>11, <1>12, <1>13

\* The file of a database is deleted, or not.
LEMMA DeleteFileStep ==
  ASSUME IInv, DeleteFile  PROVE IInv'
BY FileDeletedStep, FileKeptStep, DeletionFailsStep DEF DeleteFile, excludeVars, historyVars

\* deleteDatabase ends.
LEMMA DoneDeletingDatabaseStep ==
  ASSUME IInv, DoneDeletingDatabase
  PROVE  IInv'
<1> USE DEF IInv, Shapes
<1>0. PICK n \in Names : beingDeleted = {n} /\ ~originDeleted
  BY DEF DoneDeletingDatabase, DeletionNoted
<1>a. /\ deleter.at = "lookup" /\ deleter.names = {} /\ usage' = RemoveDatabase(usage, n)
      /\ rows' = [x \in Names |-> IF x = n THEN 0 ELSE rows[x]]
      /\ beingDeleted' = {} /\ deleter' = NoDeletion
  BY <1>0 DEF DoneDeletingDatabase
<1>u. UNCHANGED <<quota, lastPath, files, beingCreated, originDeleted, openDatabases, handle, lowered, overcommitted, forgot, debris>>
  BY DEF tableVars, excludeVars, historyVars, DoneDeletingDatabase
<1>b. deleter'.at = "idle" /\ DeleterOK'
  BY <1>a, NoDeletionOK DEF DeleterOK, NoDeletion
<1>r. /\ rows'[n] = 0 /\ \A x \in Names : x # n => rows'[x] = rows[x]
      /\ rows' \in [Names -> 0..MaxPaths]
  BY <1>a, TrackerAssumption DEF TablesOK
<1>p. /\ \A x : ~Processed(x)'
      /\ \A x : x # n => ~Processed(x)
      /\ Processed(n)
  BY <1>0, <1>a, <1>b DEF Processed, BeingDeleted
<1>d. \/ rows[n] = 0 \/ rows[n] \in debris
      \/ files[rows[n]] = -1 /\ \A h \in Handles : handle[h].path # rows[n]
  BY <1>p DEF FilesDeleted
<1>t. /\ UsageOK' /\ CachedIsSum' /\ usage'.tracked = usage.tracked /\ usage'.partial = usage.partial
      /\ usage.tracked => /\ usage'.unknown = usage.unknown \ {n}
                          /\ \A x \in Names : x # n => /\ usage'.path[x] = usage.path[x]
                                                       /\ usage'.size[x] = usage.size[x]
  <2>1. CASE usage.tracked
    <3> DEFINE new == RemoveDatabase(usage, n)
    <3>1. usage \in [tracked: BOOLEAN, partial: BOOLEAN, path: [Names -> -1..MaxPaths], size: [Names -> Nat],
                     unknown: SUBSET Names, cached: {usage.cached}]
      BY DEF UsageOK
    <3>2. /\ new \in [tracked: BOOLEAN, partial: BOOLEAN, path: [Names -> -1..MaxPaths], size: [Names -> Nat],
                      unknown: SUBSET Names, cached: {new.cached}]
          /\ new.tracked = usage.tracked /\ new.partial = usage.partial /\ new.cached = -1 /\ new.unknown = usage.unknown \ {n}
          /\ new.path = [usage.path EXCEPT ![n] = -1] /\ new.size = [usage.size EXCEPT ![n] = 0]
      BY ONLY n \in Names, <2>1, <3>1, RemoveDatabaseResult
    <3>3. usage' = new
      BY <1>a
    <3> HIDE DEF new
    <3> QED BY <3>1, <3>2, <3>3 DEF UsageOK, CachedIsSum
  <2>2. CASE ~usage.tracked
    BY <2>2, <1>a DEF UsageOK, CachedIsSum, RemoveDatabase
  <2> QED BY <2>1, <2>2 DEF UsageOK
<1>s. \A x \in Names : x # n => FileSize(rows[x])' = FileSize(rows[x])
  BY <1>u, <1>r DEF FileSize
<1>c. \A x : Creating(x)' = Creating(x)
  BY <1>u DEF Creating, NameOf
<1>1. Shapes'
  <2>1. HandlesOK'
    BY <1>u DEF HandlesOK, HandleShape
  <2>2. UsageOK'
    BY <1>t DEF UsageOK
  <2>3. TablesOK'
    BY <1>u, <1>r DEF TablesOK
  <2>4. ExcludeOK'
    BY <1>u, <1>a DEF ExcludeOK
  <2>5. DeleterOK'
    BY <1>b DEF DeleterOK
  <2> QED BY <2>1, <2>2, <2>3, <2>4, <2>5
<1>2. RowsDiffer'
  BY <1>u, <1>r, TrackerAssumption, SMTT(30) DEF RowsDiffer, TablesOK
<1>3. HandlesConsistent'
  <2> SUFFICES ASSUME NEW h \in Handles  PROVE HandleConsistent(h)'
    BY DEF HandlesConsistent
  <2>1. HandleConsistent(h)
    BY DEF HandlesConsistent
  <2>2. handle[h].path # 0 => /\ handle[h].path \in debris \/ rows'[NameOf(h)] = handle[h].path
                              /\ \A m \in Names : rows'[m] = handle[h].path => m = NameOf(h)
    BY <2>1, <1>r, <1>d, TrackerAssumption DEF HandleConsistent
  <2> QED BY <2>1, <2>2, <1>u DEF HandleConsistent, NameOf
<1>4. CreationExcludesDeletion'
  BY <1>0, <1>u, <1>a, <1>c DEF CreationExcludesDeletion
<1>5. ProposalsHaveNoRow'
  BY <1>u, <1>r DEF ProposalsHaveNoRow, Proposed, NameOf
<1>6. DeletionNoted'
  BY <1>0, <1>a, <1>b, <1>u DEF DeletionNoted
<1>7. FileBeingDeleted'
  BY <1>b DEF FileBeingDeleted
<1>8. FilesDeleted'
  BY <1>p DEF FilesDeleted
<1>9. NoDebris'
  BY <1>u, <1>r, <1>d DEF NoDebris
<1>10. CachedIsSum'
  BY <1>t DEF CachedIsSum
<1>11. OriginTracked'
  BY <1>u, <1>t, <1>r DEF OriginTracked, NameOf, HandlesConsistent, HandleConsistent
<1>12. RowsRecorded'
  <2> SUFFICES ASSUME ~usage.partial, usage.tracked, NEW x \in Names, rows'[x] # 0
               PROVE  /\ usage'.path[x] = rows'[x]
                      /\ \/ x \in usage'.unknown \/ usage'.size[x] = FileSize(rows[x])'
                         \/ overcommitted
    BY <1>u, <1>t DEF RowsRecorded
  <2>1. x # n
    BY <1>r
  <2> QED BY <2>1, <1>t, <1>r, <1>s, <1>p DEF RowsRecorded
<1>13. GrowingUnknown'
  <2>0. \A g \in Handles : NameOf(g)' = NameOf(g)
    BY <1>u DEF NameOf
  <2> SUFFICES ASSUME ~usage.partial, usage.tracked, ~overcommitted, NEW g \in Handles,
                      NameOf(g) \in Names, WillGrow(g)'
               PROVE  NameOf(g) \in usage'.unknown
    BY <2>0, <1>u, <1>t DEF GrowingUnknown
  <2>1. NameOf(g) # n /\ NameOf(g)' = NameOf(g)
    BY <1>u, <1>r DEF WillGrow, NameOf
  <2>2. WillGrow(g)
    BY <2>1, <1>u, <1>r DEF WillGrow, NameOf
  <2> QED BY <2>1, <2>2, <1>p, <1>t DEF GrowingUnknown
<1> QED BY <1>1, <1>2, <1>3, <1>4, <1>5, <1>6, <1>7, <1>8, <1>9, <1>10, <1>11, <1>12, <1>13

\* deleteOrigin ends.
LEMMA DoneDeletingOriginStep ==
  ASSUME IInv, DoneDeletingOrigin
  PROVE  IInv'
<1> USE DEF IInv, Shapes
<1>a. /\ deleter.at = "lookup" /\ deleter.names = {} /\ deleter.origin /\ usage' = NoRecord
      /\ rows' = [x \in Names |-> 0] /\ quota' = 0
      /\ originDeleted' = FALSE /\ deleter' = NoDeletion
  BY DEF DoneDeletingOrigin
<1>0. originDeleted /\ beingDeleted = {}
  BY <1>a DEF DeletionNoted
<1>u. UNCHANGED <<lastPath, files, beingCreated, beingDeleted, openDatabases, handle, lowered, overcommitted, forgot, debris>>
  BY DEF tableVars, excludeVars, historyVars, DoneDeletingOrigin
<1>b. deleter'.at = "idle" /\ DeleterOK'
  BY <1>a, NoDeletionOK DEF DeleterOK, NoDeletion
<1>p. \A x : Processed(x) /\ ~Processed(x)'
  BY <1>0, <1>a, <1>b DEF Processed, BeingDeleted
<1>d. \A x \in Names : \/ rows[x] = 0 \/ rows[x] \in debris
                       \/ files[rows[x]] = -1 /\ \A h \in Handles : handle[h].path # rows[x]
  BY <1>p DEF FilesDeleted
<1>t. UsageOK' /\ CachedIsSum' /\ ~usage'.tracked /\ ~usage'.partial
  BY <1>a, NoRecordResult DEF UsageOK, CachedIsSum
<1>e. \A h \in Handles : handle[h].state \notin Opening \ {"constructed"}
  BY <1>0, NotDeleted DEF BeingDeleted
<1>c. \A x : Creating(x)' = Creating(x)
  BY <1>u DEF Creating, NameOf
<1>1. Shapes'
  <2>1. HandlesOK'
    BY <1>u DEF HandlesOK, HandleShape
  <2>2. UsageOK'
    BY <1>t DEF UsageOK
  <2>3. TablesOK'
    BY <1>u, <1>a, TrackerAssumption DEF TablesOK
  <2>4. ExcludeOK'
    BY <1>u, <1>a DEF ExcludeOK
  <2>5. DeleterOK'
    BY <1>b DEF DeleterOK
  <2> QED BY <2>1, <2>2, <2>3, <2>4, <2>5
<1>2. RowsDiffer'
  BY <1>u, <1>a, TrackerAssumption DEF RowsDiffer, TablesOK
<1>3. HandlesConsistent'
  <2> SUFFICES ASSUME NEW h \in Handles  PROVE HandleConsistent(h)'
    BY DEF HandlesConsistent
  <2>1. HandleConsistent(h)
    BY DEF HandlesConsistent
  <2>2. handle[h].path # 0 => /\ handle[h].path \in debris
                              /\ \A m \in Names : rows'[m] # handle[h].path
    BY <2>1, <1>a, <1>d, <1>e DEF HandleConsistent, HandlesOK, HandleShape
  <2> QED BY <2>1, <2>2, <1>u DEF HandleConsistent, NameOf
<1>4. CreationExcludesDeletion'
  BY <1>0, <1>u, <1>a, <1>c DEF CreationExcludesDeletion
<1>5. ProposalsHaveNoRow'
  BY <1>a DEF ProposalsHaveNoRow, Proposed, NameOf
<1>6. DeletionNoted'
  BY <1>0, <1>a, <1>b, <1>u DEF DeletionNoted
<1>7. FileBeingDeleted'
  BY <1>b DEF FileBeingDeleted
<1>8. FilesDeleted'
  BY <1>p DEF FilesDeleted
<1>9. NoDebris'
  BY <1>u, <1>d, TrackerAssumption DEF NoDebris
<1>10. CachedIsSum'
  BY <1>t DEF CachedIsSum
<1>11. OriginTracked'
  <2>1. \A h \in Handles : /\ handle[h].state \notin {"asking", "established", "pathed"}
                           /\ h \in openDatabases => NameOf(h) \in Names
    BY <1>e DEF Opening, HandlesConsistent, HandleConsistent
  <2> QED BY <2>1, <1>a, <1>t, <1>u DEF OriginTracked, NameOf
<1>12. RowsRecorded'
  BY <1>t DEF RowsRecorded
<1>13. GrowingUnknown'
  BY <1>t DEF GrowingUnknown
<1> QED BY <1>1, <1>2, <1>3, <1>4, <1>5, <1>6, <1>7, <1>8, <1>9, <1>10, <1>11, <1>12, <1>13

-----------------------------------------------------------------------------
(* What holds of the table and of the usage record.                        *)

\* The tracker as it is made.
LEMMA InitIInv == Init => IInv
<1> SUFFICES ASSUME Init  PROVE IInv
  OBVIOUS
<1> USE DEF Init
<1>0. MaxPaths \in Nat /\ NoName \notin Names /\ Quotas \subseteq Nat
  BY TrackerAssumption
<1>h. \A h \in Handles : handle[h] = NewHandle
  OBVIOUS
<1>1. HandlesOK
  BY <1>0 DEF HandlesOK, HandleShape, NewHandle
<1>2. UsageOK /\ CachedIsSum /\ ~usage.tracked /\ ~usage.partial
  BY NoRecordResult DEF UsageOK, CachedIsSum
<1>3. TablesOK /\ ExcludeOK
  <2>1. quota \in Nat /\ 0 \in 0..MaxPaths /\ lastPath \in 0..MaxPaths
    BY <1>0
  <2>2. rows \in [Names -> 0..MaxPaths] /\ beingCreated \in [Names -> Nat]
    BY <2>1
  <2>3. files \in [1..MaxPaths -> Nat \cup {-1}]
    OBVIOUS
  <2>4. openDatabases \subseteq Handles /\ beingDeleted \subseteq Names /\ originDeleted \in BOOLEAN
    OBVIOUS
  <2> HIDE DEF Init
  <2> QED BY <2>1, <2>2, <2>3, <2>4 DEF TablesOK, ExcludeOK
<1>4. DeleterOK /\ deleter.at = "idle"
  BY NoDeletionOK DEF DeleterOK, NoDeletion
<1>5. RowsDiffer /\ ProposalsHaveNoRow /\ NoDebris
  BY DEF RowsDiffer, ProposalsHaveNoRow, NoDebris
<1>6. HandlesConsistent
  BY <1>h DEF HandlesConsistent, HandleConsistent, NameOf, NewHandle
<1>7. CreationExcludesDeletion
  <2>1. \A n \in Names : Creating(n) = {}
    BY <1>h DEF Creating, NewHandle, Opening
  <2> QED BY <2>1, FS_EmptySet DEF CreationExcludesDeletion
<1>8. DeletionNoted /\ FileBeingDeleted /\ FilesDeleted
  BY <1>4 DEF DeletionNoted, FileBeingDeleted, FilesDeleted, Processed
<1>9. OriginTracked /\ RowsRecorded /\ GrowingUnknown
  BY <1>2, <1>h DEF OriginTracked, RowsRecorded, GrowingUnknown, NewHandle
<1> QED BY <1>1, <1>2, <1>3, <1>4, <1>5, <1>6, <1>7, <1>8, <1>9 DEF IInv, Shapes

\* Every step keeps the invariant.
LEMMA NextIInv == IInv /\ [Next]_vars => IInv'
<1> SUFFICES ASSUME IInv, [Next]_vars  PROVE IInv'
  OBVIOUS
<1>1. ASSUME NEW h \in Handles, OpenHandle(h)  PROVE IInv'
  <2>1. CASE \E n \in Names, e \in Estimates : CanEstablishDatabase(h, n, e)
    BY <2>1, CanEstablishDatabaseStep
  <2>2. CASE CanEstablishAfterAsking(h)
    <3>1. CASE handle[h].requirement <= quota
      BY <2>2, <3>1, AskedAndGranted DEF CanEstablishAfterAsking, excludeVars
    <3>2. CASE ~(handle[h].requirement <= quota)
      BY <2>2, <3>2, AskedAndRefused DEF CanEstablishAfterAsking
    <3> QED BY <3>1, <3>2
  <2>3. CASE FullPathForDatabase(h)
    <3>1. handle[h].state = "established"
      BY <2>3 DEF FullPathForDatabase
    <3> QED BY <2>3, <3>1, RowPathStep, NewPathStep
  <2>4. CASE AddOpenDatabase(h)
    BY <2>4, AddOpenDatabaseStep
  <2>5. CASE DoneCreating(h)
    BY <2>5, DoneCreatingStep
  <2>6. CASE OpenFile(h)
    BY <2>6, OpenFileStep
  <2>7. CASE OpenFails(h)
    BY <2>7, OpenFailsStep
  <2> QED BY <1>1, <2>1, <2>2, <2>3, <2>4, <2>5, <2>6, <2>7 DEF OpenHandle
<1>2. ASSUME NEW h \in Handles, UseHandle(h)  PROVE IInv'
  <2>1. CASE UsesNullRecord
    BY <2>1, Stutter DEF UsesNullRecord
  <2>2. GetMaxSizeForDatabase(h) \/ ExecuteStatement(h) => UsesNullRecord \/ usage.tracked
    BY DEF GetMaxSizeForDatabase, ExecuteStatement
  <2> QED BY <1>2, <2>1, <2>2, GetMaxSizeStep, ExecuteStatementStep, EndTransactionStep, CloseStep
          DEF UseHandle
<1>3. ASSUME NEW q \in Quotas, SetQuota(q)  PROVE IInv'
  BY <1>3, SetQuotaStep
<1>4. CASE UsageForOrigin
  BY <1>4, UsageForOriginStep
<1>5. CASE Delete
  <2>1. ASSUME NEW n \in Names, DeleteDatabase(n) \/ LookUpPath(n)  PROVE IInv'
    BY <2>1, DeleteDatabaseStep, LookUpPathStep
  <2>2. ASSUME NEW h \in Handles, MarkAsDeletedAndClose(h)  PROVE IInv'
    BY <2>2, MarkNothingStep, MarkOpenStep, MarkConstructedStep
  <2> QED BY <1>5, <2>1, <2>2, DeleteOriginStep, CollectHandlesStep, DeleteFileStep,
             DoneDeletingDatabaseStep, DoneDeletingOriginStep DEF Delete
<1>6. CASE UNCHANGED vars
  BY <1>6, Stutter DEF vars
<1> QED BY <1>1, <1>2, <1>3, <1>4, <1>5, <1>6 DEF Next

\* IInv is an invariant of the tracker.
THEOREM Invariance == Spec => []IInv
<1>1. Init => IInv
  BY InitIInv
<1>2. IInv /\ [Next]_vars => IInv'
  BY NextIInv
<1> QED BY <1>1, <1>2, PTL DEF Spec

\* The table, the files and the lists of creations and deletions always fit
\* together: creation and deletion of a name exclude each other, proposals
\* have no row, and a file without a row is one that deletion is known to
\* leave behind (canCreateDatabase, canDeleteDatabase, deleteDatabaseFile).
THEOREM TrackerInvariantHolds == Spec => []TrackerInvariant
<1>1. IInv => TrackerInvariant
  <2> SUFFICES ASSUME IInv  PROVE TypeOK
    BY DEF IInv, TrackerInvariant
  <2>1. \A h \in Handles : /\ handle[h].state \in Opening \cup {"new", "open"}
                           /\ handle[h].name \in Names \cup {NoName}
                           /\ handle[h].path \in 0..MaxPaths /\ handle[h].pending \in Nat
                           /\ handle[h].deleted \in BOOLEAN
    BY DEF IInv, Shapes, HandlesOK, HandleShape
  <2> QED BY <2>1 DEF TypeOK, IInv, Shapes, UsageOK, TablesOK, ExcludeOK, DeleterOK
<1> QED BY <1>1, Invariance, PTL

\* An open handle has a record, unless its origin was deleted under it, and
\* only then a record is used that is not there.
RecordThere ==
  /\ \A h \in openDatabases : usage.tracked \/ h \in orphans
  /\ crashed => ~usage.tracked /\ orphans # {}

\* Every step keeps it.
LEMMA NextRecordThere == IInv /\ RecordThere /\ [Next]_vars => RecordThere'
<1> SUFFICES ASSUME IInv, RecordThere, [Next]_vars  PROVE RecordThere'
  OBVIOUS
<1>0. CASE UNCHANGED vars
  BY <1>0 DEF RecordThere, vars, historyVars
<1> SUFFICES ASSUME Next  PROVE RecordThere'
  BY <1>0
<1>c. ~crashed
  BY DEF Next
<1>k. ASSUME UNCHANGED <<openDatabases, orphans, crashed>>, usage.tracked => usage'.tracked
      PROVE  RecordThere'
  BY <1>c, <1>k DEF RecordThere
<1>r. ASSUME NEW h, NEW to, RemoveOpenDatabase(h, to), UNCHANGED crashed  PROVE RecordThere'
  BY <1>c, <1>r DEF RecordThere, RemoveOpenDatabase
<1>m. UsageForOriginNoLock.tracked
  BY UsageResult
<1>u. usage \in [tracked: BOOLEAN, partial: BOOLEAN, path: [Names -> -1..MaxPaths],
                 size: [Names -> Nat], unknown: SUBSET Names, cached: {usage.cached}]
  BY DEF IInv, Shapes, UsageOK
<1>1. ASSUME NEW h \in Handles, OpenHandle(h)  PROVE RecordThere'
  <2>h. HandleConsistent(h) /\ handle[h].path \in 0..MaxPaths
    BY DEF IInv, Shapes, HandlesOK, HandleShape, HandlesConsistent
  <2>1. ASSUME NEW n \in Names, NEW e \in Estimates, CanEstablishDatabase(h, n, e)  PROVE RecordThere'
    BY <1>k, <1>m, <2>1 DEF CanEstablishDatabase
  <2>2. CASE CanEstablishAfterAsking(h) \/ DoneCreating(h) \/ OpenFile(h)
    BY <1>k, <2>2 DEF CanEstablishAfterAsking, DoneCreating, OpenFile, historyVars
  <2>3. CASE FullPathForDatabase(h)
    <3>1. UNCHANGED <<openDatabases, orphans, crashed>>
      BY <2>3 DEF FullPathForDatabase, historyVars
    <3>2. NameOf(h) \in Names
      BY <2>3, <2>h DEF FullPathForDatabase, HandleConsistent
    <3>3. CASE usage' = usage
      BY <1>k, <3>1, <3>3
    <3>4. CASE usage' = AddDatabase(usage, NameOf(h), lastPath + 1) /\ usage.tracked /\ lastPath < MaxPaths
      <4>1. lastPath + 1 \in 0..MaxPaths
        BY <3>4, TrackerAssumption DEF IInv, Shapes, TablesOK
      <4>2. AddDatabase(usage, NameOf(h), lastPath + 1).tracked = usage.tracked
        <5> DEFINE r == AddDatabase(usage, NameOf(h), lastPath + 1)
        <5>1. /\ r \in [tracked: BOOLEAN, partial: BOOLEAN, path: [Names -> -1..MaxPaths],
                        size: [Names -> Nat], unknown: SUBSET Names, cached: {r.cached}]
              /\ r.tracked = usage.tracked /\ r.partial = usage.partial /\ r.cached = -1
              /\ r.unknown = usage.unknown \cup {NameOf(h)}
              /\ r.path = [usage.path EXCEPT ![NameOf(h)] = lastPath + 1]
              /\ r.size = [usage.size EXCEPT ![NameOf(h)] = 0]
          BY ONLY <1>u, <3>2, <4>1, AddDatabaseResult
        <5> QED BY <5>1
      <4> QED BY <1>k, <3>1, <3>4, <4>2
    <3> QED BY <2>3, <3>3, <3>4 DEF FullPathForDatabase
  <2>4. CASE AddOpenDatabase(h)
    <3>1. UNCHANGED <<orphans, crashed>> /\ openDatabases' = openDatabases \cup {h}
      BY <2>4 DEF AddOpenDatabase, historyVars
    <3>2. NameOf(h) \in Names
      BY <2>4, <2>h DEF AddOpenDatabase, HandleConsistent
    <3>3. usage'.tracked
      <4>1. PICK record : record = [NoRecord EXCEPT !.tracked = TRUE, !.partial = TRUE]
        OBVIOUS
      <4>2. /\ record \in [tracked: BOOLEAN, partial: BOOLEAN, path: [Names -> -1..MaxPaths],
                           size: [Names -> Nat], unknown: SUBSET Names, cached: {record.cached}]
            /\ record.tracked
        BY <4>1, NoRecordResult
      <4>3. AddDatabase(record, NameOf(h), handle[h].path).tracked = record.tracked
        BY <2>h, <3>2, <4>2, AddDatabaseResult
      <4> QED BY <2>4, <4>1, <4>2, <4>3 DEF AddOpenDatabase
    <3> QED BY <1>c, <3>1, <3>3 DEF RecordThere
  <2>5. CASE OpenFails(h)
    BY <1>r, <2>5 DEF OpenFails
  <2> QED BY <1>1, <2>1, <2>2, <2>3, <2>4, <2>5 DEF OpenHandle
<1>2. ASSUME NEW h \in Handles, UseHandle(h)  PROVE RecordThere'
  <2>h. HandleConsistent(h)
    BY DEF IInv, HandlesConsistent
  <2>1. CASE UsesNullRecord /\ ~usage.tracked /\ h \in openDatabases
    BY <2>1 DEF RecordThere, UsesNullRecord, historyVars
  <2>2. CASE GetMaxSizeForDatabase(h)
    <3>1. h \in openDatabases
      BY <2>2, <2>h DEF GetMaxSizeForDatabase, HandleConsistent
    <3>2. CASE usage.tracked
      <4>1. usage' = UsageForOriginNoLock /\ UNCHANGED <<openDatabases, orphans, crashed>>
        BY <2>2, <3>2 DEF GetMaxSizeForDatabase, UsageForOriginNoLock
      <4> QED BY <1>k, <1>m, <4>1
    <3> QED BY <2>1, <2>2, <3>1, <3>2 DEF GetMaxSizeForDatabase
  <2>3. CASE ExecuteStatement(h)
    <3>1. h \in openDatabases /\ NameOf(h) \in Names
      BY <2>3, <2>h DEF ExecuteStatement, HandleConsistent
    <3>2. CASE usage.tracked
      <4>1. usage' = MarkDatabase(usage, NameOf(h)) /\ UNCHANGED <<openDatabases, orphans, crashed>>
        BY <2>3, <3>2 DEF ExecuteStatement, historyVars
      <4>2. MarkDatabase(usage, NameOf(h)).tracked = usage.tracked
        BY <1>u, <3>1, MarkDatabaseResult
      <4> QED BY <1>k, <4>1, <4>2
    <3> QED BY <2>1, <2>3, <3>1, <3>2 DEF ExecuteStatement
  <2>4. CASE EndTransaction(h)
    BY <1>k, <2>4 DEF EndTransaction, historyVars
  <2>5. CASE Close(h)
    BY <1>r, <2>5 DEF Close
  <2> QED BY <1>2, <2>2, <2>3, <2>4, <2>5 DEF UseHandle
<1>3. ASSUME NEW q \in Quotas, SetQuota(q)  PROVE RecordThere'
  BY <1>3, <1>k DEF SetQuota
<1>4. CASE UsageForOrigin
  BY <1>4, <1>k, <1>m DEF UsageForOrigin
<1>5. CASE Delete
  <2>1. ASSUME NEW n \in Names, DeleteDatabase(n) \/ LookUpPath(n)  PROVE RecordThere'
    BY <1>k, <2>1 DEF DeleteDatabase, LookUpPath, historyVars
  <2>2. ASSUME NEW h \in Handles, MarkAsDeletedAndClose(h)  PROVE RecordThere'
    BY <1>k, <1>r, <2>2 DEF MarkAsDeletedAndClose
  <2>3. CASE DeleteOrigin \/ CollectHandles \/ DeleteFile
    BY <1>k, <2>3 DEF DeleteOrigin, CollectHandles, DeleteFile, historyVars
  <2>4. CASE DoneDeletingDatabase
    <3>1. PICK n \in Names : usage' = RemoveDatabase(usage, n)
      BY <2>4 DEF DoneDeletingDatabase, IInv, Shapes, ExcludeOK
    <3>2. usage.tracked => RemoveDatabase(usage, n).tracked
      BY <1>u, RemoveDatabaseResult
    <3> QED BY <1>k, <2>4, <3>1, <3>2 DEF DoneDeletingDatabase, historyVars
  <2>5. CASE DoneDeletingOrigin
    BY <1>c, <2>5 DEF DoneDeletingOrigin, RecordThere
  <2> QED BY <1>5, <2>1, <2>2, <2>3, <2>4, <2>5 DEF Delete
<1> QED BY <1>1, <1>2, <1>3, <1>4, <1>5 DEF Next

\* Every open handle has a usage record unless its origin was deleted under
\* it, and only then the null record is used; a record set up from the table
\* lists its databases with their paths, its known sizes are those of the
\* files, and the cached sum is of known sizes (OriginUsageRecord,
\* usageForOriginNoLock, markDatabase, deleteOrigin).
THEOREM UsageCompleteHolds == Spec => []UsageComplete
<1>1. IInv /\ RecordThere => UsageComplete
  <2> SUFFICES ASSUME IInv, RecordThere  PROVE UsageComplete
    OBVIOUS
  <2>1. usage.tracked /\ ~usage.partial => \A n \in Names : rows[n] # 0 =>
          /\ usage.path[n] = rows[n]
          /\ \/ n \in usage.unknown \/ usage.size[n] = FileSize(rows[n])
             \/ BeingDeleted(n) \/ overcommitted
    BY DEF IInv, RowsRecorded, Processed
  <2>2. usage.cached # -1 => usage.unknown = {} /\ usage.cached = SumOf(usage.size)
    BY DEF IInv, CachedIsSum
  <2> QED BY <2>1, <2>2 DEF UsageComplete, RecordThere
<1>2. Init => RecordThere
  BY DEF Init, RecordThere
<1>3. IInv /\ RecordThere /\ [Next]_vars => RecordThere'
  BY NextRecordThere
<1> QED BY <1>1, <1>2, <1>3, Invariance, PTL DEF Spec

-----------------------------------------------------------------------------
(* Sums over the databases of an origin.                                   *)

\* Induction over the subsets of a finite set, from its smallest failure.
LEMMA SmallestSubset ==
  ASSUME NEW S, IsFiniteSet(S), NEW B \in SUBSET SUBSET S, B # {}
  PROVE  \E s \in B : \A t \in SUBSET s : t # s => t \notin B
<1> DEFINE R == {p \in Nat \X Nat : p[1] < p[2]}
           N == {Cardinality(s) : s \in B}
<1>1. IsWellFoundedOn(R, Nat)
  BY NatLessThanWellFounded DEF OpToRel
<1>2. \A s \in B : IsFiniteSet(s) /\ Cardinality(s) \in Nat
  BY FS_Subset, FS_CardinalityType
<1>3. N \in SUBSET Nat /\ N # {}
  BY <1>2
<1>4. \A y, z \in Nat : y < z => <<y, z>> \in R
  OBVIOUS
<1> HIDE DEF R, N
<1>5. PICK k \in N : \A y \in N : <<y, k>> \notin R
  BY <1>1, <1>3, WFMin
<1>6. PICK s \in B : k = Cardinality(s)
  BY DEF N
<1>7. ASSUME NEW t \in SUBSET s, t # s, t \in B  PROVE FALSE
  <2>1. Cardinality(t) <= Cardinality(s) /\ Cardinality(t) # Cardinality(s)
    BY <1>2, <1>7, FS_Subset
  <2>2. Cardinality(t) \in N /\ Cardinality(t) \in Nat /\ k \in Nat
    BY <1>2, <1>6, <1>7 DEF N
  <2>3. Cardinality(t) < k
    BY <2>1, <2>2, <1>6
  <2> QED BY <1>4, <1>5, <2>2, <2>3, Zenon
<1> QED BY <1>7

\* The element that the fold takes next.
Pick(s) == CHOOSE x \in s : TRUE

\* It is an element.
LEMMA PickIn == ASSUME NEW s, s # {} PROVE Pick(s) \in s
BY DEF Pick

\* The equation of the fold, for the sets in D.
SumsIn(size, D, g) ==
  g = [s \in D |-> IF s = {} THEN 0 ELSE size[Pick(s)] + g[s \ {Pick(s)}]]

SetsUpTo(k) == {s \in SUBSET Names : Cardinality(s) <= k}

\* What is taken from a set of databases leaves a smaller one.
LEMMA Remove ==
  ASSUME NEW s \in SUBSET Names, s # {}
  PROVE  /\ Pick(s) \in s /\ Pick(s) \in Names
         /\ s \ {Pick(s)} \in SUBSET s /\ s \ {Pick(s)} \in SUBSET Names /\ s \ {Pick(s)} # s
         /\ Cardinality(s) \in Nat /\ Cardinality(s \ {Pick(s)}) = Cardinality(s) - 1
         /\ Cardinality(s) > 0
<1>1. IsFiniteSet(s)
  BY FS_Subset, TrackerAssumption
<1>2. Pick(s) \in s
  BY PickIn
<1>3. Cardinality(s) \in Nat
  BY <1>1, FS_CardinalityType
<1>4. Cardinality(s \ {Pick(s)}) = Cardinality(s) - 1
  BY <1>1, <1>2, FS_RemoveElement
<1>5. Cardinality(s) # 0
  BY <1>1, FS_EmptySet
<1> QED BY <1>2, <1>3, <1>4, <1>5

\* A solution for the sets of one size gives one for the next.
LEMMA NextSums ==
  ASSUME NEW size, NEW k \in Nat, NEW g, SumsIn(size, SetsUpTo(k), g)
  PROVE  \E f : SumsIn(size, SetsUpTo(k + 1), f)
<1> DEFINE D == SetsUpTo(k)
           E == SetsUpTo(k + 1)
           f == [s \in E |-> IF s = {} THEN 0 ELSE size[Pick(s)] + g[s \ {Pick(s)}]]
<1>1. \A s \in E : s # {} => s \ {Pick(s)} \in D
  BY Remove DEF SetsUpTo
<1>2. \A s \in D : s \in E
  <2>1. \A s \in SUBSET Names : Cardinality(s) \in Nat
    BY FS_Subset, FS_CardinalityType, TrackerAssumption
  <2> QED BY <2>1 DEF SetsUpTo
<1>3. \A s \in D : g[s] = IF s = {} THEN 0 ELSE size[Pick(s)] + g[s \ {Pick(s)}]
  <2> HIDE DEF D
  <2> QED BY DEF SumsIn, D
<1> HIDE DEF D, E
<1>4. \A s \in E : f[s] = IF s = {} THEN 0 ELSE size[Pick(s)] + g[s \ {Pick(s)}]
  OBVIOUS
<1>5. \A s \in D : f[s] = g[s]
  BY <1>2, <1>3, <1>4
<1>6. \A s \in E : s # {} => f[s \ {Pick(s)}] = g[s \ {Pick(s)}]
  BY <1>1, <1>5
<1>7. f = [s \in E |-> IF s = {} THEN 0 ELSE size[Pick(s)] + f[s \ {Pick(s)}]]
  BY <1>6
<1> HIDE DEF f
<1>8. SumsIn(size, SetsUpTo(k + 1), f)
  BY <1>7 DEF SumsIn, E
<1> QED BY <1>8

\* The recursion of the fold has a solution.
LEMMA SumsExist == \A size : \E g : SumsIn(size, SUBSET Names, g)
<1> SUFFICES ASSUME NEW size  PROVE \E g : SumsIn(size, SUBSET Names, g)
  OBVIOUS
<1> DEFINE P(k) == \E g : SumsIn(size, SetsUpTo(k), g)
           B == {k \in Nat : ~P(k)}
           R == {p \in Nat \X Nat : p[1] < p[2]}
<1>1. P(0)
  <2> DEFINE g == [s \in SetsUpTo(0) |-> 0]
  <2>1. ASSUME NEW s \in SetsUpTo(0), s # {}  PROVE FALSE
    <3>1. s \in SUBSET Names /\ Cardinality(s) <= 0
      BY DEF SetsUpTo
    <3>2. Cardinality(s) \in Nat /\ Cardinality(s) > 0
      BY <2>1, <3>1, Remove
    <3> QED BY <3>1, <3>2
  <2>2. g = [s \in SetsUpTo(0) |-> IF s = {} THEN 0 ELSE size[Pick(s)] + g[s \ {Pick(s)}]]
    BY <2>1
  <2> HIDE DEF g
  <2> QED BY <2>2 DEF SumsIn
<1>2. \A k \in Nat : P(k) => P(k + 1)
  BY NextSums
<1>3. IsWellFoundedOn(R, Nat)
  BY NatLessThanWellFounded DEF OpToRel
<1>4. \A y, z \in Nat : y < z => <<y, z>> \in R
  OBVIOUS
<1>5. B \in SUBSET Nat /\ \A k \in Nat : k \in B <=> ~P(k)
  OBVIOUS
<1> HIDE DEF R, P, B
<1>6. B = {}
  <2> SUFFICES ASSUME B # {}  PROVE FALSE
    OBVIOUS
  <2>1. PICK k \in B : \A y \in B : <<y, k>> \notin R
    BY <1>3, <1>5, WFMin
  <2>2. k \in Nat /\ k # 0 /\ k - 1 \in Nat /\ k - 1 < k /\ (k - 1) + 1 = k
    BY <1>1, <1>5
  <2>3. P(k - 1)
    BY <1>4, <1>5, <2>1, <2>2, Zenon
  <2>4. P(k)
    BY <1>2, <2>2, <2>3
  <2> QED BY <1>5, <2>2, <2>4
<1>7. Cardinality(Names) \in Nat /\ SetsUpTo(Cardinality(Names)) = SUBSET Names
  <2>1. \A s \in SUBSET Names : Cardinality(s) <= Cardinality(Names)
    BY FS_Subset, TrackerAssumption
  <2>2. Cardinality(Names) \in Nat
    BY FS_CardinalityType, TrackerAssumption
  <2> QED BY <2>1, <2>2 DEF SetsUpTo
<1>8. P(Cardinality(Names))
  BY <1>5, <1>6, <1>7
<1> QED BY <1>7, <1>8 DEF P

\* The sum of the sizes of a set of databases, as SumOf computes it.
Total(size) == CHOOSE g : SumsIn(size, SUBSET Names, g)

\* The fold of SumOf is the solution.
LEMMA SumOfTotal ==
  ASSUME NEW size
  PROVE  /\ SumOf(size) = Total(size)[Names]
         /\ Total(size)[{}] = 0
         /\ \A s \in SUBSET Names : s # {} => Total(size)[s] = size[Pick(s)] + Total(size)[s \ {Pick(s)}]
<1>1. SumOf(size) = Total(size)[Names]
  BY DEF SumOf, MapThenSumSet, MapThenFoldSet, Total, SumsIn, Pick
<1>2. PICK g : g = Total(size)
  OBVIOUS
<1>3. SumsIn(size, SUBSET Names, g)
  <2>1. \E f : SumsIn(size, SUBSET Names, f)
    BY SumsExist
  <2> QED BY <1>2, <2>1 DEF Total
<1>4. g = [s \in SUBSET Names |-> IF s = {} THEN 0 ELSE size[Pick(s)] + g[s \ {Pick(s)}]]
  BY <1>3 DEF SumsIn
<1>5. g[{}] = 0 /\ \A s \in SUBSET Names : s # {} => g[s] = size[Pick(s)] + g[s \ {Pick(s)}]
  BY <1>4
<1> QED BY <1>1, <1>2, <1>5

\* A sum of natural numbers is one.
LEMMA TotalNat ==
  ASSUME NEW size \in [Names -> Nat], NEW s \in SUBSET Names
  PROVE  Total(size)[s] \in Nat
<1> DEFINE B == {u \in SUBSET Names : Total(size)[u] \notin Nat}
<1>1. B \in SUBSET SUBSET Names /\ \A u \in SUBSET Names : u \in B <=> Total(size)[u] \notin Nat
  OBVIOUS
<1> HIDE DEF B
<1> SUFFICES ASSUME B # {}  PROVE FALSE
  BY <1>1
<1>2. PICK u \in B : \A t \in SUBSET u : t # u => t \notin B
  BY <1>1, SmallestSubset, TrackerAssumption
<1>3. u \in SUBSET Names
  BY <1>1
<1>4. u # {}
  <2>1. Total(size)[{}] = 0
    BY SumOfTotal
  <2>2. {} \notin B
    BY <1>1, <2>1
  <2> QED BY <2>2
<1>5. PICK x, t : x = Pick(u) /\ t = u \ {x}
  OBVIOUS
<1>6. x \in Names /\ t \in SUBSET u /\ t \in SUBSET Names /\ t # u
  BY <1>3, <1>4, <1>5, Remove
<1>7. Total(size)[t] \in Nat
  BY <1>1, <1>2, <1>6
<1>8. Total(size)[u] = size[x] + Total(size)[t]
  BY <1>3, <1>4, <1>5, SumOfTotal
<1> QED BY <1>1, <1>3, <1>6, <1>7, <1>8

\* Larger sizes have a larger sum.
LEMMA TotalMonotone ==
  ASSUME NEW f \in [Names -> Nat], NEW g \in [Names -> Nat], \A n \in Names : f[n] <= g[n],
         NEW s \in SUBSET Names
  PROVE  Total(f)[s] <= Total(g)[s]
<1> DEFINE B == {u \in SUBSET Names : ~(Total(f)[u] <= Total(g)[u])}
<1>1. B \in SUBSET SUBSET Names /\ \A u \in SUBSET Names : u \in B <=> ~(Total(f)[u] <= Total(g)[u])
  OBVIOUS
<1> HIDE DEF B
<1> SUFFICES ASSUME B # {}  PROVE FALSE
  BY <1>1
<1>2. PICK u \in B : \A t \in SUBSET u : t # u => t \notin B
  BY <1>1, SmallestSubset, TrackerAssumption
<1>3. u \in SUBSET Names
  BY <1>1
<1>4. u # {}
  <2>1. Total(f)[{}] = 0 /\ Total(g)[{}] = 0
    BY SumOfTotal
  <2>2. {} \notin B
    BY <1>1, <2>1
  <2> QED BY <2>2
<1>5. PICK x, t : x = Pick(u) /\ t = u \ {x}
  OBVIOUS
<1>6. x \in Names /\ t \in SUBSET u /\ t \in SUBSET Names /\ t # u
  BY <1>3, <1>4, <1>5, Remove
<1>7. Total(f)[t] <= Total(g)[t]
  BY <1>1, <1>2, <1>6
<1>8. Total(f)[u] = f[x] + Total(f)[t] /\ Total(g)[u] = g[x] + Total(g)[t]
  BY <1>3, <1>4, <1>5, SumOfTotal
<1>9. Total(f)[t] \in Nat /\ Total(g)[t] \in Nat /\ f[x] \in Nat /\ g[x] \in Nat /\ f[x] <= g[x]
  BY <1>6, TotalNat
<1>10. Total(f)[u] <= Total(g)[u]
  BY <1>7, <1>8, <1>9
<1> QED BY <1>1, <1>3, <1>10

\* One size is changed: the sum changes by the difference.
LEMMA TotalChange ==
  ASSUME NEW f \in [Names -> Nat], NEW g \in [Names -> Nat], NEW n \in Names,
         \A m \in Names : m # n => f[m] = g[m], NEW s \in SUBSET Names
  PROVE  IF n \in s THEN Total(g)[s] + f[n] = Total(f)[s] + g[n] ELSE Total(g)[s] = Total(f)[s]
<1> DEFINE Q(u) == IF n \in u THEN Total(g)[u] + f[n] = Total(f)[u] + g[n] ELSE Total(g)[u] = Total(f)[u]
           B == {u \in SUBSET Names : ~Q(u)}
<1>1. B \in SUBSET SUBSET Names /\ \A u \in SUBSET Names : u \in B <=> ~Q(u)
  OBVIOUS
<1> HIDE DEF B
<1> SUFFICES ASSUME B # {}  PROVE FALSE
  BY <1>1
<1>2. PICK u \in B : \A t \in SUBSET u : t # u => t \notin B
  BY <1>1, SmallestSubset, TrackerAssumption
<1>3. u \in SUBSET Names
  BY <1>1
<1>4. u # {}
  <2>1. Total(f)[{}] = 0 /\ Total(g)[{}] = 0
    BY SumOfTotal
  <2>2. {} \in SUBSET Names /\ Q({})
    BY <2>1
  <2>3. {} \notin B
    BY <1>1, <2>2
  <2> QED BY <2>3
<1>5. PICK x, t : x = Pick(u) /\ t = u \ {x}
  OBVIOUS
<1>6. x \in Names /\ x \in u /\ t \in SUBSET u /\ t \in SUBSET Names /\ t # u
  BY <1>3, <1>4, <1>5, Remove
<1>7. Q(t)
  BY <1>1, <1>2, <1>6
<1>8. Total(f)[u] = f[x] + Total(f)[t] /\ Total(g)[u] = g[x] + Total(g)[t]
  BY <1>3, <1>4, <1>5, SumOfTotal
<1>9. Total(f)[t] \in Nat /\ Total(g)[t] \in Nat /\ f[x] \in Nat /\ g[x] \in Nat /\ f[n] \in Nat /\ g[n] \in Nat
  BY <1>6, TotalNat
<1>10. Q(u)
  <2>1. CASE x = n
    <3>1. n \notin t /\ n \in u
      BY <1>5, <1>6, <2>1
    <3> QED BY <1>7, <1>8, <1>9, <2>1, <3>1
  <2>2. CASE x # n
    <3>1. f[x] = g[x] /\ (n \in t <=> n \in u)
      BY <1>5, <1>6, <2>2
    <3> QED BY <1>7, <1>8, <1>9, <3>1
  <2> QED BY <2>1, <2>2
<1> QED BY <1>1, <1>3, <1>10

\* What the proofs use of SumOf.
LEMMA SumOfNat ==
  ASSUME NEW f \in [Names -> Nat]
  PROVE  SumOf(f) \in Nat
BY SumOfTotal, TotalNat

\* Larger sizes, larger sum.
LEMMA SumOfMonotone ==
  ASSUME NEW f \in [Names -> Nat], NEW g \in [Names -> Nat], \A n \in Names : f[n] <= g[n]
  PROVE  SumOf(f) <= SumOf(g)
BY SumOfTotal, TotalMonotone

\* One size is changed.
LEMMA SumOfChange ==
  ASSUME NEW f \in [Names -> Nat], NEW n \in Names, NEW k \in Nat
  PROVE  SumOf([f EXCEPT ![n] = k]) + f[n] = SumOf(f) + k
<1>1. PICK g : g = [f EXCEPT ![n] = k]
  OBVIOUS
<1>2. g \in [Names -> Nat] /\ g[n] = k /\ \A m \in Names : m # n => f[m] = g[m]
  BY <1>1
<1>3. Total(g)[Names] + f[n] = Total(f)[Names] + g[n]
  BY <1>2, TotalChange
<1> QED BY <1>1, <1>2, <1>3, SumOfTotal

\* Nothing is used when every size is zero.
LEMMA SumOfZero == SumOf([n \in Names |-> 0]) = 0
<1>1. PICK f : f = [n \in Names |-> 0]
  OBVIOUS
<1>2. f \in [Names -> Nat] /\ \A n \in Names : f[n] = 0
  BY <1>1
<1> DEFINE B == {u \in SUBSET Names : Total(f)[u] # 0}
<1>3. B \in SUBSET SUBSET Names /\ \A u \in SUBSET Names : u \in B <=> Total(f)[u] # 0
  OBVIOUS
<1> HIDE DEF B
<1>4. B = {}
  <2> SUFFICES ASSUME B # {}  PROVE FALSE
    OBVIOUS
  <2>1. PICK u \in B : \A t \in SUBSET u : t # u => t \notin B
    BY <1>3, SmallestSubset, TrackerAssumption
  <2>2. u \in SUBSET Names /\ u # {}
    BY <1>3, SumOfTotal
  <2>3. PICK x, t : x = Pick(u) /\ t = u \ {x}
    OBVIOUS
  <2>4. x \in Names /\ t \in SUBSET u /\ t \in SUBSET Names /\ t # u
    BY <2>2, <2>3, Remove
  <2>5. Total(f)[t] = 0 /\ f[x] = 0
    BY <1>2, <1>3, <2>1, <2>4
  <2>6. Total(f)[u] = f[x] + Total(f)[t]
    BY <2>2, <2>3, SumOfTotal
  <2> QED BY <1>3, <2>2, <2>5, <2>6
<1> QED BY <1>1, <1>3, <1>4, SumOfTotal

\* Each size is at most the sum.
LEMMA SumOfCovers ==
  ASSUME NEW f \in [Names -> Nat], NEW n \in Names
  PROVE  f[n] <= SumOf(f)
<1>1. PICK g : g = [f EXCEPT ![n] = 0]
  OBVIOUS
<1>2. g \in [Names -> Nat] /\ SumOf(g) + f[n] = SumOf(f) + 0
  BY <1>1, SumOfChange
<1>3. SumOf(g) \in Nat /\ SumOf(f) \in Nat /\ f[n] \in Nat
  BY <1>2, SumOfNat
<1> QED BY <1>2, <1>3

\* Sizes are below a bound of at least two.
LEMMA WidthBound == 2^Width \in Nat /\ 2^Width > 1
<1>1. Width \in Nat /\ Width > 0
  BY TrackerAssumption
<1>2. PICK S : S = 1..Width
  OBVIOUS
<1>3. IsFiniteSet(S) /\ Cardinality(S) = Width /\ S # {}
  <2>1. IsFiniteSet(1..Width) /\ Cardinality(1..Width) = IF 1 > Width THEN 0 ELSE Width - 1 + 1
    BY <1>1, FS_Interval
  <2>2. 1 \in 1..Width
    BY <1>1
  <2> QED BY <1>1, <1>2, <2>1, <2>2
<1>4. IsFiniteSet(SUBSET S) /\ Cardinality(SUBSET S) = 2^Width
  BY <1>3, FS_SUBSET
<1>5. Cardinality(SUBSET S) \in Nat
  BY <1>4, FS_CardinalityType
<1>6. IsFiniteSet({S}) /\ Cardinality({S}) = 1 /\ {} \notin {S}
  BY <1>3, FS_Singleton, Zenon
<1>7. Cardinality({S} \cup {{}}) = Cardinality({S}) + 1
  BY <1>6, FS_AddElement
<1>8. Cardinality({S} \cup {{}}) <= Cardinality(SUBSET S)
  <2>1. {S} \cup {{}} \in SUBSET SUBSET S
    OBVIOUS
  <2> QED BY <1>4, <2>1, FS_Subset
<1>9. 2 <= Cardinality(SUBSET S)
  <2>1. ASSUME NEW c, NEW d, c = 1, d = c + 1  PROVE d = 2
    BY <2>1
  <2>2. Cardinality({S} \cup {{}}) = 2
    BY <1>6, <1>7, <2>1, Zenon
  <2> QED BY <1>8, <2>2
<1> QED BY <1>4, <1>5, <1>9

\* What arithmetic modulo 2^Width does to sizes: a number that has not gone
\* over the bound is kept, and a sum that has is less than it was before.
LEMMA WrapResult ==
  /\ \A x \in Nat : Wrap(x) \in Nat /\ Wrap(x) <= x
  /\ \A c \in Nat, e \in 1..2^Width - 1 : Wrap(c + e) >= c => Wrap(c + e) = c + e
<1>1. PICK M : M = 2^Width
  OBVIOUS
<1>2. M \in Nat \ {0}
  BY <1>1, WidthBound
<1>3. ASSUME NEW x \in Nat  PROVE x % M \in Nat /\ x % M <= x
  BY <1>2
<1>4. ASSUME NEW c \in Nat, NEW e \in 1..M - 1, (c + e) % M >= c  PROVE (c + e) % M = c + e
  BY <1>2, <1>4
<1> QED BY <1>1, <1>3, <1>4 DEF Wrap

-----------------------------------------------------------------------------
(* The quota.                                                              *)

\* The premise of QuotaKept.
Sound == ~lowered /\ ~overcommitted /\ ~forgot

\* A file that exists has at least a page.
FilesHavePages == \A p \in 1..MaxPaths : files[p] # 0

\* An open handle has its file, unless that was deleted under it.
OpenHasFile == \A h \in Handles : handle[h].state = "open" /\ handle[h].path # 0 => files[handle[h].path] # -1

\* Sizes are numbers.
Numbers ==
  /\ \A h \in Handles : handle[h].max \in Nat \cup {-1} /\ handle[h].requirement \in Nat
  /\ usage.cached \in Nat \cup {-1}

\* The record has no path and no size of a database that has no row.
RecordOfRows ==
  \A n \in Names : /\ usage.path[n] > 0 => usage.tracked /\ usage.path[n] = rows[n]
                   /\ usage.size[n] > 0 => usage.tracked /\ rows[n] # 0

\* At most one handle waits for space, or was given some, at a time.
Grows(h) ==
  \/ handle[h].max # -1 \/ handle[h].state = "asking"
  \/ handle[h].state = "established" /\ rows[NameOf(h)] = 0

OneGrows == \A g, h \in Handles : Grows(g) /\ Grows(h) => g = h

\* A database that was established with its row has its file.
FileThere ==
  \A h \in Handles : handle[h].state = "established" /\ rows[NameOf(h)] # 0 => files[rows[NameOf(h)]] # -1

\* A transaction stays below its maximum size.
WithinMax ==
  \A h \in Handles : handle[h].pending > 0 /\ handle[h].path # 0 =>
    FileSize(handle[h].path) + handle[h].pending <= handle[h].max

\* The record does not have the size of a file that a transaction adds to.
PendingUnknown ==
  usage.tracked => \A h \in Handles :
    handle[h].pending > 0 /\ handle[h].path # 0 /\ handle[h].path = rows[NameOf(h)] => NameOf(h) \in usage.unknown

\* A handle that will create the file of a name when it is not there.
OpensFile(h, n) ==
  \/ handle[h].state \in {"pathed", "registered", "constructed"} /\ handle[h].path = rows[n] /\ rows[n] # 0
  \/ handle[h].state = "established" /\ NameOf(h) = n /\ rows[n] = 0

\* A size that the record has is enough for the file, even when that is
\* deleted and a handle creates it again.
KnownSizes ==
  usage.tracked => \A n \in Names : rows[n] # 0 /\ n \notin usage.unknown =>
    /\ FileSize(rows[n]) <= usage.size[n]
    /\ \A h \in Handles : OpensFile(h, n) => usage.size[n] > 0

\* The quota can be allotted to the databases so that each has enough for its
\* file, for the size recorded for it, for the transactions that run on it and
\* for the handles that will create the file; and what the client was asked
\* for is enough for one more page.
Covers(allot) ==
  \A n \in Names :
    /\ FileSize(rows[n]) <= allot[n] /\ usage.size[n] <= allot[n]
    /\ \A h \in Handles : /\ handle[h].path = rows[n] /\ rows[n] # 0 => handle[h].max <= allot[n]
                          /\ OpensFile(h, n) => allot[n] > 0

Allots(allot) ==
  /\ SumOf(allot) <= quota
  /\ Covers(allot)
  /\ \A h \in Handles : handle[h].state = "asking" => SumOf(allot) < handle[h].requirement

Allotment == \E allot \in [Names -> Nat] : Allots(allot)

Allotted ==
  /\ FilesHavePages /\ OpenHasFile /\ Numbers /\ RecordOfRows
  /\ OneGrows /\ FileThere /\ WithinMax /\ PendingUnknown /\ KnownSizes /\ Allotment

\* The types that the proofs of this section need.
LEMMA QuotaTypes ==
  ASSUME IInv
  PROVE  /\ MaxPaths \in Nat /\ quota \in Nat /\ rows \in [Names -> 0..MaxPaths]
         /\ files \in [1..MaxPaths -> Nat \cup {-1}]
         /\ usage.tracked \in BOOLEAN /\ usage.unknown \subseteq Names
         /\ usage.path \in [Names -> -1..MaxPaths] /\ usage.size \in [Names -> Nat]
         /\ \A p \in 0..MaxPaths : FileSize(p) \in Nat
         /\ \A n \in Names : FileSize(rows[n]) \in Nat
         /\ \A g \in Handles : /\ handle[g].path \in 0..MaxPaths /\ handle[g].pending \in Nat
                               /\ handle[g].state \in Opening \cup {"new", "open"}
                               /\ HandleConsistent(g)
<1>1. /\ MaxPaths \in Nat /\ quota \in Nat /\ rows \in [Names -> 0..MaxPaths]
      /\ files \in [1..MaxPaths -> Nat \cup {-1}]
  BY TrackerAssumption DEF IInv, Shapes, TablesOK
<1>2. /\ usage.tracked \in BOOLEAN /\ usage.unknown \subseteq Names
      /\ usage.path \in [Names -> -1..MaxPaths] /\ usage.size \in [Names -> Nat]
  BY DEF IInv, Shapes, UsageOK
<1>3. \A p \in 0..MaxPaths : FileSize(p) \in Nat
  BY <1>1 DEF FileSize
<1>4. \A g \in Handles : /\ handle[g].path \in 0..MaxPaths /\ handle[g].pending \in Nat
                         /\ handle[g].state \in Opening \cup {"new", "open"}
                         /\ HandleConsistent(g)
  BY DEF IInv, Shapes, HandlesOK, HandleShape, HandlesConsistent
<1> QED BY <1>1, <1>2, <1>3, <1>4

\* A handle is no longer in the way of others: it is unchanged, or it is
\* closed, goes on being opened or loses its file.
Shrinks(g) ==
  \/ handle'[g] = handle[g]
  \/ /\ handle'[g].state = "new" /\ handle'[g].max = -1 /\ handle'[g].pending = 0 /\ handle'[g].path = 0
     /\ handle'[g].requirement = 0
  \/ /\ handle[g].state \in {"pathed", "registered", "constructed"}
     /\ handle'[g].state \in {"pathed", "registered", "constructed"}
     /\ handle'[g].name = handle[g].name /\ handle'[g].path = handle[g].path
     /\ handle'[g].max = handle[g].max /\ handle'[g].pending = handle[g].pending
     /\ handle'[g].requirement = handle[g].requirement
  \/ /\ handle[g].state = "open" /\ handle'[g].state = "open" /\ handle'[g].path = 0
     /\ handle'[g].name = handle[g].name /\ handle'[g].max = handle[g].max
     /\ handle'[g].pending = handle[g].pending /\ handle'[g].requirement = handle[g].requirement

\* A step that asks for nothing and writes nothing.
LEMMA ShrinkStep ==
  ASSUME IInv, IInv', Allotted, quota <= quota', rows' = rows,
         \A p \in 1..MaxPaths :
           \/ files'[p] = files[p]
           \/ /\ files'[p] = -1
              /\ \A g \in Handles : /\ handle'[g].state = "open" => handle'[g].path # p
                                    /\ handle'[g].state = "established" => rows[NameOf(g)'] # p,
         usage' = usage \/ usage' = NoRecord,
         \A g \in Handles : Shrinks(g)
  PROVE  Allotted'
<1> USE DEF Allotted
<1>t. /\ MaxPaths \in Nat /\ quota \in Nat /\ rows \in [Names -> 0..MaxPaths]
      /\ files \in [1..MaxPaths -> Nat \cup {-1}]
      /\ usage.path \in [Names -> -1..MaxPaths] /\ usage.size \in [Names -> Nat]
      /\ \A p \in 0..MaxPaths : FileSize(p) \in Nat
      /\ \A g \in Handles : /\ handle[g].path \in 0..MaxPaths /\ handle[g].pending \in Nat
                            /\ HandleConsistent(g)
  BY QuotaTypes
<1>q. quota' \in Nat
  BY DEF IInv, Shapes, TablesOK
<1>s. \A p \in 0..MaxPaths : FileSize(p)' = FileSize(p) \/ FileSize(p)' = 0
  BY <1>t DEF FileSize
<1>n. /\ usage'.cached \in Nat \cup {-1} /\ (usage'.tracked \/ usage'.partial => usage' = usage)
      /\ \A n \in Names : /\ usage'.path[n] > 0 => usage' = usage
                          /\ usage'.size[n] = usage.size[n] \/ usage'.size[n] = 0
                          /\ usage'.size[n] > 0 => usage' = usage
  <2>1. NoRecord.cached = -1 /\ ~NoRecord.tracked /\ ~NoRecord.partial
        /\ \A n \in Names : NoRecord.path[n] = -1 /\ NoRecord.size[n] = 0
    BY DEF NoRecord
  <2>2. CASE usage' = usage
    BY <2>2 DEF Numbers
  <2>3. CASE usage' = NoRecord
    BY <2>1, <2>3
  <2> QED BY <2>2, <2>3
<1>1. FilesHavePages'
  BY DEF FilesHavePages
<1>2. OpenHasFile'
  <2> SUFFICES ASSUME NEW g \in Handles, handle'[g].state = "open", handle'[g].path # 0
               PROVE  files'[handle'[g].path] # -1
    BY DEF OpenHasFile
  <2>1. handle'[g] = handle[g]
    BY DEF Shrinks
  <2> QED BY <1>t, <2>1 DEF OpenHasFile
<1>3. Numbers'
  BY <1>n DEF Numbers, Shrinks
<1>4. RecordOfRows'
  BY <1>n DEF RecordOfRows
<1>g. \A g \in Handles : Grows(g)' => Grows(g)
  BY DEF Grows, Shrinks, NameOf
<1>5. OneGrows'
  BY <1>g DEF OneGrows
<1>6. FileThere'
  <2> SUFFICES ASSUME NEW g \in Handles, handle'[g].state = "established", rows[NameOf(g)'] # 0
               PROVE  files'[rows[NameOf(g)']] # -1
    BY DEF FileThere, NameOf
  <2>1. handle'[g] = handle[g]
    BY DEF Shrinks
  <2>2. NameOf(g) \in Names /\ NameOf(g)' = NameOf(g)
    BY <1>t, <2>1 DEF HandleConsistent, NameOf
  <2>3. rows[NameOf(g)] \in 1..MaxPaths /\ files[rows[NameOf(g)]] # -1
    BY <1>t, <2>1, <2>2 DEF FileThere
  <2> QED BY <2>2, <2>3
<1>7. WithinMax'
  <2> SUFFICES ASSUME NEW g \in Handles, handle'[g].pending > 0, handle'[g].path # 0
               PROVE  FileSize(handle[g].path)' + handle'[g].pending <= handle'[g].max /\ handle'[g].path = handle[g].path
    BY DEF WithinMax, FileSize
  <2>1. handle'[g].path = handle[g].path /\ handle'[g].pending = handle[g].pending /\ handle'[g].max = handle[g].max
    BY DEF Shrinks
  <2>2. handle[g].path \in 0..MaxPaths /\ handle[g].max \in Nat \cup {-1} /\ handle[g].pending \in Nat
    BY <1>t DEF Numbers
  <2>3. FileSize(handle[g].path) \in Nat /\ FileSize(handle[g].path) + handle[g].pending <= handle[g].max
    BY <1>t, <2>1, <2>2 DEF WithinMax
  <2>4. FileSize(handle[g].path)' = FileSize(handle[g].path) \/ FileSize(handle[g].path)' = 0
    BY <1>t, <2>1, <2>2 DEF FileSize
  <2> QED BY <2>1, <2>2, <2>3, <2>4
<1>o. \A g \in Handles, n \in Names : OpensFile(g, n)' => OpensFile(g, n)
  BY DEF OpensFile, Shrinks, NameOf
<1>8. KnownSizes'
  <2> SUFFICES ASSUME usage'.tracked, NEW n \in Names, rows[n] # 0, n \notin usage'.unknown
               PROVE  /\ FileSize(rows[n])' <= usage'.size[n]
                      /\ \A h \in Handles : OpensFile(h, n)' => usage'.size[n] > 0
    BY DEF KnownSizes
  <2>1. usage' = usage
    BY <1>n
  <2>2. FileSize(rows[n]) <= usage.size[n] /\ \A h \in Handles : OpensFile(h, n) => usage.size[n] > 0
    BY <2>1 DEF KnownSizes
  <2>3. rows[n] \in 0..MaxPaths /\ FileSize(rows[n]) \in Nat /\ usage.size[n] \in Nat /\ FileSize(rows[n])' \in {0, FileSize(rows[n])}
    BY <1>t DEF FileSize
  <2> QED BY <1>o, <2>1, <2>2, <2>3
<1>9. Allotment'
  <2>1. PICK allot \in [Names -> Nat] : Allots(allot)
    BY DEF Allotment
  <2>2. Covers(allot)'
    <3> SUFFICES ASSUME NEW n \in Names
                 PROVE  /\ FileSize(rows[n])' <= allot[n] /\ usage'.size[n] <= allot[n]
                        /\ \A h \in Handles :
                             /\ handle'[h].path = rows[n] /\ rows[n] # 0 => handle'[h].max <= allot[n]
                             /\ OpensFile(h, n)' => allot[n] > 0
      BY DEF Covers
    <3>1. /\ FileSize(rows[n]) <= allot[n] /\ usage.size[n] <= allot[n]
          /\ \A h \in Handles :
               /\ handle[h].path = rows[n] /\ rows[n] # 0 => handle[h].max <= allot[n]
               /\ OpensFile(h, n) => allot[n] > 0
      BY <2>1 DEF Allots, Covers
    <3>2. rows[n] \in 0..MaxPaths /\ FileSize(rows[n])' \in {0, FileSize(rows[n])} /\ allot[n] \in Nat
      BY <1>t DEF FileSize
    <3>3. \A h \in Handles : handle'[h].path = rows[n] /\ rows[n] # 0 =>
            handle[h].path = rows[n] /\ handle'[h].max = handle[h].max
      BY DEF Shrinks
    <3> QED BY <1>n, <1>o, <3>1, <3>2, <3>3
  <2>3. \A h \in Handles : handle'[h].state = "asking" => SumOf(allot) < handle'[h].requirement
    BY <2>1 DEF Allots, Shrinks
  <2>4. SumOf(allot) <= quota'
    <3>1. SumOf(allot) \in Nat
      BY SumOfNat
    <3> QED BY <1>t, <1>q, <2>1, <3>1 DEF Allots
  <2>5. Allots(allot)'
    BY <2>2, <2>3, <2>4 DEF Allots
  <2> QED BY <2>5 DEF Allotment
<1>10. PendingUnknown'
  <2> SUFFICES ASSUME usage' = usage, usage.tracked, NEW g \in Handles, handle'[g].pending > 0,
                      handle'[g].path # 0, handle'[g].path = rows[NameOf(g)']
               PROVE  NameOf(g)' \in usage.unknown
    BY <1>n DEF PendingUnknown, NameOf
  <2>1. handle'[g].path = handle[g].path /\ handle'[g].pending = handle[g].pending /\ NameOf(g)' = NameOf(g)
    BY DEF Shrinks, NameOf
  <2> QED BY <2>1 DEF PendingUnknown
<1> QED BY <1>1, <1>2, <1>3, <1>4, <1>5, <1>6, <1>7, <1>8, <1>9, <1>10

-----------------------------------------------------------------------------
(* What each step does to the allotment.                                   *)

\* A handle goes to another state.
LEMMA GotoResult ==
  ASSUME IInv, NEW h \in Handles, NEW s, Goto(h, s)
  PROVE  /\ handle'[h].state = s /\ handle'[h].name = handle[h].name /\ handle'[h].path = handle[h].path
         /\ handle'[h].max = handle[h].max /\ handle'[h].pending = handle[h].pending
         /\ handle'[h].requirement = handle[h].requirement /\ handle'[h].deleted = handle[h].deleted
         /\ \A g \in Handles : g # h => handle'[g] = handle[g]
BY DEF Goto, IInv, Shapes, HandlesOK, HandleShape

\* A handle is replaced.
LEMMA ReplaceResult ==
  ASSUME IInv, NEW h \in Handles, NEW r, handle' = [handle EXCEPT ![h] = r]
  PROVE  handle'[h] = r /\ \A g \in Handles : g # h => handle'[g] = handle[g]
BY DEF IInv, Shapes, HandlesOK

\* Actions that ask for nothing and write nothing.
LEMMA QuietSteps ==
  ASSUME IInv, IInv', Allotted, Sound, Sound',
         \/ \E h \in Handles : AddOpenDatabase(h) \/ DoneCreating(h) \/ Close(h) \/ MarkAsDeletedAndClose(h)
         \/ \E h \in Handles : CanEstablishAfterAsking(h) /\ ~(handle[h].requirement <= quota)
         \/ \E q \in Quotas : SetQuota(q)
         \/ \E n \in Names : DeleteDatabase(n) \/ LookUpPath(n)
         \/ DeleteOrigin \/ CollectHandles \/ UsesNullRecord
         \/ UNCHANGED vars
  PROVE  Allotted'
<1>n. /\ NewHandle.state = "new" /\ NewHandle.max = -1 /\ NewHandle.pending = 0 /\ NewHandle.path = 0
      /\ NewHandle.requirement = 0
  BY DEF NewHandle
<1>q. quota \in Nat
  BY DEF IInv, Shapes, TablesOK
<1>1. ASSUME NEW h \in Handles, AddOpenDatabase(h)  PROVE Allotted'
  <2>1. /\ handle[h].state = "pathed" /\ Goto(h, "registered") /\ UNCHANGED <<quota, rows, files>>
        /\ usage.tracked => usage' = usage
    BY <1>1 DEF AddOpenDatabase, tableVars
  <2>2. usage.tracked
    BY <2>1 DEF IInv, OriginTracked, Sound
  <2>3. \A g \in Handles : Shrinks(g)
    BY <2>1, GotoResult DEF Shrinks
  <2> QED BY <1>q, <2>1, <2>2, <2>3, ShrinkStep
<1>2. ASSUME NEW h \in Handles, DoneCreating(h)  PROVE Allotted'
  <2>1. /\ handle[h].state = "registered" /\ Goto(h, "constructed") /\ UNCHANGED <<quota, rows, files, usage>>
    BY <1>2 DEF DoneCreating, tableVars
  <2>2. \A g \in Handles : Shrinks(g)
    BY <2>1, GotoResult DEF Shrinks
  <2> QED BY <1>q, <2>1, <2>2, ShrinkStep
<1>3. ASSUME NEW h \in Handles, Close(h)  PROVE Allotted'
  <2>1. /\ handle' = [handle EXCEPT ![h] = NewHandle] /\ UNCHANGED <<quota, rows, files>>
        /\ usage' = usage \/ usage' = NoRecord
    BY <1>3 DEF Close, RemoveOpenDatabase, tableVars
  <2>2. \A g \in Handles : Shrinks(g)
    BY <1>n, <2>1, ReplaceResult DEF Shrinks
  <2> QED BY <1>q, <2>1, <2>2, ShrinkStep
<1>4. ASSUME NEW h \in Handles, MarkAsDeletedAndClose(h)  PROVE Allotted'
  <2>1. UNCHANGED <<quota, rows, files>> /\ (usage' = usage \/ usage' = NoRecord)
    BY <1>4 DEF MarkAsDeletedAndClose, RemoveOpenDatabase, tableVars
  <2>2. \A g \in Handles : Shrinks(g)
    <3>1. CASE handle' = handle
      BY <3>1 DEF Shrinks
    <3>2. CASE /\ handle[h].state = "constructed"
               /\ handle' = [handle EXCEPT ![h] = [handle[h] EXCEPT !.deleted = TRUE]]
      <4>1. PICK r : r = [handle[h] EXCEPT !.deleted = TRUE]
        OBVIOUS
      <4>2. /\ r.state = handle[h].state /\ r.name = handle[h].name /\ r.path = handle[h].path
            /\ r.max = handle[h].max /\ r.pending = handle[h].pending /\ r.requirement = handle[h].requirement
        BY <4>1 DEF IInv, Shapes, HandlesOK, HandleShape
      <4>3. handle'[h] = r /\ \A g \in Handles : g # h => handle'[g] = handle[g]
        BY <3>2, <4>1, ReplaceResult
      <4> QED BY <3>2, <4>2, <4>3 DEF Shrinks
    <3>3. CASE handle' = [handle EXCEPT ![h] = NewHandle]
      BY <1>n, <3>3, ReplaceResult DEF Shrinks
    <3> QED BY <1>4, <3>1, <3>2, <3>3 DEF MarkAsDeletedAndClose, RemoveOpenDatabase
  <2> QED BY <1>q, <2>1, <2>2, ShrinkStep
<1>5. ASSUME NEW h \in Handles, CanEstablishAfterAsking(h), ~(handle[h].requirement <= quota)  PROVE Allotted'
  <2>1. /\ handle' = [handle EXCEPT ![h] = NewHandle] /\ UNCHANGED <<quota, rows, files, usage>>
    BY <1>5 DEF CanEstablishAfterAsking, tableVars
  <2>2. \A g \in Handles : Shrinks(g)
    BY <1>n, <2>1, ReplaceResult DEF Shrinks
  <2> QED BY <1>q, <2>1, <2>2, ShrinkStep
<1>6. ASSUME NEW q \in Quotas, SetQuota(q)  PROVE Allotted'
  <2>1. quota' = q /\ ~(q < quota) /\ q \in Nat /\ UNCHANGED <<rows, files, usage, handle>>
    BY <1>6, TrackerAssumption DEF SetQuota, tableVars, Sound
  <2>2. \A g \in Handles : Shrinks(g)
    BY <2>1 DEF Shrinks
  <2>3. quota <= quota'
    BY <1>q, <2>1
  <2> QED BY <2>1, <2>2, <2>3, ShrinkStep
<1>7. ASSUME UNCHANGED <<quota, rows, files, usage, handle>>  PROVE Allotted'
  <2>2. \A g \in Handles : Shrinks(g)
    BY <1>7 DEF Shrinks
  <2> QED BY <1>q, <1>7, <2>2, ShrinkStep
<1>8. ASSUME NEW n \in Names, DeleteDatabase(n) \/ LookUpPath(n)  PROVE Allotted'
  BY <1>7, <1>8 DEF DeleteDatabase, LookUpPath, tableVars
<1>9. CASE DeleteOrigin \/ CollectHandles \/ UsesNullRecord
  BY <1>7, <1>9 DEF DeleteOrigin, CollectHandles, UsesNullRecord, tableVars
<1>10. CASE UNCHANGED vars
  BY <1>7, <1>10 DEF vars, tableVars
<1> QED BY <1>1, <1>2, <1>3, <1>4, <1>5, <1>6, <1>8, <1>9, <1>10

\* The file of a database is deleted.
LEMMA DeleteFileQuota ==
  ASSUME IInv, IInv', Allotted, DeleteFile
  PROVE  Allotted'
<1>u. UNCHANGED <<quota, rows, usage>> /\ quota \in Nat /\ deleter.at = "close" /\ deleter.path \in 0..MaxPaths
      /\ files \in [1..MaxPaths -> Nat \cup {-1}] /\ MaxPaths \in Nat
  BY TrackerAssumption DEF DeleteFile, tableVars, IInv, Shapes, TablesOK, DeleterOK
<1>1. CASE UNCHANGED <<files, handle>>
  <2>2. \A g \in Handles : Shrinks(g)
    BY <1>1 DEF Shrinks
  <2> QED BY <1>u, <1>1, <2>2, ShrinkStep
<1>2. CASE /\ files' = [files EXCEPT ![deleter.path] = -1]
           /\ handle' = [h \in Handles |-> IF handle[h].state = "open" /\ handle[h].path = deleter.path
                                           THEN [handle[h] EXCEPT !.path = 0] ELSE handle[h]]
  <2>1. ASSUME NEW g \in Handles
        PROVE  /\ Shrinks(g)
               /\ handle'[g].state = "open" => handle'[g].path # deleter.path
               /\ handle'[g].state = "established" => handle'[g] = handle[g]
    <3>0. deleter.path # 0
      BY <1>u DEF IInv, FileBeingDeleted
    <3>1. CASE handle[g].state = "open" /\ handle[g].path = deleter.path
      <4>1. handle'[g] = [handle[g] EXCEPT !.path = 0]
        BY <1>2, <3>1
      <4>2. /\ handle'[g].state = "open" /\ handle'[g].path = 0
            /\ handle'[g].name = handle[g].name /\ handle'[g].max = handle[g].max
            /\ handle'[g].pending = handle[g].pending /\ handle'[g].requirement = handle[g].requirement
        BY <3>1, <4>1 DEF IInv, Shapes, HandlesOK, HandleShape
      <4> QED BY <3>0, <3>1, <4>2 DEF Shrinks
    <3>2. CASE ~(handle[g].state = "open" /\ handle[g].path = deleter.path)
      <4>1. handle'[g] = handle[g]
        BY <1>2, <3>2
      <4> QED BY <3>2, <4>1 DEF Shrinks
    <3> QED BY <3>1, <3>2
  <2>2. ASSUME NEW g \in Handles, handle'[g].state = "established"  PROVE rows[NameOf(g)'] # deleter.path
    <3>1. handle'[g] = handle[g] /\ NameOf(g)' = NameOf(g)
      BY <2>1, <2>2 DEF NameOf
    <3>2. NameOf(g) \in Names /\ ~BeingDeleted(NameOf(g))
      BY <2>2, <3>1, NotDeleted DEF Opening
    <3>3. deleter.name \in Names /\ BeingDeleted(deleter.name) /\ deleter.path # 0 /\ deleter.path = rows[deleter.name]
      BY <1>u DEF IInv, FileBeingDeleted
    <3> QED BY <3>1, <3>2, <3>3 DEF IInv, RowsDiffer
  <2>3. \A p \in 1..MaxPaths : files'[p] = files[p] \/ (files'[p] = -1 /\ p = deleter.path)
    BY <1>u, <1>2
  <2>4. \A p \in 1..MaxPaths :
          \/ files'[p] = files[p]
          \/ /\ files'[p] = -1
             /\ \A g \in Handles : /\ handle'[g].state = "open" => handle'[g].path # p
                                   /\ handle'[g].state = "established" => rows[NameOf(g)'] # p
    BY <2>1, <2>2, <2>3
  <2> QED BY <1>u, <2>1, <2>4, ShrinkStep
<1> QED BY <1>1, <1>2 DEF DeleteFile

\* The record stays, or the origin is forgotten.
LEMMA RecordKept ==
  ASSUME IInv, Numbers, usage' = usage \/ usage' = NoRecord
  PROVE  /\ usage'.cached \in Nat \cup {-1} /\ (usage'.tracked \/ usage'.partial => usage' = usage)
         /\ \A n \in Names : /\ usage'.path[n] > 0 => usage' = usage
                             /\ usage'.size[n] = usage.size[n] \/ usage'.size[n] = 0
                             /\ usage'.size[n] > 0 => usage' = usage
<1>1. NoRecord.cached = -1 /\ ~NoRecord.tracked /\ ~NoRecord.partial
      /\ \A n \in Names : NoRecord.path[n] = -1 /\ NoRecord.size[n] = 0
  BY DEF NoRecord
<1>2. CASE usage' = usage
  BY <1>2 DEF Numbers
<1>3. CASE usage' = NoRecord
  BY <1>1, <1>3
<1> QED BY <1>2, <1>3

\* A handle creates its file, and is open or closed again.
LEMMA OpenFileQuota ==
  ASSUME IInv, IInv', Allotted, NEW h \in Handles, handle[h].state = "constructed",
         UNCHANGED <<quota, rows>>, usage' = usage \/ usage' = NoRecord,
         \A g \in Handles : g # h => handle'[g] = handle[g],
         files' \in {files, OpenedFiles(h)},
         \/ /\ files' = OpenedFiles(h) /\ handle'[h].state = "open"
            /\ handle'[h].name = handle[h].name /\ handle'[h].path = handle[h].path
            /\ handle'[h].max = handle[h].max /\ handle'[h].pending = handle[h].pending
            /\ handle'[h].requirement = handle[h].requirement
         \/ handle'[h] = NewHandle
  PROVE  Allotted'
<1> USE DEF Allotted
<1>t. /\ MaxPaths \in Nat /\ quota \in Nat /\ rows \in [Names -> 0..MaxPaths]
      /\ files \in [1..MaxPaths -> Nat \cup {-1}]
      /\ usage.path \in [Names -> -1..MaxPaths] /\ usage.size \in [Names -> Nat]
      /\ \A p \in 0..MaxPaths : FileSize(p) \in Nat
      /\ \A g \in Handles : /\ handle[g].path \in 0..MaxPaths /\ handle[g].pending \in Nat
                            /\ HandleConsistent(g)
  BY QuotaTypes
<1>0. /\ handle[h].max = -1 /\ handle[h].pending = 0
      /\ handle'[h].max = -1 /\ handle'[h].pending = 0 /\ handle'[h].requirement \in Nat
      /\ handle'[h].state \in {"open", "new"}
      /\ handle'[h].path = handle[h].path \/ handle'[h].path = 0
      /\ handle'[h].state = "open" => files' = OpenedFiles(h) /\ handle'[h].path = handle[h].path
  <2>1. handle[h].max = -1 /\ handle[h].pending = 0 /\ handle[h].requirement \in Nat
    BY <1>t DEF HandleConsistent, Numbers
  <2> QED BY <2>1 DEF NewHandle
<1>f. /\ \A p \in 1..MaxPaths : \/ files'[p] = files[p]
                                \/ p = handle[h].path /\ files[p] = -1 /\ files'[p] = 1
      /\ files' = OpenedFiles(h) /\ handle[h].path # 0 => files'[handle[h].path] # -1
  BY <1>t DEF OpenedFiles
<1>s. \A p \in 0..MaxPaths : \/ FileSize(p)' = FileSize(p)
                             \/ p # 0 /\ p = handle[h].path /\ FileSize(p)' = 1 /\ files[p] = -1
  <2> SUFFICES ASSUME NEW p \in 1..MaxPaths
               PROVE  FileSize(p)' = FileSize(p) \/ (p = handle[h].path /\ FileSize(p)' = 1 /\ files[p] = -1)
    BY <1>t DEF FileSize
  <2>1. CASE files'[p] = files[p]
    BY <2>1 DEF FileSize
  <2>2. CASE p = handle[h].path /\ files[p] = -1 /\ files'[p] = 1
    BY <2>2 DEF FileSize
  <2> QED BY <1>f, <2>1, <2>2
<1>n. /\ usage'.cached \in Nat \cup {-1} /\ (usage'.tracked \/ usage'.partial => usage' = usage)
      /\ \A n \in Names : /\ usage'.path[n] > 0 => usage' = usage
                          /\ usage'.size[n] = usage.size[n] \/ usage'.size[n] = 0
                          /\ usage'.size[n] > 0 => usage' = usage
  BY RecordKept
<1>1. FilesHavePages'
  BY <1>f DEF FilesHavePages
<1>2. OpenHasFile'
  <2> SUFFICES ASSUME NEW g \in Handles, handle'[g].state = "open", handle'[g].path # 0
               PROVE  files'[handle'[g].path] # -1
    BY DEF OpenHasFile
  <2>1. CASE g = h
    BY <1>0, <1>f, <2>1
  <2>2. CASE g # h
    BY <1>t, <1>f, <2>2 DEF OpenHasFile
  <2> QED BY <2>1, <2>2
<1>3. Numbers'
  BY <1>n, <1>0 DEF Numbers
<1>4. RecordOfRows'
  BY <1>n DEF RecordOfRows
<1>5. OneGrows'
  <2>1. \A g \in Handles : Grows(g)' => Grows(g)
    BY <1>0 DEF Grows, NameOf
  <2> QED BY <2>1 DEF OneGrows
<1>6. FileThere'
  <2> SUFFICES ASSUME NEW g \in Handles, handle'[g].state = "established", rows[NameOf(g)'] # 0
               PROVE  files'[rows[NameOf(g)']] # -1
    BY DEF FileThere, NameOf
  <2>1. handle'[g] = handle[g]
    BY <1>0
  <2>2. NameOf(g) \in Names /\ NameOf(g)' = NameOf(g)
    BY <1>t, <2>1 DEF HandleConsistent, NameOf
  <2>3. rows[NameOf(g)] \in 1..MaxPaths /\ files[rows[NameOf(g)]] # -1
    BY <1>t, <2>1, <2>2 DEF FileThere
  <2> QED BY <1>f, <2>2, <2>3
<1>7. WithinMax'
  <2> SUFFICES ASSUME NEW g \in Handles, handle'[g].pending > 0, handle'[g].path # 0
               PROVE  FileSize(handle[g].path)' + handle'[g].pending <= handle'[g].max /\ handle'[g] = handle[g]
    BY DEF WithinMax, FileSize
  <2>1. handle'[g] = handle[g] /\ handle[g].state = "open"
    BY <1>0, <1>t DEF HandleConsistent
  <2>2. files[handle[g].path] # -1
    BY <2>1 DEF OpenHasFile
  <2>3. PICK p \in 0..MaxPaths : p = handle[g].path /\ p = handle'[g].path
    BY <1>t, <2>1
  <2>4. FileSize(p)' = FileSize(p)
    BY <1>s, <2>2, <2>3
  <2>5. FileSize(handle[g].path)' = FileSize(p)'
    BY <2>3 DEF FileSize
  <2> QED BY <2>1, <2>3, <2>4, <2>5 DEF WithinMax
<1>o. \A g \in Handles, n \in Names : OpensFile(g, n)' => OpensFile(g, n)
  BY <1>0 DEF OpensFile, NameOf
<1>p. \A n \in Names : \/ FileSize(rows[n])' = FileSize(rows[n])
                       \/ FileSize(rows[n])' = 1 /\ OpensFile(h, n)
  <2> SUFFICES ASSUME NEW n \in Names
               PROVE  FileSize(rows[n])' = FileSize(rows[n]) \/ (FileSize(rows[n])' = 1 /\ OpensFile(h, n))
    OBVIOUS
  <2>1. PICK p \in 0..MaxPaths : p = rows[n] /\ p = rows'[n]
    BY <1>t
  <2>2. FileSize(rows[n])' = FileSize(p)'
    BY <2>1 DEF FileSize
  <2>3. \/ FileSize(p)' = FileSize(p)
        \/ rows[n] # 0 /\ rows[n] = handle[h].path /\ FileSize(p)' = 1
    BY <1>s, <2>1
  <2> QED BY <2>1, <2>2, <2>3 DEF OpensFile
<1>8. KnownSizes'
  <2> SUFFICES ASSUME usage'.tracked, NEW n \in Names, rows[n] # 0, n \notin usage'.unknown
               PROVE  /\ FileSize(rows[n])' <= usage'.size[n]
                      /\ \A g \in Handles : OpensFile(g, n)' => usage'.size[n] > 0
    BY DEF KnownSizes
  <2>1. usage' = usage
    BY <1>n
  <2>2. FileSize(rows[n]) <= usage.size[n] /\ \A g \in Handles : OpensFile(g, n) => usage.size[n] > 0
    BY <2>1 DEF KnownSizes
  <2>3. FileSize(rows[n]) \in Nat /\ usage.size[n] \in Nat
    BY <1>t
  <2> QED BY <1>o, <1>p, <2>1, <2>2, <2>3
<1>9. Allotment'
  <2>1. PICK allot \in [Names -> Nat] : Allots(allot)
    BY DEF Allotment
  <2>2. Covers(allot)'
    <3> SUFFICES ASSUME NEW n \in Names
                 PROVE  /\ FileSize(rows[n])' <= allot[n] /\ usage'.size[n] <= allot[n]
                        /\ \A g \in Handles :
                             /\ handle'[g].path = rows[n] /\ rows[n] # 0 => handle'[g].max <= allot[n]
                             /\ OpensFile(g, n)' => allot[n] > 0
      BY DEF Covers
    <3>1. /\ FileSize(rows[n]) <= allot[n] /\ usage.size[n] <= allot[n]
          /\ \A g \in Handles :
               /\ handle[g].path = rows[n] /\ rows[n] # 0 => handle[g].max <= allot[n]
               /\ OpensFile(g, n) => allot[n] > 0
      BY <2>1 DEF Allots, Covers
    <3>2. FileSize(rows[n]) \in Nat /\ allot[n] \in Nat
      BY <1>t
    <3> QED BY <1>n, <1>o, <1>p, <1>0, <3>1, <3>2
  <2>3. \A g \in Handles : handle'[g].state = "asking" => SumOf(allot) < handle'[g].requirement
    BY <2>1, <1>0 DEF Allots
  <2>4. SumOf(allot) <= quota'
    BY <2>1 DEF Allots
  <2>5. Allots(allot)'
    BY <2>2, <2>3, <2>4 DEF Allots
  <2> QED BY <2>5 DEF Allotment
<1>10. PendingUnknown'
  <2> SUFFICES ASSUME usage' = usage, usage.tracked, NEW g \in Handles, handle'[g].pending > 0,
                      handle'[g].path # 0, handle'[g].path = rows[NameOf(g)']
               PROVE  NameOf(g)' \in usage.unknown
    BY <1>n DEF PendingUnknown, NameOf
  <2>1. handle'[g] = handle[g] /\ NameOf(g)' = NameOf(g)
    BY <1>0 DEF NameOf
  <2> QED BY <2>1 DEF PendingUnknown
<1> QED BY <1>1, <1>2, <1>3, <1>4, <1>5, <1>6, <1>7, <1>8, <1>9, <1>10

\* A statement of a transaction adds a page to its cache.
LEMMA ExecuteStatementQuota ==
  ASSUME IInv, IInv', Allotted, NEW h \in Handles, ExecuteStatement(h), usage.tracked
  PROVE  Allotted'
<1> USE DEF Allotted
<1>t. /\ MaxPaths \in Nat /\ quota \in Nat /\ rows \in [Names -> 0..MaxPaths]
      /\ usage.path \in [Names -> -1..MaxPaths] /\ usage.size \in [Names -> Nat]
      /\ \A p \in 0..MaxPaths : FileSize(p) \in Nat
      /\ \A g \in Handles : /\ handle[g].path \in 0..MaxPaths /\ handle[g].pending \in Nat
                            /\ HandleConsistent(g)
  BY QuotaTypes
<1>u. /\ UNCHANGED <<quota, rows, files>> /\ usage' = MarkDatabase(usage, NameOf(h))
      /\ handle[h].state = "open" /\ FileSize(handle[h].path) + handle[h].pending < handle[h].max
      /\ handle' = [handle EXCEPT ![h].pending = @ + 1]
  BY DEF ExecuteStatement, tableVars
<1>h. /\ handle'[h].state = handle[h].state /\ handle'[h].name = handle[h].name /\ handle'[h].path = handle[h].path
      /\ handle'[h].max = handle[h].max /\ handle'[h].pending = handle[h].pending + 1
      /\ handle'[h].requirement = handle[h].requirement
      /\ \A g \in Handles : g # h => handle'[g] = handle[g]
  BY <1>u DEF IInv, Shapes, HandlesOK, HandleShape
<1>s. \A p : FileSize(p)' = FileSize(p)
  BY <1>u DEF FileSize
<1>n. NameOf(h) \in Names /\ NameOf(h)' = NameOf(h)
  BY <1>t, <1>u, <1>h DEF HandleConsistent, NameOf
<1>m. /\ usage'.tracked = usage.tracked /\ usage'.partial = usage.partial /\ usage'.cached = -1 /\ usage'.unknown = usage.unknown \cup {NameOf(h)}
      /\ usage'.path = usage.path
      /\ \A n \in Names : usage'.size[n] = IF n = NameOf(h) THEN 0 ELSE usage.size[n]
  <2>1. usage \in [tracked: BOOLEAN, partial: BOOLEAN, path: [Names -> -1..MaxPaths], size: [Names -> Nat],
                   unknown: SUBSET Names, cached: {usage.cached}]
    BY DEF IInv, Shapes, UsageOK
  <2>2. /\ usage'.tracked = usage.tracked /\ usage'.partial = usage.partial /\ usage'.cached = -1 /\ usage'.unknown = usage.unknown \cup {NameOf(h)}
        /\ usage'.path = usage.path /\ usage'.size = [usage.size EXCEPT ![NameOf(h)] = 0]
    <3> DEFINE new == MarkDatabase(usage, NameOf(h))
    <3>1. /\ new \in [tracked: BOOLEAN, partial: BOOLEAN, path: [Names -> -1..MaxPaths], size: [Names -> Nat],
                      unknown: SUBSET Names, cached: {new.cached}]
          /\ new.tracked = usage.tracked /\ new.partial = usage.partial /\ new.cached = -1
          /\ new.unknown = usage.unknown \cup {NameOf(h)}
          /\ new.path = usage.path /\ new.size = [usage.size EXCEPT ![NameOf(h)] = 0]
      BY ONLY <1>n, <2>1, MarkDatabaseResult
    <3>2. usage' = new
      BY <1>u
    <3> HIDE DEF new
    <3> QED BY <3>1, <3>2
  <2> QED BY <1>t, <2>2
<1>1. FilesHavePages'
  BY <1>u DEF FilesHavePages
<1>2. OpenHasFile'
  BY <1>u, <1>h DEF OpenHasFile
<1>3. Numbers'
  BY <1>m, <1>h DEF Numbers
<1>4. RecordOfRows'
  BY <1>m, <1>u DEF RecordOfRows
<1>5. OneGrows'
  <2>1. \A g \in Handles : Grows(g)' => Grows(g)
    BY <1>h, <1>u DEF Grows, NameOf
  <2> QED BY <2>1 DEF OneGrows
<1>6. FileThere'
  BY <1>h, <1>u DEF FileThere, NameOf
<1>7. WithinMax'
  <2> SUFFICES ASSUME NEW g \in Handles, handle'[g].pending > 0, handle'[g].path # 0
               PROVE  FileSize(handle[g].path) + handle'[g].pending <= handle'[g].max /\ handle'[g].path = handle[g].path
    BY <1>u DEF WithinMax, FileSize
  <2>1. CASE g = h
    <3>1. FileSize(handle[h].path) \in Nat /\ handle[h].pending \in Nat /\ handle[h].max \in Int
      BY <1>t DEF Numbers
    <3> QED BY <1>u, <1>h, <2>1, <3>1
  <2>2. CASE g # h
    BY <1>h, <2>2 DEF WithinMax
  <2> QED BY <2>1, <2>2
<1>o. \A g \in Handles, n \in Names : OpensFile(g, n)' <=> OpensFile(g, n)
  BY <1>h, <1>u DEF OpensFile, NameOf
<1>8. KnownSizes'
  BY <1>m, <1>o, <1>s, <1>u DEF KnownSizes
<1>9. Allotment'
  <2>1. PICK allot \in [Names -> Nat] : Allots(allot)
    BY DEF Allotment
  <2>2. Covers(allot)'
    <3> SUFFICES ASSUME NEW n \in Names
                 PROVE  /\ FileSize(rows[n]) <= allot[n] /\ usage'.size[n] <= allot[n]
                        /\ \A g \in Handles :
                             /\ handle'[g].path = rows[n] /\ rows[n] # 0 => handle'[g].max <= allot[n]
                             /\ OpensFile(g, n)' => allot[n] > 0
      BY <1>s, <1>u DEF Covers
    <3>1. /\ FileSize(rows[n]) <= allot[n] /\ usage.size[n] <= allot[n]
          /\ \A g \in Handles :
               /\ handle[g].path = rows[n] /\ rows[n] # 0 => handle[g].max <= allot[n]
               /\ OpensFile(g, n) => allot[n] > 0
      BY <2>1 DEF Allots, Covers
    <3> QED BY <1>h, <1>m, <1>o, <3>1
  <2>3. \A g \in Handles : handle'[g].state = "asking" => SumOf(allot) < handle'[g].requirement
    BY <2>1, <1>h, <1>u DEF Allots
  <2>4. SumOf(allot) <= quota'
    BY <1>u, <2>1 DEF Allots
  <2>5. Allots(allot)'
    BY <2>2, <2>3, <2>4 DEF Allots
  <2> QED BY <2>5 DEF Allotment
<1>10. PendingUnknown'
  <2> SUFFICES ASSUME usage.tracked, NEW g \in Handles, handle'[g].pending > 0,
                      handle'[g].path # 0, handle'[g].path = rows[NameOf(g)']
               PROVE  NameOf(g)' \in usage'.unknown
    BY <1>m, <1>u DEF PendingUnknown, NameOf
  <2>1. CASE g = h
    BY <1>m, <1>n, <2>1
  <2>2. CASE g # h
    BY <1>m, <1>h, <2>2 DEF PendingUnknown, NameOf
  <2> QED BY <2>1, <2>2
<1> QED BY <1>1, <1>2, <1>3, <1>4, <1>5, <1>6, <1>7, <1>8, <1>9, <1>10

\* The transaction of a handle writes its pages, or rolls back.
LEMMA EndTransactionQuota ==
  ASSUME IInv, IInv', Allotted, NEW h \in Handles, EndTransaction(h)
  PROVE  Allotted'
<1> USE DEF Allotted
<1>t. /\ MaxPaths \in Nat /\ quota \in Nat /\ rows \in [Names -> 0..MaxPaths]
      /\ files \in [1..MaxPaths -> Nat \cup {-1}]
      /\ usage.path \in [Names -> -1..MaxPaths] /\ usage.size \in [Names -> Nat]
      /\ \A p \in 0..MaxPaths : FileSize(p) \in Nat
      /\ \A g \in Handles : /\ handle[g].path \in 0..MaxPaths /\ handle[g].pending \in Nat
                            /\ handle[g].max \in Nat \cup {-1} /\ HandleConsistent(g)
  BY QuotaTypes DEF Numbers
<1>u. /\ UNCHANGED <<quota, rows, usage>> /\ handle[h].max # -1
      /\ handle' = [handle EXCEPT ![h].max = -1, ![h].pending = 0]
  BY DEF EndTransaction, tableVars
<1>h. /\ handle'[h].state = handle[h].state /\ handle'[h].name = handle[h].name /\ handle'[h].path = handle[h].path
      /\ handle'[h].max = -1 /\ handle'[h].pending = 0 /\ handle'[h].requirement = handle[h].requirement
      /\ \A g \in Handles : g # h => handle'[g] = handle[g]
  <2>1. /\ handle'[h] = [handle[h] EXCEPT !.max = -1, !.pending = 0]
        /\ \A g \in Handles : g # h => handle'[g] = handle[g]
    BY <1>u DEF IInv, Shapes, HandlesOK
  <2>2. HandleShape(h)
    BY DEF IInv, Shapes, HandlesOK
  <2> QED BY <2>1, <2>2 DEF HandleShape
<1>f. \A p \in 1..MaxPaths : \/ files'[p] = files[p]
                             \/ /\ p = handle[h].path /\ files[p] # -1 /\ handle[h].pending > 0
                                /\ files'[p] = files[p] + handle[h].pending
  <2>1. CASE files' = files
    BY <2>1
  <2>2. CASE handle[h].path # 0 /\ files' = [files EXCEPT ![handle[h].path] = @ + handle[h].pending] /\ files[handle[h].path] # -1
    BY <1>t, <2>2
  <2> QED BY <2>1, <2>2 DEF EndTransaction
<1>s. \A p \in 0..MaxPaths :
        \/ FileSize(p)' = FileSize(p)
        \/ /\ p # 0 /\ p = handle[h].path /\ handle[h].pending > 0
           /\ FileSize(p)' = FileSize(p) + handle[h].pending /\ FileSize(p)' <= handle[h].max
  <2> SUFFICES ASSUME NEW p \in 1..MaxPaths, p = handle[h].path, handle[h].pending > 0,
                      files[p] # -1, files'[p] = files[p] + handle[h].pending
               PROVE  FileSize(p)' = FileSize(p) + handle[h].pending /\ FileSize(p)' <= handle[h].max
    BY <1>t, <1>f DEF FileSize
  <2>1. FileSize(p) = files[p] /\ files[p] \in Nat /\ handle[h].pending \in Nat
    BY <1>t DEF FileSize
  <2>2. FileSize(p)' = FileSize(p) + handle[h].pending
    BY <2>1 DEF FileSize
  <2>3. FileSize(p) + handle[h].pending <= handle[h].max
    BY <1>t DEF WithinMax
  <2> QED BY <2>2, <2>3
<1>1. FilesHavePages'
  <2> SUFFICES ASSUME NEW p \in 1..MaxPaths  PROVE files'[p] # 0
    BY DEF FilesHavePages
  <2>1. files[p] \in Nat \cup {-1} /\ files[p] # 0 /\ handle[h].pending \in Nat
    BY <1>t DEF FilesHavePages
  <2>2. \/ files'[p] = files[p]
        \/ files[p] # -1 /\ files'[p] = files[p] + handle[h].pending
    BY <1>f
  <2> QED BY <2>1, <2>2
<1>e. \A p \in 1..MaxPaths : files[p] # -1 => files'[p] # -1
  <2> SUFFICES ASSUME NEW p \in 1..MaxPaths, files[p] # -1  PROVE files'[p] # -1
    OBVIOUS
  <2>1. files[p] \in Nat /\ handle[h].pending \in Nat
    BY <1>t
  <2>2. files'[p] = files[p] \/ files'[p] = files[p] + handle[h].pending
    BY <1>f
  <2> QED BY <2>1, <2>2
<1>2. OpenHasFile'
  <2> SUFFICES ASSUME NEW g \in Handles, handle[g].state = "open", handle[g].path # 0
               PROVE  files'[handle[g].path] # -1
    BY <1>h DEF OpenHasFile
  <2> QED BY <1>e, <1>t DEF OpenHasFile
<1>3. Numbers'
  BY <1>u, <1>h DEF Numbers
<1>4. RecordOfRows'
  BY <1>u DEF RecordOfRows
<1>5. OneGrows'
  <2>1. \A g \in Handles : Grows(g)' => Grows(g)
    BY <1>h, <1>u DEF Grows, NameOf
  <2> QED BY <2>1 DEF OneGrows
<1>6. FileThere'
  <2> SUFFICES ASSUME NEW g \in Handles, handle[g].state = "established", rows[NameOf(g)] # 0
               PROVE  files'[rows[NameOf(g)]] # -1
    <3>1. \A g \in Handles : NameOf(g)' = NameOf(g) /\ handle'[g].state = handle[g].state
      BY <1>h DEF NameOf
    <3> QED BY <1>u, <3>1 DEF FileThere
  <2>1. NameOf(g) \in Names
    BY <1>t DEF HandleConsistent
  <2>2. rows[NameOf(g)] \in 1..MaxPaths /\ files[rows[NameOf(g)]] # -1
    BY <1>t, <2>1 DEF FileThere
  <2> QED BY <1>e, <2>2
<1>7. WithinMax'
  <2> SUFFICES ASSUME NEW g \in Handles, g # h, handle[g].pending > 0, handle[g].path # 0
               PROVE  FALSE
    BY <1>h DEF WithinMax
  <2>1. handle[g].max # -1
    BY <1>t DEF WithinMax
  <2> QED BY <1>u, <2>1 DEF OneGrows, Grows
<1>o. \A g \in Handles, n \in Names : OpensFile(g, n)' <=> OpensFile(g, n)
  BY <1>h, <1>u DEF OpensFile, NameOf
<1>p. \A n \in Names :
        \/ FileSize(rows[n])' = FileSize(rows[n])
        \/ /\ rows[n] # 0 /\ rows[n] = handle[h].path /\ handle[h].pending > 0
           /\ FileSize(rows[n])' <= handle[h].max
  <2> SUFFICES ASSUME NEW n \in Names
               PROVE  \/ FileSize(rows[n])' = FileSize(rows[n])
                      \/ /\ rows[n] # 0 /\ rows[n] = handle[h].path /\ handle[h].pending > 0
                         /\ FileSize(rows[n])' <= handle[h].max
    OBVIOUS
  <2>1. PICK p \in 0..MaxPaths : p = rows[n] /\ p = rows'[n]
    BY <1>t, <1>u
  <2>2. FileSize(rows[n])' = FileSize(p)'
    BY <2>1 DEF FileSize
  <2> QED BY <1>s, <2>1, <2>2
<1>8. KnownSizes'
  <2> SUFFICES ASSUME usage.tracked, NEW n \in Names, rows[n] # 0, n \notin usage.unknown
               PROVE  FileSize(rows[n])' <= usage.size[n]
    BY <1>o, <1>u DEF KnownSizes
  <2>1. FileSize(rows[n]) <= usage.size[n]
    BY DEF KnownSizes
  <2>2. ASSUME rows[n] = handle[h].path, handle[h].pending > 0  PROVE FALSE
    <3>1. n = NameOf(h)
      BY <1>t, <2>2 DEF HandleConsistent
    <3> QED BY <2>2, <3>1 DEF PendingUnknown
  <2> QED BY <1>p, <2>1, <2>2
<1>9. Allotment'
  <2>1. PICK allot \in [Names -> Nat] : Allots(allot)
    BY DEF Allotment
  <2>2. Covers(allot)'
    <3> SUFFICES ASSUME NEW n \in Names
                 PROVE  /\ FileSize(rows[n])' <= allot[n] /\ usage.size[n] <= allot[n]
                        /\ \A g \in Handles :
                             /\ handle'[g].path = rows[n] /\ rows[n] # 0 => handle'[g].max <= allot[n]
                             /\ OpensFile(g, n) => allot[n] > 0
      BY <1>o, <1>u DEF Covers
    <3>1. /\ FileSize(rows[n]) <= allot[n] /\ usage.size[n] <= allot[n]
          /\ \A g \in Handles :
               /\ handle[g].path = rows[n] /\ rows[n] # 0 => handle[g].max <= allot[n]
               /\ OpensFile(g, n) => allot[n] > 0
      BY <2>1 DEF Allots, Covers
    <3>2. allot[n] \in Nat
      OBVIOUS
    <3>3. FileSize(rows[n])' <= allot[n]
      <4>1. CASE FileSize(rows[n])' = FileSize(rows[n])
        BY <3>1, <4>1
      <4>2. CASE /\ rows[n] # 0 /\ rows[n] = handle[h].path /\ handle[h].pending > 0
                 /\ FileSize(rows[n])' <= handle[h].max
        <5>1. handle[h].max <= allot[n] /\ handle[h].max \in Int
          BY <1>t, <3>1, <4>2
        <5>2. FileSize(rows[n])' \in Nat
          <6>1. PICK p \in 0..MaxPaths : p = rows[n] /\ p = rows'[n]
            BY <1>t, <1>u
          <6>2. FileSize(rows[n])' = FileSize(p)'
            BY <6>1 DEF FileSize
          <6>3. FileSize(p) \in Nat /\ handle[h].pending \in Nat
            BY <1>t
          <6> QED BY <1>s, <6>2, <6>3
        <5> QED BY <3>2, <4>2, <5>1, <5>2
      <4> QED BY <1>p, <4>1, <4>2
    <3> QED BY <1>h, <3>1, <3>2, <3>3
  <2>3. \A g \in Handles : handle'[g].state = "asking" => SumOf(allot) < handle'[g].requirement
    BY <2>1, <1>h, <1>u DEF Allots
  <2>4. SumOf(allot) <= quota'
    BY <1>u, <2>1 DEF Allots
  <2>5. Allots(allot)'
    BY <2>2, <2>3, <2>4 DEF Allots
  <2> QED BY <2>5 DEF Allotment
<1>10. PendingUnknown'
  <2> SUFFICES ASSUME usage.tracked, NEW g \in Handles, handle'[g].pending > 0,
                      handle'[g].path # 0, handle'[g].path = rows[NameOf(g)']
               PROVE  NameOf(g)' \in usage.unknown
    BY <1>u DEF PendingUnknown, NameOf
  <2>1. handle'[g] = handle[g] /\ NameOf(g)' = NameOf(g)
    BY <1>h DEF NameOf
  <2> QED BY <2>1 DEF PendingUnknown
<1> QED BY <1>1, <1>2, <1>3, <1>4, <1>5, <1>6, <1>7, <1>8, <1>9, <1>10

\* The row of a database is deleted.
LEMMA DoneDeletingDatabaseQuota ==
  ASSUME IInv, IInv', Allotted, DoneDeletingDatabase
  PROVE  Allotted'
<1> USE DEF Allotted
<1>t. /\ MaxPaths \in Nat /\ rows \in [Names -> 0..MaxPaths]
      /\ usage.path \in [Names -> -1..MaxPaths] /\ usage.size \in [Names -> Nat]
      /\ \A g \in Handles : HandleConsistent(g)
  BY QuotaTypes
<1>u. UNCHANGED <<quota, files, handle>> /\ deleter.at = "lookup" /\ ~deleter.origin
  BY DEF DoneDeletingDatabase
<1>d. PICK n \in Names : beingDeleted = {n}
  BY <1>u DEF IInv, DeletionNoted
<1>r. \A m \in Names : rows'[m] = IF m = n THEN 0 ELSE rows[m]
  BY <1>d DEF DoneDeletingDatabase
<1>m. usage' = RemoveDatabase(usage, n)
  BY <1>d DEF DoneDeletingDatabase
<1>g. \A g \in Handles : handle[g].state = "established" => NameOf(g) # n /\ NameOf(g) \in Names
  BY <1>d, NotDeleted DEF BeingDeleted, Opening
<1>h. \A g \in Handles : NameOf(g)' = NameOf(g)
  BY <1>u DEF NameOf
<1>s. \A p : FileSize(p)' = FileSize(p)
  BY <1>u DEF FileSize
<1>k. /\ usage'.tracked = usage.tracked /\ usage'.cached \in {-1, usage.cached}
      /\ \A m \in Names : m # n => usage'.path[m] = usage.path[m] /\ usage'.size[m] = usage.size[m]
      /\ usage'.path[n] <= 0 /\ usage'.size[n] = 0 /\ usage'.unknown \in {usage.unknown, usage.unknown \ {n}}
  <2>1. CASE usage.tracked
    <3>1. usage \in [tracked: BOOLEAN, partial: BOOLEAN, path: [Names -> -1..MaxPaths], size: [Names -> Nat],
                     unknown: SUBSET Names, cached: {usage.cached}]
      BY DEF IInv, Shapes, UsageOK
    <3>2. /\ usage'.tracked = usage.tracked /\ usage'.partial = usage.partial /\ usage'.cached = -1 /\ usage'.unknown = usage.unknown \ {n}
          /\ usage'.path = [usage.path EXCEPT ![n] = -1] /\ usage'.size = [usage.size EXCEPT ![n] = 0]
      <4> DEFINE new == RemoveDatabase(usage, n)
      <4>1. /\ new \in [tracked: BOOLEAN, partial: BOOLEAN, path: [Names -> -1..MaxPaths], size: [Names -> Nat],
                        unknown: SUBSET Names, cached: {new.cached}]
            /\ new.tracked = usage.tracked /\ new.partial = usage.partial /\ new.cached = -1 /\ new.unknown = usage.unknown \ {n}
            /\ new.path = [usage.path EXCEPT ![n] = -1] /\ new.size = [usage.size EXCEPT ![n] = 0]
        BY ONLY n \in Names, <2>1, <3>1, RemoveDatabaseResult
      <4>2. usage' = new
        BY <1>m
      <4> HIDE DEF new
      <4> QED BY <4>1, <4>2
    <3> QED BY <1>t, <3>2
  <2>2. CASE ~usage.tracked
    <3>1. usage' = usage
      BY <1>m, <2>2 DEF RemoveDatabase
    <3>2. ~(usage.path[n] > 0) /\ ~(usage.size[n] > 0)
      BY <2>2 DEF RecordOfRows
    <3>3. usage.path[n] \in -1..MaxPaths /\ usage.size[n] \in Nat
      BY <1>t
    <3> QED BY <1>t, <3>1, <3>2, <3>3
  <2> QED BY <1>t, <2>1, <2>2 DEF IInv, Shapes, UsageOK
<1>o. \A g \in Handles, m \in Names : OpensFile(g, m)' => OpensFile(g, m) /\ m # n
  BY <1>g, <1>h, <1>r, <1>u DEF OpensFile
<1>1. FilesHavePages' /\ OpenHasFile'
  BY <1>u DEF FilesHavePages, OpenHasFile
<1>3. Numbers'
  BY <1>k, <1>u DEF Numbers
<1>4. RecordOfRows'
  <2> SUFFICES ASSUME NEW m \in Names
               PROVE  /\ usage'.path[m] > 0 => usage'.tracked /\ usage'.path[m] = rows'[m]
                      /\ usage'.size[m] > 0 => usage'.tracked /\ rows'[m] # 0
    BY DEF RecordOfRows
  <2>1. CASE m = n
    <3>1. PICK x \in Int : x = usage'.path[n]
      BY DEF IInv, Shapes, UsageOK
    <3> QED BY <1>k, <2>1, <3>1
  <2>2. CASE m # n
    BY <1>k, <1>r, <2>2 DEF RecordOfRows
  <2> QED BY <2>1, <2>2
<1>5. OneGrows'
  <2>1. \A g \in Handles : Grows(g)' => Grows(g)
    BY <1>g, <1>h, <1>r, <1>u DEF Grows
  <2> QED BY <2>1 DEF OneGrows
<1>6. FileThere'
  <2> SUFFICES ASSUME NEW g \in Handles, handle[g].state = "established", rows'[NameOf(g)] # 0
               PROVE  files[rows'[NameOf(g)]] # -1
    BY <1>h, <1>u DEF FileThere
  <2> QED BY <1>g, <1>r DEF FileThere
<1>7. WithinMax'
  BY <1>u, <1>s DEF WithinMax
<1>8. KnownSizes'
  <2> SUFFICES ASSUME usage'.tracked, NEW m \in Names, rows'[m] # 0, m \notin usage'.unknown
               PROVE  /\ FileSize(rows'[m]) <= usage'.size[m]
                      /\ \A g \in Handles : OpensFile(g, m)' => usage'.size[m] > 0
    BY <1>u DEF KnownSizes, FileSize
  <2>1. m # n /\ rows'[m] = rows[m] /\ m \notin usage.unknown /\ usage.tracked /\ usage'.size[m] = usage.size[m]
    BY <1>r, <1>k
  <2> QED BY <1>o, <2>1 DEF KnownSizes
<1>9. Allotment'
  <2>1. PICK allot \in [Names -> Nat] : Allots(allot)
    BY DEF Allotment
  <2>2. Covers(allot)'
    <3> SUFFICES ASSUME NEW m \in Names
                 PROVE  /\ FileSize(rows'[m]) <= allot[m] /\ usage'.size[m] <= allot[m]
                        /\ \A g \in Handles :
                             /\ handle[g].path = rows'[m] /\ rows'[m] # 0 => handle[g].max <= allot[m]
                             /\ OpensFile(g, m)' => allot[m] > 0
      BY <1>u DEF Covers, FileSize
    <3>1. /\ FileSize(rows[m]) <= allot[m] /\ usage.size[m] <= allot[m]
          /\ \A g \in Handles :
               /\ handle[g].path = rows[m] /\ rows[m] # 0 => handle[g].max <= allot[m]
               /\ OpensFile(g, m) => allot[m] > 0
      BY <2>1 DEF Allots, Covers
    <3>2. CASE m # n
      BY <1>k, <1>o, <1>r, <3>1, <3>2
    <3>3. CASE m = n
      <4>1. FileSize(0) = 0 /\ rows'[m] = 0 /\ usage'.size[m] = 0 /\ allot[m] \in Nat
        BY <1>k, <1>r, <3>3 DEF FileSize
      <4> QED BY <1>o, <3>3, <4>1
    <3> QED BY <3>2, <3>3
  <2>5. Allots(allot)'
    BY <1>u, <2>1, <2>2 DEF Allots
  <2> QED BY <2>5 DEF Allotment
<1>10. PendingUnknown'
  <2> SUFFICES ASSUME usage.tracked, NEW g \in Handles, handle[g].pending > 0,
                      handle[g].path # 0, handle[g].path = rows'[NameOf(g)]
               PROVE  NameOf(g) \in usage'.unknown
    BY <1>h, <1>k, <1>u DEF PendingUnknown
  <2>1. NameOf(g) \in Names
    BY <1>t DEF HandleConsistent
  <2> QED BY <1>k, <1>r, <2>1 DEF PendingUnknown
<1> QED BY <1>1, <1>3, <1>4, <1>5, <1>6, <1>7, <1>8, <1>9, <1>10

\* The rows of the origin and its quota are deleted.
LEMMA DoneDeletingOriginQuota ==
  ASSUME IInv, IInv', Allotted, DoneDeletingOrigin
  PROVE  Allotted'
<1> USE DEF Allotted
<1>u. UNCHANGED <<files, handle>> /\ deleter.at = "lookup" /\ deleter.origin /\ usage' = NoRecord /\ quota' = 0
  BY DEF DoneDeletingOrigin
<1>t. \A g \in Handles : HandleConsistent(g) /\ handle[g].max \in Nat \cup {-1}
  BY QuotaTypes DEF Numbers
<1>r. \A m \in Names : rows'[m] = 0
  BY DEF DoneDeletingOrigin
<1>d. originDeleted
  BY <1>u DEF IInv, DeletionNoted
<1>g. \A g \in Handles : handle[g].state \notin {"asking", "established"}
  BY <1>d, NotDeleted DEF BeingDeleted, Opening
<1>k. ~usage'.tracked /\ usage'.cached = -1 /\ \A m \in Names : usage'.path[m] = -1 /\ usage'.size[m] = 0
  BY <1>u DEF NoRecord
<1>h. \A g \in Handles : NameOf(g)' = NameOf(g)
  BY <1>u DEF NameOf
<1>1. FilesHavePages' /\ OpenHasFile'
  BY <1>u DEF FilesHavePages, OpenHasFile
<1>3. Numbers'
  BY <1>k, <1>u DEF Numbers
<1>4. RecordOfRows'
  BY <1>k DEF RecordOfRows
<1>5. OneGrows'
  <2>1. \A g \in Handles : Grows(g)' => Grows(g)
    BY <1>g, <1>u DEF Grows
  <2> QED BY <2>1 DEF OneGrows
<1>6. FileThere'
  BY <1>g, <1>u DEF FileThere
<1>7. WithinMax'
  BY <1>u DEF WithinMax, FileSize
<1>8. KnownSizes' /\ PendingUnknown'
  BY <1>k DEF KnownSizes, PendingUnknown
<1>9. Allotment'
  <2> DEFINE none == [m \in Names |-> 0]
  <2>1. none \in [Names -> Nat] /\ SumOf(none) = 0 /\ \A m \in Names : none[m] = 0
    BY SumOfZero
  <2> HIDE DEF none
  <2>2. Covers(none)'
    <3> SUFFICES ASSUME NEW m \in Names
                 PROVE  /\ FileSize(0) <= 0 /\ usage'.size[m] <= 0
                        /\ \A g \in Handles : ~OpensFile(g, m)'
      BY <1>r, <1>u, <2>1 DEF Covers, FileSize
    <3> QED BY <1>g, <1>k, <1>r, <1>u DEF FileSize, OpensFile
  <2>3. Allots(none)'
    BY <1>g, <1>u, <2>1, <2>2 DEF Allots
  <2> QED BY <2>1, <2>3 DEF Allotment
<1> QED BY <1>1, <1>3, <1>4, <1>5, <1>6, <1>7, <1>8, <1>9

\* The client allowed a new database.
LEMMA GrantedQuota ==
  ASSUME IInv, IInv', Allotted, NEW h \in Handles, CanEstablishAfterAsking(h), handle[h].requirement <= quota
  PROVE  Allotted'
<1> USE DEF Allotted
<1>t. /\ MaxPaths \in Nat /\ quota \in Nat /\ rows \in [Names -> 0..MaxPaths]
      /\ usage.size \in [Names -> Nat] /\ \A n \in Names : FileSize(rows[n]) \in Nat
      /\ \A g \in Handles : /\ HandleConsistent(g) /\ handle[g].max \in Nat \cup {-1}
                            /\ handle[g].requirement \in Nat
  BY QuotaTypes DEF Numbers
<1>u. UNCHANGED <<quota, rows, files, usage>> /\ handle[h].state = "asking" /\ Goto(h, "established")
  BY DEF CanEstablishAfterAsking, tableVars
<1>h. /\ handle'[h].state = "established" /\ handle'[h].name = handle[h].name /\ handle'[h].path = handle[h].path
      /\ handle'[h].max = handle[h].max /\ handle'[h].pending = handle[h].pending
      /\ handle'[h].requirement = handle[h].requirement
      /\ \A g \in Handles : g # h => handle'[g] = handle[g]
  BY <1>u, GotoResult
<1>n. /\ NameOf(h) \in Names /\ rows[NameOf(h)] = 0 /\ \A g \in Handles : NameOf(g)' = NameOf(g)
      /\ handle[h].path = 0 /\ handle[h].pending = 0
  <2>1. HandleConsistent(h) /\ handle[h].pending \in Nat
    BY QuotaTypes
  <2>2. NameOf(h) \in Names /\ handle[h].path = 0 /\ handle[h].pending = 0
    BY <1>u, <2>1 DEF HandleConsistent
  <2>3. Proposed(NameOf(h))
    BY <1>u DEF Proposed
  <2>4. rows[NameOf(h)] = 0
    BY <2>2, <2>3 DEF IInv, ProposalsHaveNoRow
  <2>5. \A g \in Handles : NameOf(g)' = NameOf(g)
    BY <1>h DEF NameOf
  <2> QED BY <2>2, <2>4, <2>5
<1>s. \A p : FileSize(p)' = FileSize(p)
  BY <1>u DEF FileSize
<1>g. \A g \in Handles : g # h => handle[g].state # "asking"
  BY <1>u DEF OneGrows, Grows
<1>o. \A g \in Handles, m \in Names : OpensFile(g, m)' => OpensFile(g, m) \/ (m = NameOf(h) /\ rows[m] = 0)
  BY <1>h, <1>n, <1>u DEF OpensFile
<1>1. FilesHavePages' /\ OpenHasFile'
  BY <1>u, <1>h DEF FilesHavePages, OpenHasFile
<1>3. Numbers'
  BY <1>h, <1>u DEF Numbers
<1>4. RecordOfRows'
  BY <1>u DEF RecordOfRows
<1>5. OneGrows'
  <2>1. \A g \in Handles : Grows(g)' => Grows(g)
    BY <1>h, <1>n, <1>u DEF Grows
  <2> QED BY <2>1 DEF OneGrows
<1>6. FileThere'
  <2> SUFFICES ASSUME NEW g \in Handles, handle'[g].state = "established", rows[NameOf(g)] # 0
               PROVE  files[rows[NameOf(g)]] # -1
    BY <1>n, <1>u DEF FileThere
  <2> QED BY <1>h, <1>n DEF FileThere
<1>7. WithinMax'
  <2> SUFFICES ASSUME NEW g \in Handles, handle'[g].pending > 0, handle'[g].path # 0
               PROVE  handle'[g] = handle[g]
    BY <1>u DEF WithinMax, FileSize
  <2> QED BY <1>h, <1>n
<1>8. KnownSizes'
  <2> SUFFICES ASSUME usage.tracked, NEW m \in Names, rows[m] # 0, m \notin usage.unknown
               PROVE  /\ FileSize(rows[m]) <= usage.size[m]
                      /\ \A g \in Handles : OpensFile(g, m)' => usage.size[m] > 0
    BY <1>u, <1>s DEF KnownSizes
  <2> QED BY <1>o DEF KnownSizes
<1>9. Allotment'
  <2>1. PICK allot \in [Names -> Nat] : Allots(allot)
    BY DEF Allotment
  <2>2. PICK k \in Nat : k = allot[NameOf(h)]
    BY <1>n
  <2>3. PICK more : more = [allot EXCEPT ![NameOf(h)] = k + 1]
    OBVIOUS
  <2>4. /\ more \in [Names -> Nat] /\ more[NameOf(h)] = k + 1
        /\ \A m \in Names : m # NameOf(h) => more[m] = allot[m]
    BY <1>n, <2>3
  <2>5. SumOf(more) = SumOf(allot) + 1 /\ SumOf(allot) \in Nat
    <3>1. SumOf(more) + k = SumOf(allot) + (k + 1)
      <4>1. PICK n \in Names : n = NameOf(h)
        BY <1>n
      <4>2. k + 1 \in Nat /\ more = [allot EXCEPT ![n] = k + 1] /\ allot[n] = k
        BY <2>2, <2>3, <4>1
      <4> QED BY <4>2, SumOfChange
    <3>2. SumOf(more) \in Nat /\ SumOf(allot) \in Nat
      BY <2>4, SumOfNat
    <3> QED BY <3>1, <3>2
  <2>6. Covers(more)'
    <3> SUFFICES ASSUME NEW m \in Names
                 PROVE  /\ FileSize(rows[m]) <= more[m] /\ usage.size[m] <= more[m]
                        /\ \A g \in Handles :
                             /\ handle'[g].path = rows[m] /\ rows[m] # 0 => handle'[g].max <= more[m]
                             /\ OpensFile(g, m)' => more[m] > 0
      BY <1>u, <1>s DEF Covers
    <3>1. /\ FileSize(rows[m]) <= allot[m] /\ usage.size[m] <= allot[m]
          /\ \A g \in Handles :
               /\ handle[g].path = rows[m] /\ rows[m] # 0 => handle[g].max <= allot[m]
               /\ OpensFile(g, m) => allot[m] > 0
      BY <2>1 DEF Allots, Covers
    <3>2. allot[m] <= more[m] /\ allot[m] \in Nat /\ more[m] \in Nat /\ (m = NameOf(h) => more[m] > 0)
      BY <2>2, <2>4
    <3>3. FileSize(rows[m]) \in Nat /\ usage.size[m] \in Nat
      BY <1>t
    <3>4. ASSUME NEW g \in Handles, handle'[g].path = rows[m], rows[m] # 0  PROVE handle'[g].max <= more[m]
      <4>1. handle[g].path = rows[m] /\ handle'[g].max = handle[g].max /\ handle[g].max \in Int
        BY <1>h, <1>t, <3>4
      <4>2. handle[g].max <= allot[m]
        BY <3>1, <3>4, <4>1
      <4> QED BY <3>2, <4>1, <4>2
    <3> QED BY <1>o, <3>1, <3>2, <3>3, <3>4
  <2>7. SumOf(more) <= quota'
    <3>1. SumOf(allot) < handle[h].requirement
      BY <1>u, <2>1 DEF Allots
    <3> QED BY <1>t, <1>u, <2>5, <3>1
  <2>8. \A g \in Handles : handle'[g].state # "asking"
    BY <1>g, <1>h
  <2>9. Allots(more)'
    BY <2>6, <2>7, <2>8 DEF Allots
  <2> QED BY <2>4, <2>9 DEF Allotment
<1>10. PendingUnknown'
  <2> SUFFICES ASSUME usage.tracked, NEW g \in Handles, handle'[g].pending > 0,
                      handle'[g].path # 0, handle'[g].path = rows[NameOf(g)]
               PROVE  NameOf(g) \in usage.unknown
    BY <1>n, <1>u DEF PendingUnknown
  <2> QED BY <1>h, <1>n DEF PendingUnknown
<1> QED BY <1>1, <1>3, <1>4, <1>5, <1>6, <1>7, <1>8, <1>9, <1>10

\* A file name that was not given out has no file.
FreshFiles == \A p \in 1..MaxPaths : p > lastPath => files[p] = -1

\* A handle is given the path of the row with its name, or none.
LEMMA RowPathQuota ==
  ASSUME IInv, IInv', Allotted, NEW h \in Handles, FullPathForDatabase(h),
         Proposed(NameOf(h)) \/ rows[NameOf(h)] # 0
  PROVE  Allotted'
<1> USE DEF Allotted
<1>t. /\ MaxPaths \in Nat /\ quota \in Nat /\ rows \in [Names -> 0..MaxPaths]
      /\ files \in [1..MaxPaths -> Nat \cup {-1}]
      /\ usage.size \in [Names -> Nat] /\ \A n \in Names : FileSize(rows[n]) \in Nat
      /\ \A g \in Handles : /\ HandleConsistent(g) /\ handle[g].max \in Nat \cup {-1}
                            /\ handle[g].pending \in Nat
  BY QuotaTypes DEF Numbers
<1>0. PICK n : n = NameOf(h)
  OBVIOUS
<1>u. /\ UNCHANGED <<quota, rows, files, usage>> /\ handle[h].state = "established"
      /\ handle' = [handle EXCEPT ![h].state = "pathed", ![h].path = PathOf(n)]
  BY <1>0 DEF FullPathForDatabase
<1>h. /\ handle'[h].state = "pathed" /\ handle'[h].name = handle[h].name /\ handle'[h].path = PathOf(n)
      /\ handle'[h].max = handle[h].max /\ handle'[h].pending = handle[h].pending
      /\ handle'[h].requirement = handle[h].requirement
      /\ \A g \in Handles : g # h => handle'[g] = handle[g]
  <2>1. /\ handle'[h] = [handle[h] EXCEPT !.state = "pathed", !.path = PathOf(n)]
        /\ \A g \in Handles : g # h => handle'[g] = handle[g]
    BY <1>u DEF IInv, Shapes, HandlesOK
  <2>2. HandleShape(h)
    BY DEF IInv, Shapes, HandlesOK
  <2> QED BY <2>1, <2>2 DEF HandleShape
<1>c. n \in Names /\ handle[h].max = -1 /\ handle[h].pending = 0
  BY <1>0, <1>t, <1>u DEF HandleConsistent
<1>n. \A g \in Handles : NameOf(g)' = NameOf(g)
  BY <1>h DEF NameOf
<1>s. \A p : FileSize(p)' = FileSize(p)
  BY <1>u DEF FileSize
<1>p. handle'[h].path # 0 => handle'[h].path = rows[n]
  BY <1>h DEF PathOf
<1>z. rows[n] # 0 => FileSize(rows[n]) > 0
  <2> SUFFICES ASSUME rows[n] # 0  PROVE FileSize(rows[n]) > 0
    OBVIOUS
  <2>1. rows[n] \in 1..MaxPaths /\ files[rows[n]] # -1
    BY <1>0, <1>c, <1>t, <1>u DEF FileThere
  <2>2. files[rows[n]] \in Nat \ {0}
    BY <1>t, <2>1 DEF FilesHavePages
  <2> QED BY <2>1, <2>2 DEF FileSize
<1>o. \A g \in Handles, m \in Names : OpensFile(g, m)' => OpensFile(g, m) \/ (FileSize(rows[m]) > 0 /\ rows[m] # 0)
  <2> SUFFICES ASSUME NEW m \in Names, OpensFile(h, m)'
               PROVE  FileSize(rows[m]) > 0 /\ rows[m] # 0
    BY <1>h, <1>n, <1>u DEF OpensFile
  <2>1. rows[m] # 0 /\ rows[m] = rows[n]
    BY <1>h, <1>p, <1>u DEF OpensFile
  <2> QED BY <1>z, <2>1
<1>1. FilesHavePages' /\ OpenHasFile'
  BY <1>u, <1>h DEF FilesHavePages, OpenHasFile
<1>3. Numbers'
  BY <1>h, <1>u DEF Numbers
<1>4. RecordOfRows'
  BY <1>u DEF RecordOfRows
<1>5. OneGrows'
  <2>1. \A g \in Handles : Grows(g)' => Grows(g)
    BY <1>h, <1>n, <1>u DEF Grows
  <2> QED BY <2>1 DEF OneGrows
<1>6. FileThere'
  <2> SUFFICES ASSUME NEW g \in Handles, handle'[g].state = "established", rows[NameOf(g)] # 0
               PROVE  files[rows[NameOf(g)]] # -1
    BY <1>n, <1>u DEF FileThere
  <2> QED BY <1>h DEF FileThere
<1>7. WithinMax'
  <2> SUFFICES ASSUME NEW g \in Handles, handle'[g].pending > 0, handle'[g].path # 0
               PROVE  handle'[g] = handle[g]
    BY <1>u DEF WithinMax, FileSize
  <2> QED BY <1>c, <1>h
<1>8. KnownSizes'
  <2> SUFFICES ASSUME usage.tracked, NEW m \in Names, rows[m] # 0, m \notin usage.unknown
               PROVE  /\ FileSize(rows[m]) <= usage.size[m]
                      /\ \A g \in Handles : OpensFile(g, m)' => usage.size[m] > 0
    BY <1>u, <1>s DEF KnownSizes
  <2>1. FileSize(rows[m]) <= usage.size[m] /\ \A g \in Handles : OpensFile(g, m) => usage.size[m] > 0
    BY DEF KnownSizes
  <2>2. FileSize(rows[m]) \in Nat /\ usage.size[m] \in Nat
    BY <1>t
  <2> QED BY <1>o, <2>1, <2>2
<1>9. Allotment'
  <2>1. PICK allot \in [Names -> Nat] : Allots(allot)
    BY DEF Allotment
  <2>2. Covers(allot)'
    <3> SUFFICES ASSUME NEW m \in Names
                 PROVE  /\ FileSize(rows[m]) <= allot[m] /\ usage.size[m] <= allot[m]
                        /\ \A g \in Handles :
                             /\ handle'[g].path = rows[m] /\ rows[m] # 0 => handle'[g].max <= allot[m]
                             /\ OpensFile(g, m)' => allot[m] > 0
      BY <1>u, <1>s DEF Covers
    <3>1. /\ FileSize(rows[m]) <= allot[m] /\ usage.size[m] <= allot[m]
          /\ \A g \in Handles :
               /\ handle[g].path = rows[m] /\ rows[m] # 0 => handle[g].max <= allot[m]
               /\ OpensFile(g, m) => allot[m] > 0
      BY <2>1 DEF Allots, Covers
    <3>2. allot[m] \in Nat /\ FileSize(rows[m]) \in Nat
      BY <1>t
    <3> QED BY <1>c, <1>h, <1>o, <3>1, <3>2
  <2>3. Allots(allot)'
    BY <1>h, <1>u, <2>1, <2>2 DEF Allots
  <2> QED BY <2>3 DEF Allotment
<1>10. PendingUnknown'
  <2> SUFFICES ASSUME usage.tracked, NEW g \in Handles, handle'[g].pending > 0,
                      handle'[g].path # 0, handle'[g].path = rows[NameOf(g)]
               PROVE  NameOf(g) \in usage.unknown
    BY <1>n, <1>u DEF PendingUnknown
  <2> QED BY <1>c, <1>h DEF PendingUnknown
<1> QED BY <1>1, <1>3, <1>4, <1>5, <1>6, <1>7, <1>8, <1>9, <1>10

\* A new database gets a row.
LEMMA NewPathQuota ==
  ASSUME IInv, IInv', Sound, Allotted, FreshFiles, NEW h \in Handles, FullPathForDatabase(h),
         ~Proposed(NameOf(h)), rows[NameOf(h)] = 0
  PROVE  Allotted'
<1> USE DEF Allotted
<1>t. /\ MaxPaths \in Nat /\ quota \in Nat /\ rows \in [Names -> 0..MaxPaths]
      /\ lastPath \in 0..MaxPaths
      /\ usage.path \in [Names -> -1..MaxPaths] /\ usage.size \in [Names -> Nat]
      /\ \A n \in Names : FileSize(rows[n]) \in Nat
      /\ \A g \in Handles : /\ HandleConsistent(g) /\ handle[g].max \in Nat \cup {-1}
                            /\ handle[g].pending \in Nat /\ handle[g].path \in 0..MaxPaths
  BY QuotaTypes DEF Numbers, IInv, Shapes, TablesOK
<1>0. PICK n : n = NameOf(h)
  OBVIOUS
<1>k. usage.tracked
  BY DEF FullPathForDatabase, IInv, OriginTracked, Sound
<1>p. PICK p : p = lastPath + 1
  OBVIOUS
<1>u. /\ UNCHANGED <<quota, files>> /\ handle[h].state = "established" /\ lastPath < MaxPaths
      /\ rows' = [rows EXCEPT ![n] = p] /\ usage' = AddDatabase(usage, n, p)
      /\ handle' = [handle EXCEPT ![h].state = "pathed", ![h].path = p]
  BY <1>0, <1>k, <1>p DEF FullPathForDatabase
<1>h. /\ handle'[h].state = "pathed" /\ handle'[h].name = handle[h].name /\ handle'[h].path = p
      /\ handle'[h].max = handle[h].max /\ handle'[h].pending = handle[h].pending
      /\ handle'[h].requirement = handle[h].requirement
      /\ \A g \in Handles : g # h => handle'[g] = handle[g]
  <2>1. /\ handle'[h] = [handle[h] EXCEPT !.state = "pathed", !.path = p]
        /\ \A g \in Handles : g # h => handle'[g] = handle[g]
    BY <1>u DEF IInv, Shapes, HandlesOK
  <2>2. HandleShape(h)
    BY DEF IInv, Shapes, HandlesOK
  <2> QED BY <2>1, <2>2 DEF HandleShape
<1>c. n \in Names /\ handle[h].max = -1 /\ handle[h].pending = 0 /\ rows[n] = 0
  BY <1>0, <1>t, <1>u DEF HandleConsistent
<1>n. \A g \in Handles : NameOf(g)' = NameOf(g)
  BY <1>h DEF NameOf
<1>s. \A x : FileSize(x)' = FileSize(x)
  BY <1>u DEF FileSize
<1>f. p \in 1..MaxPaths /\ FileSize(p) = 0
  <2>1. p \in 1..MaxPaths /\ p > lastPath
    BY <1>p, <1>t, <1>u
  <2> QED BY <2>1 DEF FreshFiles, FileSize
<1>r. /\ rows'[n] = p /\ \A m \in Names : m # n => rows'[m] = rows[m]
      /\ \A m \in Names : rows[m] # p
  BY <1>c, <1>p, <1>t, <1>u DEF IInv, RowsDiffer
<1>a. \A g \in Handles : handle[g].path # p
  BY <1>f, <1>p, <1>t DEF HandleConsistent
<1>e. \A g \in Handles : g # h /\ handle[g].state = "established" => NameOf(g) # n
  BY <1>0, <1>c, <1>u DEF OneGrows, Grows
<1>m. /\ usage'.tracked /\ usage'.cached = -1 /\ usage'.unknown = usage.unknown \cup {n}
      /\ usage'.path[n] = p /\ usage'.size[n] = 0
      /\ \A m \in Names : m # n => usage'.path[m] = usage.path[m] /\ usage'.size[m] = usage.size[m]
  <2>1. usage \in [tracked: BOOLEAN, partial: BOOLEAN, path: [Names -> -1..MaxPaths], size: [Names -> Nat],
                   unknown: SUBSET Names, cached: {usage.cached}]
    BY DEF IInv, Shapes, UsageOK
  <2>2. p \in 0..MaxPaths
    BY <1>f
  <2>3. /\ usage'.tracked = usage.tracked /\ usage'.partial = usage.partial /\ usage'.cached = -1 /\ usage'.unknown = usage.unknown \cup {n}
        /\ usage'.path = [usage.path EXCEPT ![n] = p] /\ usage'.size = [usage.size EXCEPT ![n] = 0]
    <3> DEFINE new == AddDatabase(usage, n, p)
    <3>1. /\ new \in [tracked: BOOLEAN, partial: BOOLEAN, path: [Names -> -1..MaxPaths], size: [Names -> Nat],
                      unknown: SUBSET Names, cached: {new.cached}]
          /\ new.tracked = usage.tracked /\ new.partial = usage.partial /\ new.cached = -1
          /\ new.unknown = usage.unknown \cup {n}
          /\ new.path = [usage.path EXCEPT ![n] = p] /\ new.size = [usage.size EXCEPT ![n] = 0]
      BY ONLY <1>c, <2>1, <2>2, AddDatabaseResult
    <3>2. usage' = new
      BY <1>c, <1>u
    <3> HIDE DEF new
    <3> QED BY <3>1, <3>2
  <2> QED BY <1>c, <1>k, <1>t, <2>3
<1>o. \A g \in Handles, m \in Names : OpensFile(g, m)' => m = n \/ OpensFile(g, m)
  <2> SUFFICES ASSUME NEW g \in Handles, NEW m \in Names, OpensFile(g, m)', m # n  PROVE OpensFile(g, m)
    OBVIOUS
  <2>1. rows'[m] = rows[m] /\ rows[m] # p
    BY <1>r
  <2>2. g # h
    BY <1>h, <2>1 DEF OpensFile
  <2> QED BY <1>h, <1>n, <2>1, <2>2 DEF OpensFile
<1>1. FilesHavePages' /\ OpenHasFile'
  BY <1>u, <1>h DEF FilesHavePages, OpenHasFile
<1>3. Numbers'
  BY <1>h, <1>m DEF Numbers
<1>4. RecordOfRows'
  BY <1>k, <1>m, <1>r DEF RecordOfRows
<1>5. OneGrows'
  <2>1. ASSUME NEW g \in Handles, Grows(g)'  PROVE Grows(g)
    <3>1. CASE g = h
      BY <1>c, <1>h, <2>1, <3>1 DEF Grows
    <3>2. CASE g # h
      <4>1. handle'[g] = handle[g] /\ NameOf(g)' = NameOf(g)
        BY <1>h, <1>n, <3>2
      <4>2. handle[g].state = "established" => NameOf(g) \in Names /\ NameOf(g) # n
        BY <1>e, <1>t, <3>2 DEF HandleConsistent
      <4> QED BY <1>r, <2>1, <4>1, <4>2 DEF Grows
    <3> QED BY <3>1, <3>2
  <2> QED BY <2>1 DEF OneGrows
<1>6. FileThere'
  <2> SUFFICES ASSUME NEW g \in Handles, handle'[g].state = "established", rows'[NameOf(g)] # 0
               PROVE  files[rows'[NameOf(g)]] # -1
    BY <1>n, <1>u DEF FileThere
  <2>1. g # h /\ handle[g].state = "established"
    BY <1>h
  <2>2. NameOf(g) \in Names /\ NameOf(g) # n
    BY <1>e, <1>t, <2>1 DEF HandleConsistent
  <2> QED BY <1>r, <2>1, <2>2 DEF FileThere
<1>7. WithinMax'
  <2> SUFFICES ASSUME NEW g \in Handles, handle'[g].pending > 0, handle'[g].path # 0
               PROVE  handle'[g] = handle[g]
    BY <1>u DEF WithinMax, FileSize
  <2> QED BY <1>c, <1>h
<1>8. KnownSizes'
  <2> SUFFICES ASSUME NEW m \in Names, rows'[m] # 0, m \notin usage'.unknown
               PROVE  /\ FileSize(rows'[m]) <= usage'.size[m]
                      /\ \A g \in Handles : OpensFile(g, m)' => usage'.size[m] > 0
    BY <1>u DEF KnownSizes, FileSize
  <2>1. m # n /\ m \notin usage.unknown /\ rows'[m] = rows[m] /\ usage'.size[m] = usage.size[m]
    BY <1>m, <1>r
  <2> QED BY <1>k, <1>o, <2>1 DEF KnownSizes
<1>9. Allotment'
  <2>1. PICK allot \in [Names -> Nat] : Allots(allot)
    BY DEF Allotment
  <2>2. Covers(allot)'
    <3> SUFFICES ASSUME NEW m \in Names
                 PROVE  /\ FileSize(rows'[m]) <= allot[m] /\ usage'.size[m] <= allot[m]
                        /\ \A g \in Handles :
                             /\ handle'[g].path = rows'[m] /\ rows'[m] # 0 => handle'[g].max <= allot[m]
                             /\ OpensFile(g, m)' => allot[m] > 0
      BY <1>u DEF Covers, FileSize
    <3>1. /\ FileSize(rows[m]) <= allot[m] /\ usage.size[m] <= allot[m]
          /\ \A g \in Handles :
               /\ handle[g].path = rows[m] /\ rows[m] # 0 => handle[g].max <= allot[m]
               /\ OpensFile(g, m) => allot[m] > 0
      BY <2>1 DEF Allots, Covers
    <3>2. CASE m = n
      <4>1. OpensFile(h, n)
        BY <1>0, <1>c, <1>u DEF OpensFile
      <4>2. allot[m] > 0 /\ allot[m] \in Nat
        BY <3>1, <3>2, <4>1
      <4>3. \A g \in Handles : handle'[g].path = p => handle'[g].max = -1
        BY <1>a, <1>c, <1>h
      <4> QED BY <1>f, <1>m, <1>r, <3>2, <4>2, <4>3
    <3>3. CASE m # n
      <4>1. \A g \in Handles : handle'[g].path = rows[m] => handle'[g] = handle[g]
        BY <1>h, <1>r
      <4> QED BY <1>m, <1>o, <1>r, <3>1, <3>3, <4>1
    <3> QED BY <3>2, <3>3
  <2>3. Allots(allot)'
    BY <1>h, <1>u, <2>1, <2>2 DEF Allots
  <2> QED BY <2>3 DEF Allotment
<1>10. PendingUnknown'
  <2> SUFFICES ASSUME NEW g \in Handles, handle'[g].pending > 0,
                      handle'[g].path # 0, handle'[g].path = rows'[NameOf(g)]
               PROVE  NameOf(g) \in usage'.unknown
    BY <1>n, <1>u DEF PendingUnknown
  <2>1. g # h /\ handle'[g] = handle[g]
    BY <1>c, <1>h
  <2>2. NameOf(g) \in Names
    BY <1>t, <2>1 DEF HandleConsistent
  <2> QED BY <1>a, <1>k, <1>m, <1>r, <2>1, <2>2 DEF PendingUnknown
<1> QED BY <1>1, <1>3, <1>4, <1>5, <1>6, <1>7, <1>8, <1>9, <1>10

\* The sizes of a record that was measured.
LEMMA DiskUsageSizes ==
  ASSUME IInv, NEW record, record.tracked,
         record \in [tracked: BOOLEAN, partial: BOOLEAN, path: [Names -> -1..MaxPaths], size: [Names -> Nat],
                     unknown: SUBSET Names, cached: {record.cached}],
         record.cached # -1 => record.unknown = {} /\ record.cached = SumOf(record.size)
  PROVE  LET r == DiskUsage(record)
         IN  /\ r.cached = SumOf(r.size)
             /\ \A n \in Names :
                  /\ r.path[n] = IF n \in record.unknown /\ record.path[n] = -1 THEN 0 ELSE record.path[n]
                  /\ r.size[n] = IF n \in record.unknown THEN FileSize(r.path[n]) ELSE record.size[n]
<1> DEFINE path == [n \in Names |-> IF n \in record.unknown /\ record.path[n] = -1 THEN 0
                                    ELSE record.path[n]]
           size == [n \in Names |-> IF n \in record.unknown THEN FileSize(path[n]) ELSE record.size[n]]
           r == [record EXCEPT !.path = path, !.size = size, !.unknown = {}, !.cached = SumOf(size)]
<1>1. CASE record.cached # -1
  BY <1>1 DEF DiskUsage
<1>2. CASE record.cached = -1
  <2>1. DiskUsage(record) = r
    BY <1>2 DEF DiskUsage
  <2>2. \A n \in Names :
          /\ path[n] = IF n \in record.unknown /\ record.path[n] = -1 THEN 0 ELSE record.path[n]
          /\ size[n] = IF n \in record.unknown THEN FileSize(path[n]) ELSE record.size[n]
    OBVIOUS
  <2> HIDE DEF path, size
  <2>3. r.path = path /\ r.size = size /\ r.cached = SumOf(size)
    OBVIOUS
  <2> HIDE DEF r
  <2> QED BY <2>1, <2>2, <2>3
<1> QED BY <1>1, <1>2

\* A measurement has all files, and nothing that is not allotted.
LEMMA Measured ==
  ASSUME IInv, Sound, RecordOfRows, KnownSizes
  PROVE  LET r == UsageForOriginNoLock
         IN  /\ r.tracked /\ r.unknown = {} /\ r.size \in [Names -> Nat] /\ r.cached = SumOf(r.size)
             /\ \A n \in Names :
                  /\ r.path[n] > 0 => r.path[n] = rows[n]
                  /\ rows[n] # 0 => FileSize(rows[n]) <= r.size[n]
                  /\ rows[n] = 0 => r.size[n] = 0
                  /\ r.size[n] <= FileSize(rows[n]) \/ r.size[n] <= usage.size[n]
<1>t. /\ MaxPaths \in Nat /\ rows \in [Names -> 0..MaxPaths]
      /\ usage.path \in [Names -> -1..MaxPaths] /\ usage.size \in [Names -> Nat]
      /\ \A p \in 0..MaxPaths : FileSize(p) \in Nat
      /\ \A n \in Names : FileSize(rows[n]) \in Nat
      /\ usage.tracked \in BOOLEAN
  BY QuotaTypes
<1>0. FileSize(0) = 0
  BY DEF FileSize
<1>p. PICK r : r = UsageForOriginNoLock
  OBVIOUS
<1>a. r.tracked /\ r.unknown = {} /\ r.size \in [Names -> Nat]
  BY <1>p, UsageResult
<1>1. CASE usage.tracked
  <2>1. r = DiskUsage(usage)
    BY <1>1, <1>p DEF UsageForOriginNoLock
  <2>2. /\ usage \in [tracked: BOOLEAN, partial: BOOLEAN, path: [Names -> -1..MaxPaths], size: [Names -> Nat],
                      unknown: SUBSET Names, cached: {usage.cached}]
        /\ usage.cached # -1 => usage.unknown = {} /\ usage.cached = SumOf(usage.size)
    BY DEF IInv, Shapes, UsageOK, CachedIsSum
  <2>3. /\ r.cached = SumOf(r.size)
        /\ \A n \in Names :
             /\ r.path[n] = IF n \in usage.unknown /\ usage.path[n] = -1 THEN 0 ELSE usage.path[n]
             /\ r.size[n] = IF n \in usage.unknown THEN FileSize(r.path[n]) ELSE usage.size[n]
    BY <1>1, <2>1, <2>2, DiskUsageSizes
  <2>4. ASSUME NEW n \in Names
        PROVE  /\ r.path[n] > 0 => r.path[n] = rows[n]
               /\ rows[n] # 0 => FileSize(rows[n]) <= r.size[n]
               /\ rows[n] = 0 => r.size[n] = 0
               /\ r.size[n] <= FileSize(rows[n]) \/ r.size[n] <= usage.size[n]
    <3>1. /\ usage.path[n] \in -1..MaxPaths /\ usage.size[n] \in Nat /\ rows[n] \in 0..MaxPaths
          /\ FileSize(rows[n]) \in Nat
      BY <1>t
    <3>2. /\ usage.path[n] > 0 => usage.path[n] = rows[n]
          /\ usage.size[n] > 0 => rows[n] # 0
          /\ rows[n] # 0 => usage.path[n] = rows[n]
          /\ rows[n] # 0 /\ n \notin usage.unknown => FileSize(rows[n]) <= usage.size[n]
      BY <1>1 DEF RecordOfRows, KnownSizes, IInv, RowsRecorded, OriginTracked, Sound
    <3>3. CASE n \in usage.unknown
      <4>1. r.size[n] = FileSize(r.path[n]) /\ (r.path[n] = usage.path[n] \/ (usage.path[n] = -1 /\ r.path[n] = 0))
        BY <2>3, <3>3
      <4>2. CASE rows[n] # 0
        <5>1. r.path[n] = rows[n] /\ r.size[n] = FileSize(rows[n])
          BY <3>1, <3>2, <4>1, <4>2
        <5> QED BY <3>1, <4>2, <5>1
      <4>3. CASE rows[n] = 0
        <5>1. r.path[n] = -1 \/ r.path[n] = 0
          BY <3>1, <3>2, <4>1, <4>3
        <5>2. r.path[n] = 0
          BY <2>3, <3>3, <5>1
        <5> QED BY <1>0, <3>1, <4>1, <4>3, <5>2
      <4> QED BY <4>2, <4>3
    <3>4. CASE n \notin usage.unknown
      <4>1. r.size[n] = usage.size[n] /\ r.path[n] = usage.path[n]
        BY <2>3, <3>4
      <4> QED BY <3>1, <3>2, <3>4, <4>1
    <3> QED BY <3>3, <3>4
  <2> QED BY <1>a, <1>p, <2>3, <2>4
<1>2. CASE ~usage.tracked
  <2> DEFINE listed == {n \in Names : rows[n] # 0}
             path == [n \in Names |-> IF n \in listed THEN PathOf(n) ELSE -1]
             primed == [NoRecord EXCEPT !.tracked = TRUE, !.unknown = listed, !.path = path]
  <2>1. r = DiskUsage(primed)
    BY <1>2, <1>p DEF UsageForOriginNoLock
  <2>2. \A n \in listed : PathOf(n) = rows[n] /\ rows[n] > 0
    BY <1>t DEF IInv, ProposalsHaveNoRow, PathOf
  <2>3. /\ path \in [Names -> -1..MaxPaths]
        /\ \A n \in Names : path[n] = IF rows[n] # 0 THEN rows[n] ELSE -1
    BY <1>t, <2>2
  <2>4. listed \in SUBSET Names /\ \A n \in Names : n \in listed <=> rows[n] # 0
    OBVIOUS
  <2> HIDE DEF path, listed
  <2>5. /\ primed.tracked /\ ~primed.partial /\ primed.unknown = listed /\ primed.path = path /\ primed.cached = -1
        /\ primed.size = [n \in Names |-> 0]
    BY DEF NoRecord
  <2>6. primed \in [tracked: BOOLEAN, partial: BOOLEAN, path: [Names -> -1..MaxPaths], size: [Names -> Nat],
                    unknown: SUBSET Names, cached: {primed.cached}]
    BY <2>3, <2>4, <2>5 DEF NoRecord
  <2> HIDE DEF primed
  <2>7. /\ r.cached = SumOf(r.size)
        /\ \A n \in Names :
             /\ r.path[n] = IF n \in primed.unknown /\ primed.path[n] = -1 THEN 0 ELSE primed.path[n]
             /\ r.size[n] = IF n \in primed.unknown THEN FileSize(r.path[n]) ELSE primed.size[n]
    BY <2>1, <2>5, <2>6, DiskUsageSizes
  <2>8. ASSUME NEW n \in Names
        PROVE  /\ r.path[n] > 0 => r.path[n] = rows[n]
               /\ rows[n] # 0 => FileSize(rows[n]) <= r.size[n]
               /\ rows[n] = 0 => r.size[n] = 0
               /\ r.size[n] <= FileSize(rows[n]) \/ r.size[n] <= usage.size[n]
    <3>1. FileSize(rows[n]) \in Nat /\ rows[n] \in 0..MaxPaths /\ primed.size[n] = 0
      BY <1>t, <2>5
    <3>2. CASE rows[n] # 0
      <4>1. r.path[n] = rows[n] /\ r.size[n] = FileSize(rows[n])
        BY <2>3, <2>4, <2>5, <2>7, <3>1, <3>2
      <4> QED BY <3>1, <3>2, <4>1
    <3>3. CASE rows[n] = 0
      <4>1. r.path[n] = -1 /\ r.size[n] = 0
        BY <2>3, <2>4, <2>5, <2>7, <3>1, <3>3
      <4> QED BY <3>1, <3>3, <4>1
    <3> QED BY <3>2, <3>3
  <2> QED BY <1>a, <1>p, <2>7, <2>8
<1> QED BY <1>1, <1>2, <1>t

\* No file is missing that a handle would create, and no transaction waits to
\* write: then a measurement counts everything.
NothingGrows ==
  /\ \A g \in Handles : handle[g].pending = 0 /\ handle[g].state # "asking"
  /\ \A g \in Handles, n \in Names : OpensFile(g, n) => rows[n] # 0 /\ FileSize(rows[n]) > 0

\* When no handle can add to the files but one that is open and has nothing
\* to write, nothing grows.
LEMMA StandStill ==
  ASSUME IInv, Allotted,
         \A g \in Handles : \/ ~MayGrow(g)
                            \/ handle[g].state = "open" /\ handle[g].pending = 0
  PROVE  NothingGrows
<1> USE DEF Allotted
<1>t. /\ MaxPaths \in Nat /\ files \in [1..MaxPaths -> Nat \cup {-1}]
      /\ \A g \in Handles : HandleConsistent(g) /\ handle[g].pending \in Nat /\ handle[g].path \in 0..MaxPaths
  BY QuotaTypes
<1>1. ASSUME NEW g \in Handles  PROVE handle[g].pending = 0 /\ handle[g].state # "asking"
  <2>1. handle[g].state = "asking" => MayGrow(g)
    BY <1>t DEF MayGrow, HandleConsistent, Opening
  <2>2. handle[g].pending > 0 => MayGrow(g)
    BY DEF MayGrow
  <2> QED BY <1>t, <2>1, <2>2
<1>2. ASSUME NEW g \in Handles, NEW n \in Names, OpensFile(g, n)  PROVE rows[n] # 0 /\ FileSize(rows[n]) > 0
  <2>1. ~MayGrow(g) /\ handle[g].state \in Opening
    BY <1>2 DEF OpensFile, Opening
  <2>2. handle[g].state # "established"
    BY <1>t, <2>1 DEF MayGrow, HandleConsistent
  <2>3. rows[n] # 0 /\ rows[n] = handle[g].path /\ files[rows[n]] # -1
    BY <1>2, <2>1, <2>2 DEF OpensFile, MayGrow
  <2>4. rows[n] \in 1..MaxPaths
    BY <1>t, <2>3
  <2>5. files[rows[n]] \in Nat \ {0}
    BY <1>t, <2>3, <2>4 DEF FilesHavePages
  <2> QED BY <2>3, <2>4, <2>5 DEF FileSize
<1> QED BY <1>1, <1>2 DEF NothingGrows

\* What a measurement gives, whatever it is made for.
LEMMA MeasuredParts ==
  ASSUME IInv, IInv', Sound, Allotted, NothingGrows, usage' = UsageForOriginNoLock,
         UNCHANGED <<quota, rows, files>>,
         \A g \in Handles : /\ handle'[g].pending = 0 /\ handle'[g].max \in Nat \cup {-1}
                            /\ handle'[g].requirement \in Nat
                            /\ handle'[g].state = "open" => handle[g].state = "open" /\ handle'[g].path = handle[g].path,
         \A g \in Handles, n \in Names : OpensFile(g, n)' /\ rows[n] # 0 => FileSize(rows[n]) > 0
  PROVE  /\ FilesHavePages' /\ OpenHasFile' /\ Numbers' /\ RecordOfRows' /\ WithinMax' /\ PendingUnknown' /\ KnownSizes'
         /\ usage'.size \in [Names -> Nat] /\ usage'.cached = SumOf(usage'.size)
         /\ usage'.cached \in Nat /\ usage'.cached <= quota
         /\ \A n \in Names : FileSize(rows[n]) <= usage'.size[n] /\ (rows[n] = 0 => usage'.size[n] = 0)
<1> USE DEF Allotted
<1>t. /\ MaxPaths \in Nat /\ quota \in Nat /\ rows \in [Names -> 0..MaxPaths] /\ usage.size \in [Names -> Nat]
      /\ \A n \in Names : FileSize(rows[n]) \in Nat
  BY QuotaTypes
<1>m. /\ usage'.tracked /\ usage'.unknown = {} /\ usage'.size \in [Names -> Nat]
      /\ usage'.cached = SumOf(usage'.size)
      /\ \A n \in Names :
           /\ usage'.path[n] > 0 => usage'.path[n] = rows[n]
           /\ rows[n] # 0 => FileSize(rows[n]) <= usage'.size[n]
           /\ rows[n] = 0 => usage'.size[n] = 0
           /\ usage'.size[n] <= FileSize(rows[n]) \/ usage'.size[n] <= usage.size[n]
  BY Measured
<1>s. \A p : FileSize(p)' = FileSize(p)
  BY DEF FileSize
<1>z. \A n \in Names : FileSize(rows[n]) <= usage'.size[n] /\ usage'.size[n] \in Nat
  <2>1. FileSize(0) = 0
    BY DEF FileSize
  <2> QED BY <1>m, <1>t, <2>1
<1>c. SumOf(usage'.size) \in Nat /\ SumOf(usage'.size) <= quota
  <2>1. PICK allot \in [Names -> Nat] : Allots(allot)
    BY DEF Allotment
  <2>2. \A n \in Names : usage'.size[n] <= allot[n]
    <3>1. \A n \in Names : FileSize(rows[n]) <= allot[n] /\ usage.size[n] <= allot[n]
      BY <2>1 DEF Allots, Covers
    <3> QED BY <1>m, <1>t, <3>1
  <2>3. SumOf(usage'.size) <= SumOf(allot) /\ SumOf(usage'.size) \in Nat /\ SumOf(allot) \in Nat
    BY <1>m, <2>2, SumOfMonotone, SumOfNat
  <2>4. SumOf(allot) <= quota
    BY <2>1 DEF Allots
  <2> QED BY <1>t, <2>3, <2>4
<1>1. FilesHavePages' /\ OpenHasFile'
  BY DEF FilesHavePages, OpenHasFile
<1>2. Numbers'
  BY <1>m, <1>c DEF Numbers
<1>3. RecordOfRows'
  <2>1. \A n \in Names : usage'.size[n] > 0 => rows[n] # 0
    BY <1>m
  <2> QED BY <1>m, <2>1 DEF RecordOfRows
<1>4. WithinMax' /\ PendingUnknown'
  BY DEF WithinMax, PendingUnknown
<1>5. KnownSizes'
  <2> SUFFICES ASSUME NEW n \in Names, rows[n] # 0
               PROVE  /\ FileSize(rows[n]) <= usage'.size[n]
                      /\ \A g \in Handles : OpensFile(g, n)' => usage'.size[n] > 0
    BY <1>s DEF KnownSizes
  <2> QED BY <1>t, <1>z
<1> QED BY <1>1, <1>2, <1>3, <1>4, <1>5, <1>m, <1>c, <1>z

\* The measured sizes are an allotment when no transaction runs.
LEMMA SizesAllot ==
  ASSUME UNCHANGED <<quota, rows, files>>, usage'.size \in [Names -> Nat],
         usage'.cached = SumOf(usage'.size), usage'.cached <= quota,
         \A n \in Names : FileSize(rows[n]) <= usage'.size[n] /\ FileSize(rows[n]) \in Nat,
         \A g \in Handles : /\ handle'[g].max = -1
                            /\ handle'[g].state = "asking" => usage'.cached < handle'[g].requirement,
         \A g \in Handles, n \in Names : OpensFile(g, n)' => FileSize(rows[n]) > 0
  PROVE  Allotment'
<1>1. PICK allot \in [Names -> Nat] : allot = usage'.size
  OBVIOUS
<1>2. Covers(allot)'
  <2> SUFFICES ASSUME NEW n \in Names
               PROVE  /\ FileSize(rows[n]) <= allot[n] /\ usage'.size[n] <= allot[n]
                      /\ \A g \in Handles :
                           /\ handle'[g].path = rows[n] /\ rows[n] # 0 => handle'[g].max <= allot[n]
                           /\ OpensFile(g, n)' => allot[n] > 0
    BY DEF Covers, FileSize
  <2>1. allot[n] = usage'.size[n] /\ allot[n] \in Nat
    BY <1>1
  <2> QED BY <2>1
<1>3. Allots(allot)'
  BY <1>1, <1>2 DEF Allots
<1> QED BY <1>3 DEF Allotment

\* A measurement for the embedder, or for a handle that is not established.
LEMMA MeasuredOnly ==
  ASSUME IInv, IInv', Sound, Allotted, usage' = UsageForOriginNoLock,
         UNCHANGED <<quota, rows, files, handle>>,
         \A g \in Handles : ~MayGrow(g)
  PROVE  Allotted'
<1> USE DEF Allotted
<1>t. \A n \in Names : FileSize(rows[n]) \in Nat
  BY QuotaTypes
<1>1. NothingGrows
  BY StandStill
<1>o. \A g \in Handles, n \in Names : OpensFile(g, n)' <=> OpensFile(g, n)
  BY DEF OpensFile, NameOf
<1>2. \A g \in Handles : handle[g].max = -1
  BY DEF MayGrow
<1>3. /\ FilesHavePages' /\ OpenHasFile' /\ Numbers' /\ RecordOfRows' /\ WithinMax' /\ PendingUnknown' /\ KnownSizes'
      /\ usage'.size \in [Names -> Nat] /\ usage'.cached = SumOf(usage'.size)
      /\ usage'.cached \in Nat /\ usage'.cached <= quota
      /\ \A n \in Names : FileSize(rows[n]) <= usage'.size[n]
  <2>1. \A g \in Handles : /\ handle[g].pending = 0 /\ handle[g].max \in Nat \cup {-1}
                           /\ handle[g].requirement \in Nat
    BY <1>1 DEF NothingGrows, Numbers
  <2>2. \A g \in Handles, n \in Names : OpensFile(g, n) => FileSize(rows[n]) > 0
    BY <1>1 DEF NothingGrows
  <2> QED BY <1>1, <1>o, <2>1, <2>2, MeasuredParts
<1>4. OneGrows' /\ FileThere'
  BY DEF OneGrows, Grows, FileThere, NameOf
<1>5. Allotment'
  <2>1. \A g \in Handles : handle[g].state # "asking"
    BY <1>1 DEF NothingGrows
  <2>2. \A g \in Handles, n \in Names : OpensFile(g, n)' => FileSize(rows[n]) > 0
    BY <1>1, <1>o DEF NothingGrows
  <2> QED BY <1>t, <1>2, <1>3, <2>1, <2>2, SizesAllot
<1> QED BY <1>3, <1>4, <1>5

\* A handle is established, or asks for space, after a measurement.
LEMMA EstablishQuota ==
  ASSUME IInv, IInv', Sound, Allotted, NEW h \in Handles, NEW n \in Names, NEW s \in {"asking", "established"},
         NEW k \in Nat, usage' = UsageForOriginNoLock, UNCHANGED <<quota, rows, files>>,
         \A g \in Handles : ~MayGrow(g),
         handle[h].state = "new",
         handle' = [handle EXCEPT ![h].state = s, ![h].name = n, ![h].requirement = k],
         s = "asking" => rows[n] = 0 /\ usage'.cached < k,
         s = "established" /\ rows[n] = 0 => usage'.cached < quota,
         rows[n] # 0 => files[rows[n]] # -1
  PROVE  Allotted'
<1> USE DEF Allotted
<1>t. /\ quota \in Nat /\ \A m \in Names : FileSize(rows[m]) \in Nat
      /\ \A g \in Handles : HandleConsistent(g) /\ handle[g].pending \in Nat
  BY QuotaTypes
<1>1. NothingGrows
  BY StandStill
<1>2. \A g \in Handles : handle[g].max = -1
  BY DEF MayGrow
<1>h. /\ handle'[h].state = s /\ handle'[h].name = n /\ handle'[h].path = handle[h].path
      /\ handle'[h].max = handle[h].max /\ handle'[h].pending = handle[h].pending
      /\ handle'[h].requirement = k
      /\ \A g \in Handles : g # h => handle'[g] = handle[g]
  BY DEF IInv, Shapes, HandlesOK, HandleShape
<1>n. NameOf(h)' = n /\ \A g \in Handles : g # h => NameOf(g)' = NameOf(g)
  BY <1>h DEF NameOf
<1>o. \A g \in Handles, m \in Names : OpensFile(g, m)' =>
        \/ rows[m] # 0 /\ FileSize(rows[m]) > 0
        \/ g = h /\ m = n /\ rows[m] = 0 /\ s = "established"
  <2> SUFFICES ASSUME NEW g \in Handles, NEW m \in Names, OpensFile(g, m)'
               PROVE  \/ rows[m] # 0 /\ FileSize(rows[m]) > 0
                      \/ g = h /\ m = n /\ rows[m] = 0 /\ s = "established"
    OBVIOUS
  <2>1. CASE g = h
    BY <1>h, <1>n, <2>1 DEF OpensFile
  <2>2. CASE g # h
    <3>1. OpensFile(g, m)
      BY <1>h, <1>n, <2>2 DEF OpensFile
    <3> QED BY <1>1, <3>1 DEF NothingGrows
  <2> QED BY <2>1, <2>2
<1>3. /\ FilesHavePages' /\ OpenHasFile' /\ Numbers' /\ RecordOfRows' /\ WithinMax' /\ PendingUnknown' /\ KnownSizes'
      /\ usage'.size \in [Names -> Nat] /\ usage'.cached = SumOf(usage'.size)
      /\ usage'.cached \in Nat /\ usage'.cached <= quota
      /\ \A m \in Names : FileSize(rows[m]) <= usage'.size[m] /\ (rows[m] = 0 => usage'.size[m] = 0)
  <2>1. \A g \in Handles : /\ handle'[g].pending = 0 /\ handle'[g].max \in Nat \cup {-1}
                           /\ handle'[g].requirement \in Nat
                           /\ handle'[g].state = "open" => handle[g].state = "open" /\ handle'[g].path = handle[g].path
    <3> SUFFICES ASSUME NEW g \in Handles
                 PROVE  /\ handle'[g].pending = 0 /\ handle'[g].max \in Nat \cup {-1}
                        /\ handle'[g].requirement \in Nat
                        /\ handle'[g].state = "open" => handle[g].state = "open" /\ handle'[g].path = handle[g].path
      OBVIOUS
    <3>1. handle[g].pending = 0 /\ handle[g].max = -1 /\ handle[g].requirement \in Nat
      BY <1>1, <1>2 DEF NothingGrows, Numbers
    <3>2. CASE g = h
      BY <1>h, <3>1, <3>2
    <3>3. CASE g # h
      BY <1>h, <3>1, <3>3
    <3> QED BY <3>2, <3>3
  <2>2. \A g \in Handles, m \in Names : OpensFile(g, m)' /\ rows[m] # 0 => FileSize(rows[m]) > 0
    BY <1>o
  <2> QED BY <1>1, <2>1, <2>2, MeasuredParts
<1>g. \A g \in Handles : g # h => ~Grows(g)'
  <2> SUFFICES ASSUME NEW g \in Handles, g # h, Grows(g)'  PROVE FALSE
    OBVIOUS
  <2>1. Grows(g) /\ handle[g].max = -1 /\ handle[g].state # "asking"
    BY <1>1, <1>2, <1>h, <1>n DEF Grows, NothingGrows
  <2>2. handle[g].state = "established"
    BY <2>1 DEF Grows
  <2>3. MayGrow(g)
    BY <1>t, <2>2 DEF MayGrow, HandleConsistent, Opening
  <2> QED BY <2>3
<1>4. OneGrows'
  BY <1>g DEF OneGrows
<1>5. FileThere'
  <2> SUFFICES ASSUME NEW g \in Handles, handle'[g].state = "established", rows[NameOf(g)'] # 0
               PROVE  files[rows[NameOf(g)']] # -1
    BY DEF FileThere
  <2>1. CASE g = h
    BY <1>n, <2>1
  <2>2. CASE g # h
    BY <1>h, <1>n, <2>2 DEF FileThere
  <2> QED BY <2>1, <2>2
<1>6. CASE s = "asking" \/ rows[n] # 0
  <2>1. \A g \in Handles : /\ handle'[g].max = -1
                           /\ handle'[g].state = "asking" => usage'.cached < handle'[g].requirement
    <3>1. CASE s = "asking"
      BY <1>1, <1>2, <1>h, <3>1 DEF NothingGrows
    <3>2. CASE s # "asking"
      BY <1>1, <1>2, <1>h, <3>2 DEF NothingGrows
    <3> QED BY <3>1, <3>2
  <2>2. \A g \in Handles, m \in Names : OpensFile(g, m)' => FileSize(rows[m]) > 0
    BY <1>o, <1>6
  <2>3. Allotment'
    BY <1>t, <1>3, <2>1, <2>2, SizesAllot
  <2> QED BY <1>3, <1>4, <1>5, <2>3
<1>7. CASE s = "established" /\ rows[n] = 0
  <2>1. PICK more : more = [usage'.size EXCEPT ![n] = 1]
    OBVIOUS
  <2>2. more \in [Names -> Nat] /\ more[n] = 1 /\ \A m \in Names : m # n => more[m] = usage'.size[m]
    BY <1>3, <2>1
  <2>3. usage'.size[n] = 0
    BY <1>3, <1>7
  <2>4. SumOf(more) = usage'.cached + 1
    <3>1. PICK f \in [Names -> Nat] : f = usage'.size
      BY <1>3
    <3>2. SumOf(more) + f[n] = SumOf(f) + 1
      BY <2>1, <3>1, SumOfChange
    <3>3. SumOf(more) \in Nat
      BY <2>2, SumOfNat
    <3> QED BY <1>3, <2>3, <3>1, <3>2, <3>3
  <2>5. Covers(more)'
    <3> SUFFICES ASSUME NEW m \in Names
                 PROVE  /\ FileSize(rows[m]) <= more[m] /\ usage'.size[m] <= more[m]
                        /\ \A g \in Handles :
                             /\ handle'[g].path = rows[m] /\ rows[m] # 0 => handle'[g].max <= more[m]
                             /\ OpensFile(g, m)' => more[m] > 0
      BY DEF Covers, FileSize
    <3>1. \A g \in Handles : handle'[g].max = -1
      BY <1>2, <1>h
    <3>2. more[m] \in Nat /\ usage'.size[m] \in Nat /\ FileSize(rows[m]) \in Nat
          /\ FileSize(rows[m]) <= usage'.size[m] /\ usage'.size[m] <= more[m]
      BY <1>3, <1>t, <2>2, <2>3
    <3>3. \A g \in Handles : OpensFile(g, m)' => FileSize(rows[m]) > 0 \/ m = n
      BY <1>o
    <3>4. ASSUME NEW g \in Handles, OpensFile(g, m)'  PROVE more[m] > 0
      <4>1. CASE m = n
        BY <2>2, <4>1
      <4>2. CASE FileSize(rows[m]) > 0
        BY <3>2, <4>2
      <4> QED BY <3>3, <3>4, <4>1, <4>2
    <3>5. \A g \in Handles : handle'[g].max <= more[m]
      <4>1. PICK size \in Nat : size = more[m]
        BY <3>2
      <4>2. -1 <= size
        OBVIOUS
      <4> QED BY <3>1, <4>1, <4>2
    <3>6. FileSize(rows[m]) <= more[m]
      BY <3>2
    <3> QED BY <3>2, <3>4, <3>5, <3>6
  <2>6. \A g \in Handles : handle'[g].state # "asking"
    BY <1>1, <1>7, <1>h DEF NothingGrows
  <2>7. SumOf(more) <= quota
    BY <1>3, <1>7, <1>t, <2>4
  <2>8. Allots(more)'
    BY <2>5, <2>6, <2>7 DEF Allots
  <2>9. Allotment'
    BY <2>2, <2>8 DEF Allotment
  <2> QED BY <1>3, <1>4, <1>5, <2>9
<1> QED BY <1>6, <1>7

\* canEstablishDatabase, up to the call of the client.
LEMMA CanEstablishQuota ==
  ASSUME IInv, IInv', Sound, Sound', Allotted, NEW h \in Handles, NEW n \in Names, NEW e \in Estimates,
         CanEstablishDatabase(h, n, e)
  PROVE  Allotted'
<1>u. UNCHANGED <<quota, rows, files>> /\ handle[h].state = "new"
  BY DEF CanEstablishDatabase, tableVars
<1>q. quota \in Nat
  BY QuotaTypes
<1>1. CASE ~CanCreateDatabase(n)
  <2>1. UNCHANGED <<handle, usage>>
    BY <1>1 DEF CanEstablishDatabase
  <2>2. \A g \in Handles : Shrinks(g)
    BY <2>1 DEF Shrinks
  <2> QED BY <1>q, <1>u, <2>1, <2>2, ShrinkStep
<1>2. CASE CanCreateDatabase(n)
  <2>1. PICK c, k : c = usage'.cached /\ k = Wrap(c + Max({1, e}))
    OBVIOUS
  <2>2. /\ usage' = UsageForOriginNoLock /\ ~Overcommits(h) /\ (rows[n] # 0 => files[rows[n]] # -1)
        /\ \/ /\ rows[n] # 0 \/ (k >= c /\ k <= quota)
              /\ handle' = [handle EXCEPT ![h].state = "established", ![h].name = n, ![h].requirement = 0]
           \/ handle' = handle
           \/ /\ rows[n] = 0 /\ k >= c
              /\ handle' = [handle EXCEPT ![h].state = "asking", ![h].name = n, ![h].requirement = k]
    BY <1>2, <2>1 DEF CanEstablishDatabase, Sound
  <2>3. \A g \in Handles : ~MayGrow(g)
    <3>1. ~MayGrow(h)
      <4>1. HandleConsistent(h) /\ handle[h].pending \in Nat
        BY QuotaTypes
      <4> QED BY <1>u, <4>1 DEF MayGrow, HandleConsistent, Opening
    <3> QED BY <2>2, <3>1 DEF Overcommits
  <2>4. c \in Nat
    <3>1. RecordOfRows /\ KnownSizes
      BY DEF Allotted
    <3>2. usage'.size \in [Names -> Nat] /\ usage'.cached = SumOf(usage'.size)
      BY <2>2, <3>1, Measured
    <3> QED BY <2>1, <3>2, SumOfNat
  <2>5. Max({1, e}) \in 1..2^Width - 1
    <3>1. 2^Width \in Nat /\ 2^Width > 1
      BY WidthBound
    <3>2. e \in 0..2^Width - 1
      BY TrackerAssumption
    <3>3. e \in Nat /\ e <= 2^Width - 1
      BY <3>1, <3>2
    <3>4. Max({1, e}) = IF e >= 1 THEN e ELSE 1
      BY <3>3 DEF Max
    <3> QED BY <3>1, <3>3, <3>4
  <2>6. k \in Nat /\ (k >= c => k > c)
    <3>1. PICK x : x = Max({1, e})
      OBVIOUS
    <3>2. x \in 1..2^Width - 1 /\ x \in Nat /\ x > 0
      BY <2>5, <3>1, WidthBound
    <3>3. k \in Nat /\ (k >= c => k = c + x)
      BY <2>1, <2>4, <3>1, <3>2, WrapResult
    <3> QED BY <2>4, <3>2, <3>3
  <2>7. CASE handle' = handle
    BY <1>u, <2>2, <2>3, <2>7, MeasuredOnly
  <2>8. CASE /\ rows[n] # 0 \/ (k >= c /\ k <= quota)
             /\ handle' = [handle EXCEPT ![h].state = "established", ![h].name = n, ![h].requirement = 0]
    <3>1. rows[n] = 0 => usage'.cached < quota
      BY <1>q, <2>1, <2>4, <2>6, <2>8
    <3> QED BY <1>u, <2>2, <2>3, <2>8, <3>1, EstablishQuota
  <2>9. CASE /\ rows[n] = 0 /\ k >= c
             /\ handle' = [handle EXCEPT ![h].state = "asking", ![h].name = n, ![h].requirement = k]
    <3>1. usage'.cached < k
      BY <2>1, <2>4, <2>6, <2>9
    <3> QED BY <1>u, <2>2, <2>3, <2>6, <2>9, <3>1, EstablishQuota
  <2> QED BY <2>2, <2>7, <2>8, <2>9
<1> QED BY <1>1, <1>2

\* A transaction is given its maximum size.
LEMMA GetMaxSizeQuota ==
  ASSUME IInv, IInv', Sound, Sound', Allotted, NEW h \in Handles, GetMaxSizeForDatabase(h), usage.tracked
  PROVE  Allotted'
<1> USE DEF Allotted
<1>t. /\ MaxPaths \in Nat /\ quota \in Nat /\ rows \in [Names -> 0..MaxPaths]
      /\ \A p \in 0..MaxPaths : FileSize(p) \in Nat
      /\ \A m \in Names : FileSize(rows[m]) \in Nat
      /\ \A g \in Handles : HandleConsistent(g) /\ handle[g].pending \in Nat /\ handle[g].path \in 0..MaxPaths
  BY QuotaTypes
<1>x. PICK x : x = MaxSize(h)
  OBVIOUS
<1>u. /\ UNCHANGED <<quota, rows, files>> /\ handle[h].state = "open" /\ usage.tracked
      /\ usage' = DiskUsage(usage) /\ handle' = [handle EXCEPT ![h].max = x] /\ ~Overcommits(h)
  BY <1>x DEF GetMaxSizeForDatabase, tableVars, Sound
<1>m. usage' = UsageForOriginNoLock
  BY <1>u DEF UsageForOriginNoLock
<1>0. handle[h].pending = 0 /\ \A g \in Handles : g # h => ~MayGrow(g)
  <2>1. ~(handle[h].pending > 0) /\ \A g \in Handles : g # h => ~MayGrow(g)
    BY <1>u DEF Overcommits
  <2> QED BY <1>t, <2>1
<1>1. NothingGrows
  <2>1. \A g \in Handles : ~MayGrow(g) \/ (handle[g].state = "open" /\ handle[g].pending = 0)
    BY <1>0, <1>u
  <2> QED BY <2>1, StandStill
<1>2. \A g \in Handles : g # h => handle[g].max = -1
  BY <1>0 DEF MayGrow
<1>h. /\ handle'[h].state = handle[h].state /\ handle'[h].name = handle[h].name /\ handle'[h].path = handle[h].path
      /\ handle'[h].max = x /\ handle'[h].pending = handle[h].pending
      /\ handle'[h].requirement = handle[h].requirement
      /\ \A g \in Handles : g # h => handle'[g] = handle[g]
  BY <1>u DEF IInv, Shapes, HandlesOK, HandleShape
<1>n. PICK n \in Names : n = NameOf(h) /\ \A m \in Names : handle[h].path # 0 /\ rows[m] = handle[h].path => m = n
  BY <1>t, <1>u DEF HandleConsistent
<1>o. \A g \in Handles, m \in Names : OpensFile(g, m)' => rows[m] # 0 /\ FileSize(rows[m]) > 0
  <2>1. \A g \in Handles, m \in Names : OpensFile(g, m)' => OpensFile(g, m)
    BY <1>h, <1>u DEF OpensFile, NameOf
  <2> QED BY <1>1, <2>1 DEF NothingGrows
<1>c. usage'.cached \in Nat /\ usage'.cached <= quota
  <2>1. /\ usage'.size \in [Names -> Nat] /\ usage'.cached = SumOf(usage'.size)
        /\ \A m \in Names : usage'.size[m] <= FileSize(rows[m]) \/ usage'.size[m] <= usage.size[m]
    BY <1>m, Measured
  <2>2. PICK allot \in [Names -> Nat] : Allots(allot)
    BY DEF Allotment
  <2>3. \A m \in Names : usage'.size[m] <= allot[m]
    <3>1. \A m \in Names : FileSize(rows[m]) <= allot[m] /\ usage.size[m] <= allot[m]
      BY <2>2 DEF Allots, Covers
    <3>2. usage.size \in [Names -> Nat]
      BY QuotaTypes
    <3> QED BY <1>t, <2>1, <3>1, <3>2
  <2>4. SumOf(usage'.size) <= SumOf(allot) /\ SumOf(usage'.size) \in Nat /\ SumOf(allot) \in Nat
    BY <2>1, <2>3, SumOfMonotone, SumOfNat
  <2>5. SumOf(allot) <= quota
    BY <2>2 DEF Allots
  <2> QED BY <1>t, <2>1, <2>4, <2>5
<1>y. x \in Nat /\ x <= quota - usage'.cached + FileSize(handle[h].path)
  <2>1. PICK y : y = quota - usage'.cached + FileSize(handle[h].path)
    OBVIOUS
  <2>2. y \in Nat
    <3>1. FileSize(handle[h].path) \in Nat
      BY <1>t
    <3> QED BY <1>c, <1>t, <2>1, <3>1
  <2>3. x = Wrap(y)
    BY <1>u, <1>x, <2>1 DEF MaxSize
  <2> QED BY <2>1, <2>2, <2>3, WrapResult
<1>3. /\ FilesHavePages' /\ OpenHasFile' /\ Numbers' /\ RecordOfRows' /\ WithinMax' /\ PendingUnknown' /\ KnownSizes'
      /\ usage'.size \in [Names -> Nat] /\ usage'.cached = SumOf(usage'.size)
      /\ \A m \in Names : FileSize(rows[m]) <= usage'.size[m]
  <2>1. \A g \in Handles : /\ handle'[g].pending = 0 /\ handle'[g].max \in Nat \cup {-1}
                           /\ handle'[g].requirement \in Nat
                           /\ handle'[g].state = "open" => handle[g].state = "open" /\ handle'[g].path = handle[g].path
    BY <1>1, <1>2, <1>h, <1>y DEF NothingGrows, Numbers
  <2>2. \A g \in Handles, m \in Names : OpensFile(g, m)' /\ rows[m] # 0 => FileSize(rows[m]) > 0
    BY <1>o
  <2> QED BY <1>1, <1>m, <1>u, <2>1, <2>2, MeasuredParts
<1>g. \A g \in Handles : g # h => ~Grows(g)'
  <2> SUFFICES ASSUME NEW g \in Handles, g # h, Grows(g)'  PROVE FALSE
    OBVIOUS
  <2>1. Grows(g) /\ handle[g].max = -1 /\ handle[g].state # "asking"
    BY <1>1, <1>2, <1>h, <1>u DEF Grows, NothingGrows, NameOf
  <2>2. handle[g].state = "established"
    BY <2>1 DEF Grows
  <2>3. MayGrow(g)
    BY <1>t, <2>2 DEF MayGrow, HandleConsistent, Opening
  <2> QED BY <1>0, <2>3
<1>4. OneGrows'
  BY <1>g DEF OneGrows
<1>5. FileThere'
  BY <1>h, <1>u DEF FileThere, NameOf
<1>6. \A g \in Handles : handle'[g].state # "asking"
  BY <1>1, <1>h DEF NothingGrows
<1>7. PICK f \in [Names -> Nat] : f = usage'.size
  BY <1>3
<1>8. CASE handle[h].path # 0 /\ handle[h].path = rows[n] /\ x > f[n]
  <2>1. PICK more : more = [f EXCEPT ![n] = x]
    OBVIOUS
  <2>2. more \in [Names -> Nat] /\ more[n] = x /\ \A m \in Names : m # n => more[m] = f[m]
    BY <1>y, <2>1
  <2>3. SumOf(more) + f[n] = SumOf(f) + x /\ SumOf(more) \in Nat /\ SumOf(f) \in Nat
    <3>1. SumOf(more) + f[n] = SumOf(f) + x
      BY <1>y, <2>1, SumOfChange
    <3>2. SumOf(more) \in Nat
      BY <2>2, SumOfNat
    <3>3. SumOf(f) \in Nat
      BY SumOfNat
    <3> QED BY <3>1, <3>2, <3>3
  <2>4. SumOf(more) <= quota
    <3>1. FileSize(handle[h].path) <= f[n] /\ f[n] \in Nat /\ FileSize(handle[h].path) \in Nat
      BY <1>3, <1>7, <1>8, <1>t
    <3> QED BY <1>3, <1>7, <1>c, <1>t, <1>y, <2>3, <3>1
  <2>5. Covers(more)'
    <3> SUFFICES ASSUME NEW m \in Names
                 PROVE  /\ FileSize(rows[m]) <= more[m] /\ usage'.size[m] <= more[m]
                        /\ \A g \in Handles :
                             /\ handle'[g].path = rows[m] /\ rows[m] # 0 => handle'[g].max <= more[m]
                             /\ OpensFile(g, m)' => more[m] > 0
      BY <1>u DEF Covers, FileSize
    <3>1. /\ more[m] \in Nat /\ f[m] \in Nat /\ FileSize(rows[m]) \in Nat
          /\ FileSize(rows[m]) <= f[m] /\ f[m] <= more[m]
      BY <1>3, <1>7, <1>8, <1>t, <1>y, <2>2
    <3>2. ASSUME NEW g \in Handles, handle'[g].path = rows[m], rows[m] # 0  PROVE handle'[g].max <= more[m]
      <4>1. CASE g = h
        BY <1>h, <1>n, <1>y, <2>2, <3>2, <4>1
      <4>2. CASE g # h
        BY <1>2, <1>h, <3>1, <4>2
      <4> QED BY <4>1, <4>2
    <3> QED BY <1>7, <1>o, <3>1, <3>2
  <2>6. Allots(more)'
    BY <1>6, <1>u, <2>4, <2>5 DEF Allots
  <2>7. Allotment'
    BY <2>2, <2>6 DEF Allotment
  <2> QED BY <1>3, <1>4, <1>5, <2>7
<1>9. CASE ~(handle[h].path # 0 /\ handle[h].path = rows[n] /\ x > f[n])
  <2>5. Covers(f)'
    <3> SUFFICES ASSUME NEW m \in Names
                 PROVE  /\ FileSize(rows[m]) <= f[m] /\ usage'.size[m] <= f[m]
                        /\ \A g \in Handles :
                             /\ handle'[g].path = rows[m] /\ rows[m] # 0 => handle'[g].max <= f[m]
                             /\ OpensFile(g, m)' => f[m] > 0
      BY <1>u DEF Covers, FileSize
    <3>1. f[m] \in Nat /\ FileSize(rows[m]) \in Nat /\ FileSize(rows[m]) <= f[m]
      BY <1>3, <1>7, <1>t
    <3>2. ASSUME NEW g \in Handles, handle'[g].path = rows[m], rows[m] # 0  PROVE handle'[g].max <= f[m]
      <4>1. CASE g = h
        <5>1. m = n /\ handle[h].path # 0 /\ handle[h].path = rows[n]
          BY <1>h, <1>n, <3>2, <4>1
        <5> QED BY <1>9, <1>h, <1>y, <3>1, <4>1, <5>1
      <4>2. CASE g # h
        BY <1>2, <1>h, <3>1, <4>2
      <4> QED BY <4>1, <4>2
    <3> QED BY <1>7, <1>o, <3>1, <3>2
  <2>6. Allots(f)'
    BY <1>3, <1>6, <1>7, <1>c, <1>u, <2>5 DEF Allots
  <2>7. Allotment'
    BY <2>6 DEF Allotment
  <2> QED BY <1>3, <1>4, <1>5, <2>7
<1> QED BY <1>8, <1>9

-----------------------------------------------------------------------------
(* The quota is kept.                                                      *)

\* A usage that nobody can disturb.
LEMMA UsageForOriginQuota ==
  ASSUME IInv, IInv', Sound, Sound', Allotted, UsageForOrigin
  PROVE  Allotted'
<1>1. /\ usage' = UsageForOriginNoLock /\ UNCHANGED <<quota, rows, files, handle>>
      /\ \A g \in Handles : ~MayGrow(g)
  BY DEF UsageForOrigin, tableVars, Sound
<1> QED BY <1>1, MeasuredOnly

\* The inductive invariant of QuotaKept: the quota can be allotted to the
\* databases as long as the premise of QuotaKept holds.
QInv == IInv /\ FreshFiles /\ (Sound => Allotted)

\* The premise of QuotaKept, once lost, is lost for good.
LEMMA SoundBefore == ASSUME [Next]_vars, Sound' PROVE Sound
<1> USE DEF Sound
<1>1. ASSUME NEW h \in Handles, OpenHandle(h)  PROVE Sound
  <2>1. ASSUME NEW n \in Names, NEW e \in Estimates, CanEstablishDatabase(h, n, e)  PROVE Sound
    BY <2>1 DEF CanEstablishDatabase
  <2>2. CASE CanEstablishAfterAsking(h) \/ FullPathForDatabase(h) \/ AddOpenDatabase(h) \/ DoneCreating(h) \/ OpenFile(h)
    BY <2>2 DEF CanEstablishAfterAsking, FullPathForDatabase, AddOpenDatabase, DoneCreating, OpenFile, historyVars
  <2>3. CASE OpenFails(h)
    BY <2>3 DEF OpenFails, RemoveOpenDatabase
  <2> QED BY <1>1, <2>1, <2>2, <2>3 DEF OpenHandle
<1>2. ASSUME NEW h \in Handles, UseHandle(h)  PROVE Sound
  <2>1. CASE GetMaxSizeForDatabase(h)
    <3>1. CASE UsesNullRecord
      BY <3>1 DEF UsesNullRecord, historyVars
    <3>2. CASE overcommitted' = (overcommitted \/ Overcommits(h)) /\ UNCHANGED <<lowered, forgot>>
      BY <3>2
    <3> QED BY <2>1, <3>1, <3>2 DEF GetMaxSizeForDatabase
  <2>2. CASE ExecuteStatement(h) \/ EndTransaction(h)
    BY <2>2 DEF ExecuteStatement, EndTransaction, UsesNullRecord, historyVars
  <2>3. CASE Close(h)
    BY <2>3 DEF Close, RemoveOpenDatabase
  <2> QED BY <1>2, <2>1, <2>2, <2>3 DEF UseHandle
<1>3. ASSUME NEW q \in Quotas, SetQuota(q)  PROVE Sound
  BY <1>3 DEF SetQuota
<1>4. CASE UsageForOrigin
  BY <1>4 DEF UsageForOrigin
<1>5. CASE Delete
  <2>1. ASSUME NEW n \in Names, DeleteDatabase(n) \/ LookUpPath(n)  PROVE Sound
    BY <2>1 DEF DeleteDatabase, LookUpPath, historyVars
  <2>2. ASSUME NEW h \in Handles, MarkAsDeletedAndClose(h)  PROVE Sound
    BY <2>2 DEF MarkAsDeletedAndClose, RemoveOpenDatabase
  <2>3. CASE DeleteOrigin \/ CollectHandles \/ DeleteFile \/ DoneDeletingDatabase \/ DoneDeletingOrigin
    BY <2>3 DEF DeleteOrigin, CollectHandles, DeleteFile, DoneDeletingDatabase, DoneDeletingOrigin, historyVars
  <2> QED BY <1>5, <2>1, <2>2, <2>3 DEF Delete
<1>6. CASE UNCHANGED vars
  BY <1>6 DEF vars, historyVars
<1> QED BY <1>1, <1>2, <1>3, <1>4, <1>5, <1>6 DEF Next

\* Files are created and written under paths that were given out.
LEMMA FilesBefore ==
  ASSUME IInv, [Next]_vars
  PROVE  /\ lastPath' >= lastPath
         /\ \A p \in 1..MaxPaths : \/ files'[p] = files[p] \/ files'[p] = -1
                                   \/ p <= lastPath
<1> DEFINE Good == /\ lastPath' >= lastPath
                   /\ \A p \in 1..MaxPaths : files'[p] = files[p] \/ files'[p] = -1 \/ p <= lastPath
<1> SUFFICES Good
  OBVIOUS
<1>t. /\ lastPath \in Int /\ files \in [1..MaxPaths -> Nat \cup {-1}] /\ MaxPaths \in Nat
      /\ \A h \in Handles : /\ handle[h].path \in 0..MaxPaths
                            /\ handle[h].path # 0 => handle[h].path <= lastPath
  BY TrackerAssumption DEF IInv, Shapes, TablesOK, HandlesOK, HandleShape, HandlesConsistent, HandleConsistent
<1>s. ASSUME UNCHANGED <<lastPath, files>>  PROVE Good
  BY <1>s, <1>t
<1>o. ASSUME NEW h \in Handles, UNCHANGED lastPath, files' = OpenedFiles(h)  PROVE Good
  <2>1. PICK p \in 0..MaxPaths : p = handle[h].path
    BY <1>t
  <2>2. files' = files \/ (p # 0 /\ p <= lastPath /\ files' = [files EXCEPT ![p] = 1])
    BY <1>o, <1>t, <2>1 DEF OpenedFiles
  <2> QED BY <1>o, <1>t, <2>2
<1>1. ASSUME NEW h \in Handles, OpenHandle(h)  PROVE Good
  <2>1. ASSUME NEW n \in Names, NEW e \in Estimates, CanEstablishDatabase(h, n, e)  PROVE Good
    BY <1>s, <2>1 DEF CanEstablishDatabase, tableVars
  <2>2. CASE CanEstablishAfterAsking(h) \/ AddOpenDatabase(h) \/ DoneCreating(h)
    BY <1>s, <2>2 DEF CanEstablishAfterAsking, AddOpenDatabase, DoneCreating, tableVars
  <2>3. CASE FullPathForDatabase(h)
    <3>1. files' = files /\ (lastPath' = lastPath \/ lastPath' = lastPath + 1)
      BY <2>3 DEF FullPathForDatabase
    <3> QED BY <1>t, <3>1
  <2>4. CASE OpenFile(h)
    BY <1>o, <2>4 DEF OpenFile, tableVars
  <2>5. CASE OpenFails(h)
    <3>1. files' \in {files, OpenedFiles(h)} /\ lastPath' = lastPath
      BY <2>5 DEF OpenFails, tableVars
    <3> QED BY <1>o, <1>s, <3>1
  <2> QED BY <1>1, <2>1, <2>2, <2>3, <2>4, <2>5 DEF OpenHandle
<1>2. ASSUME NEW h \in Handles, UseHandle(h)  PROVE Good
  <2>1. CASE GetMaxSizeForDatabase(h) \/ ExecuteStatement(h) \/ Close(h)
    BY <1>s, <2>1 DEF GetMaxSizeForDatabase, ExecuteStatement, UsesNullRecord, Close, tableVars
  <2>2. CASE EndTransaction(h)
    <3>1. PICK p \in 0..MaxPaths : p = handle[h].path
      BY <1>t
    <3>2. lastPath' = lastPath
      BY <2>2 DEF EndTransaction, tableVars
    <3>3. \/ files' = files
          \/ p # 0 /\ files' = [files EXCEPT ![p] = @ + handle[h].pending]
      BY <2>2, <3>1 DEF EndTransaction
    <3>4. \A q \in 1..MaxPaths : q # p => files'[q] = files[q]
      BY <1>t, <3>3
    <3> QED BY <1>s, <1>t, <3>1, <3>2, <3>3, <3>4
  <2> QED BY <1>2, <2>1, <2>2 DEF UseHandle
<1>3. ASSUME NEW q \in Quotas, SetQuota(q)  PROVE Good
  BY <1>3, <1>s DEF SetQuota, tableVars
<1>4. CASE UsageForOrigin
  BY <1>4, <1>s DEF UsageForOrigin, tableVars
<1>5. CASE Delete
  <2>1. ASSUME NEW n \in Names, DeleteDatabase(n) \/ LookUpPath(n)  PROVE Good
    BY <1>s, <2>1 DEF DeleteDatabase, LookUpPath, tableVars
  <2>2. ASSUME NEW h \in Handles, MarkAsDeletedAndClose(h)  PROVE Good
    BY <1>s, <2>2 DEF MarkAsDeletedAndClose, tableVars
  <2>3. CASE DeleteOrigin \/ CollectHandles \/ DoneDeletingDatabase \/ DoneDeletingOrigin
    BY <1>s, <2>3 DEF DeleteOrigin, CollectHandles, DoneDeletingDatabase, DoneDeletingOrigin, tableVars
  <2>4. CASE DeleteFile
    <3>1. lastPath' = lastPath /\ (files' = files \/ files' = [files EXCEPT ![deleter.path] = -1])
      BY <2>4 DEF DeleteFile, tableVars
    <3>2. \A p \in 1..MaxPaths : files'[p] = files[p] \/ files'[p] = -1
      BY <1>t, <3>1
    <3> QED BY <1>t, <3>1, <3>2
  <2> QED BY <1>5, <2>1, <2>2, <2>3, <2>4 DEF Delete
<1>6. CASE UNCHANGED vars
  BY <1>6, <1>s DEF vars, tableVars
<1> QED BY <1>1, <1>2, <1>3, <1>4, <1>5, <1>6 DEF Next

\* No step creates a file under a path that was not given out.
LEMMA FreshStep == ASSUME IInv, FreshFiles, [Next]_vars PROVE FreshFiles'
<1>1. MaxPaths \in Nat /\ lastPath \in Int /\ lastPath' \in Int /\ IInv'
  BY NextIInv, TrackerAssumption DEF IInv, Shapes, TablesOK
<1> SUFFICES ASSUME NEW p \in 1..MaxPaths, p > lastPath'  PROVE files'[p] = -1
  BY DEF FreshFiles
<1>2. p > lastPath
  BY <1>1, FilesBefore
<1>3. files[p] = -1
  BY <1>2 DEF FreshFiles
<1>4. files'[p] = files[p] \/ files'[p] = -1
  BY <1>1, <1>2, FilesBefore
<1> QED BY <1>3, <1>4

\* The tracker as it is made: nothing is allotted.
LEMMA InitQInv == Init => QInv
<1> SUFFICES ASSUME Init  PROVE QInv
  OBVIOUS
<1>1. IInv
  BY InitIInv
<1>2. /\ quota \in Nat /\ \A h \in Handles : handle[h] = NewHandle
      /\ \A n \in Names : rows[n] = 0
      /\ \A p \in 1..MaxPaths : files[p] = -1
      /\ usage = NoRecord
  BY <1>1 DEF Init, IInv, Shapes, TablesOK
<1>3. /\ NewHandle.state = "new" /\ NewHandle.max = -1 /\ NewHandle.pending = 0 /\ NewHandle.path = 0
      /\ NewHandle.requirement = 0
  BY DEF NewHandle
<1>4. /\ ~NoRecord.tracked /\ NoRecord.cached = -1
      /\ \A n \in Names : NoRecord.path[n] = -1 /\ NoRecord.size[n] = 0
  BY DEF NoRecord
<1>5. FreshFiles /\ FilesHavePages
  BY <1>2 DEF FreshFiles, FilesHavePages
<1>6. OpenHasFile /\ OneGrows /\ FileThere /\ WithinMax
  BY <1>2, <1>3 DEF OpenHasFile, OneGrows, Grows, FileThere, WithinMax
<1>7. Numbers /\ RecordOfRows /\ PendingUnknown /\ KnownSizes
  <2>1. \A h \in Handles : handle[h].max = -1 /\ handle[h].requirement = 0
    BY <1>2, <1>3
  <2>2. Numbers
    BY <1>2, <1>4, <2>1 DEF Numbers
  <2>3. RecordOfRows
    BY <1>2, <1>4 DEF RecordOfRows
  <2> QED BY <1>2, <1>4, <2>2, <2>3 DEF PendingUnknown, KnownSizes
<1>8. Allotment
  <2>1. PICK allot \in [Names -> Nat] : \A n \in Names : allot[n] = 0
    <3>1. [n \in Names |-> 0] \in [Names -> Nat] /\ \A n \in Names : [m \in Names |-> 0][n] = 0
      OBVIOUS
    <3> QED BY <3>1
  <2>2. SumOf(allot) = 0
    BY <2>1, SumOfZero
  <2>3. Covers(allot)
    <3>1. \A n \in Names : FileSize(rows[n]) = 0 /\ usage.size[n] = 0
      BY <1>2, <1>4 DEF FileSize
    <3>2. \A g \in Handles, n \in Names : ~OpensFile(g, n)
      BY <1>2, <1>3 DEF OpensFile
    <3> QED BY <1>2, <2>1, <3>1, <3>2 DEF Covers
  <2>4. \A g \in Handles : handle[g].state # "asking"
    BY <1>2, <1>3
  <2> QED BY <1>2, <2>1, <2>2, <2>3, <2>4 DEF Allotment, Allots
<1> QED BY <1>1, <1>5, <1>6, <1>7, <1>8 DEF QInv, Allotted

\* Every step keeps the allotment.
LEMMA AllottedStep ==
  ASSUME IInv, IInv', FreshFiles, Sound, Sound', Allotted, [Next]_vars
  PROVE  Allotted'
<1>1. ASSUME NEW h \in Handles, OpenHandle(h)  PROVE Allotted'
  <2>1. ASSUME NEW n \in Names, NEW e \in Estimates, CanEstablishDatabase(h, n, e)  PROVE Allotted'
    BY <2>1, CanEstablishQuota
  <2>2. CASE CanEstablishAfterAsking(h)
    BY <2>2, GrantedQuota, QuietSteps
  <2>3. CASE FullPathForDatabase(h)
    BY <2>3, RowPathQuota, NewPathQuota
  <2>4. CASE AddOpenDatabase(h) \/ DoneCreating(h)
    BY <2>4, QuietSteps
  <2>5. CASE OpenFile(h)
    <3>1. /\ handle[h].state = "constructed" /\ UNCHANGED <<quota, rows, usage>>
          /\ files' = OpenedFiles(h) /\ Goto(h, "open")
      BY <2>5 DEF OpenFile, tableVars
    <3> QED BY <3>1, GotoResult, OpenFileQuota
  <2>6. CASE OpenFails(h)
    <3>1. /\ handle[h].state = "constructed" /\ UNCHANGED <<quota, rows>>
          /\ usage' = usage \/ usage' = NoRecord
          /\ files' \in {files, OpenedFiles(h)} /\ handle' = [handle EXCEPT ![h] = NewHandle]
      BY <2>6 DEF OpenFails, RemoveOpenDatabase, tableVars
    <3>2. handle'[h] = NewHandle /\ \A g \in Handles : g # h => handle'[g] = handle[g]
      BY <3>1, ReplaceResult
    <3> QED BY <3>1, <3>2, OpenFileQuota
  <2> QED BY <1>1, <2>1, <2>2, <2>3, <2>4, <2>5, <2>6 DEF OpenHandle
<1>2. ASSUME NEW h \in Handles, UseHandle(h)  PROVE Allotted'
  <2>1. CASE Close(h)
    BY <2>1, QuietSteps
  <2>2. CASE UsesNullRecord
    BY <2>2, QuietSteps
  <2>3. GetMaxSizeForDatabase(h) \/ ExecuteStatement(h) => UsesNullRecord \/ usage.tracked
    BY DEF GetMaxSizeForDatabase, ExecuteStatement
  <2> QED BY <1>2, <2>1, <2>2, <2>3, GetMaxSizeQuota, ExecuteStatementQuota, EndTransactionQuota DEF UseHandle
<1>3. ASSUME NEW q \in Quotas, SetQuota(q)  PROVE Allotted'
  BY <1>3, QuietSteps
<1>4. CASE UsageForOrigin
  BY <1>4, UsageForOriginQuota
<1>5. CASE Delete
  <2>1. ASSUME NEW n \in Names, DeleteDatabase(n) \/ LookUpPath(n)  PROVE Allotted'
    BY <2>1, QuietSteps
  <2>2. ASSUME NEW h \in Handles, MarkAsDeletedAndClose(h)  PROVE Allotted'
    BY <2>2, QuietSteps
  <2>3. CASE DeleteOrigin \/ CollectHandles
    BY <2>3, QuietSteps
  <2> QED BY <1>5, <2>1, <2>2, <2>3, DeleteFileQuota, DoneDeletingDatabaseQuota, DoneDeletingOriginQuota DEF Delete
<1>6. CASE UNCHANGED vars
  BY <1>6, QuietSteps
<1> QED BY <1>1, <1>2, <1>3, <1>4, <1>5, <1>6 DEF Next

\* Every step keeps the invariant of QuotaKept.
LEMMA NextQInv == QInv /\ [Next]_vars => QInv'
<1> SUFFICES ASSUME QInv, [Next]_vars  PROVE QInv'
  OBVIOUS
<1>1. IInv /\ IInv' /\ FreshFiles
  BY NextIInv DEF QInv
<1>2. FreshFiles'
  BY <1>1, FreshStep
<1>3. ASSUME Sound'  PROVE Allotted'
  <2>1. Sound
    BY <1>3, SoundBefore
  <2>2. Allotted
    BY <2>1 DEF QInv
  <2> QED BY <1>1, <1>3, <2>1, <2>2, AllottedStep
<1> QED BY <1>1, <1>2, <1>3 DEF QInv

\* QInv is an invariant of the tracker: while the quota is not lowered, no
\* record is dropped and no two handles are promised the same space, it can be
\* allotted to the databases.
THEOREM QuotaInvariance == Spec => []QInv
<1>1. Init => QInv
  BY InitQInv
<1>2. QInv /\ [Next]_vars => QInv'
  BY NextQInv
<1> QED BY <1>1, <1>2, PTL DEF Spec

\* The origin stays within its quota, and no maximum size is more than the
\* quota (canEstablishDatabase, getMaxSizeForDatabase, diskUsage).
THEOREM QuotaKeptHolds == Spec => []QuotaKept
<1>1. QInv => QuotaKept
  <2> SUFFICES ASSUME IInv, ~lowered /\ ~overcommitted /\ ~forgot, Allotted
               PROVE  /\ SumOf([n \in Names |-> FileSize(rows[n])]) <= quota
                      /\ \A h \in Handles : handle[h].path # 0 /\ rows[NameOf(h)] = handle[h].path =>
                                              handle[h].max <= quota
    BY DEF QInv, QuotaKept, Sound
  <2>1. PICK allot \in [Names -> Nat] : Allots(allot)
    BY DEF Allotted, Allotment
  <2>2. /\ quota \in Nat /\ \A n \in Names : FileSize(rows[n]) \in Nat
        /\ \A h \in Handles : HandleConsistent(h)
    BY QuotaTypes
  <2>3. SumOf(allot) \in Nat /\ SumOf(allot) <= quota
    BY <2>1, SumOfNat DEF Allots
  <2>4. SumOf([n \in Names |-> FileSize(rows[n])]) <= quota
    <3>1. PICK size : size = [n \in Names |-> FileSize(rows[n])]
      OBVIOUS
    <3>2. size \in [Names -> Nat] /\ \A n \in Names : size[n] <= allot[n]
      BY <2>1, <2>2, <3>1 DEF Allots, Covers
    <3>3. SumOf(size) <= SumOf(allot) /\ SumOf(size) \in Nat
      BY <3>2, SumOfMonotone, SumOfNat
    <3> QED BY <2>2, <2>3, <3>1, <3>3
  <2>5. ASSUME NEW h \in Handles, handle[h].path # 0, rows[NameOf(h)] = handle[h].path
        PROVE  handle[h].max <= quota
    <3>1. PICK n \in Names : n = NameOf(h)
      BY <2>2, <2>5 DEF HandleConsistent
    <3>2. handle[h].max <= allot[n] /\ allot[n] \in Nat /\ handle[h].max \in Nat \cup {-1}
      BY <2>1, <2>5, <3>1 DEF Allots, Covers, Allotted, Numbers
    <3>3. allot[n] <= SumOf(allot)
      BY SumOfCovers
    <3> QED BY <2>2, <2>3, <3>2, <3>3
  <2> QED BY <2>4, <2>5
<1> QED BY <1>1, QuotaInvariance, PTL
=============================================================================
