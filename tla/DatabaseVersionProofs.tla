------------------------ MODULE DatabaseVersionProofs ------------------------
(***************************************************************************)
(* Proofs about DatabaseVersion, for every set of handles and versions.    *)
(***************************************************************************)
EXTENDS DatabaseVersion, TLAPS

\* updateGuidVersionMap stores something, and never the empty string.
LEMMA CachedType ==
  ASSUME NEW version \in {"null"} \cup Strings
  PROVE  Cached(version) \in {"null"} \cup Versions /\ Cached(version) # "absent"
BY VersionsAssumption DEF Cached, Strings

\* A step of a handle moves no other handle and no file, and only the end of
\* performOpenAndVerify opens it.
LEMMA StepOfOneHandle ==
  ASSUME TypeOK, NEW g \in Handles, Step(g)
  PROVE  /\ current' = current
         /\ \A h \in Handles : state'[h] # state[h] => h = g
         /\ state[g] = "verifying" /\ state'[g] = "opened" => Verify(g)
<1> USE DEF TypeOK
<1>1. CASE Construct(g)
  BY <1>1 DEF Construct
<1>2. CASE OpenFromCache(g) \/ OpenFromFile(g)
  BY <1>2 DEF OpenFromCache, OpenFromFile, Find
<1>3. CASE Verify(g)
  BY <1>3 DEF Verify
<1>4. CASE OpenFails(g)
  BY <1>4 DEF OpenFails
<1>5. CASE CloseDatabase(g)
  BY <1>5 DEF CloseDatabase
<1>6. CASE PerformPreflight(g) \/ Rollback(g) \/ PerformPostflight(g)
  BY <1>6 DEF PerformPreflight, Rollback, PerformPostflight
<1>7. CASE Commit(g) \/ CommitSync(g) \/ SetExpectedVersionSync(g)
  BY <1>7 DEF Commit, CommitSync, SetExpectedVersionSync
<1> QED BY <1>1, <1>2, <1>3, <1>4, <1>5, <1>6, <1>7 DEF Step

\* COMMIT of a version overtakes the opens that are being verified.
LEMMA WriteVersionFound ==
  ASSUME found \in [Handles -> [version : Strings, new : BOOLEAN, overtaken : BOOLEAN]],
         NEW h \in Handles, WriteVersion(h)
  PROVE  /\ found' \in [Handles -> [version : Strings, new : BOOLEAN, overtaken : BOOLEAN]]
         /\ \A g \in Handles : state[g] = "verifying" => found'[g].overtaken
<1>1. found' = [g \in Handles |-> [found[g] EXCEPT !.overtaken = state[g] = "verifying"]]
  BY DEF WriteVersion
<1>2. ASSUME NEW r \in [version : Strings, new : BOOLEAN, overtaken : BOOLEAN], NEW b \in BOOLEAN
      PROVE  /\ [r EXCEPT !.overtaken = b] \in [version : Strings, new : BOOLEAN, overtaken : BOOLEAN]
             /\ [r EXCEPT !.overtaken = b].overtaken = b
  OBVIOUS
<1>3. ASSUME NEW g \in Handles
      PROVE  /\ found'[g] \in [version : Strings, new : BOOLEAN, overtaken : BOOLEAN]
             /\ found'[g].overtaken = (state[g] = "verifying")
  <2> DEFINE b == state[g] = "verifying"
             r == found[g]
  <2>1. found'[g] = [r EXCEPT !.overtaken = b]
    BY <1>1
  <2>2. r \in [version : Strings, new : BOOLEAN, overtaken : BOOLEAN] /\ b \in BOOLEAN
    OBVIOUS
  <2> HIDE DEF b, r
  <2>3. /\ found'[g] \in [version : Strings, new : BOOLEAN, overtaken : BOOLEAN]
        /\ found'[g].overtaken = b
    BY <1>2, <2>1, <2>2
  <2> QED BY <2>3 DEF b
<1> QED BY <1>1, <1>3

\* Type correctness: guidToVersionMap holds no empty string, a handle uses one
\* of the files the database has had.
THEOREM TypeCorrectness == Spec => []TypeOK
<1>1. Init => TypeOK
  <2> SUFFICES ASSUME Init PROVE TypeOK
    OBVIOUS
  <2>1. NoChange \in [stage : {"none", "body", "uncommitted", "committed"}, version : Strings]
    BY DEF NoChange, Strings
  <2>2. 0 \in 0..MaxDeletions
    BY MaxDeletionsAssumption
  <2>3. change \in [Handles -> [stage : {"none", "body", "uncommitted", "committed"}, version : Strings]]
    BY <2>1 DEF Init
  <2>4. found \in [Handles -> [version : Strings, new : BOOLEAN, overtaken : BOOLEAN]]
    BY DEF Init, NotFound, Strings
  <2> QED BY <2>2, <2>3, <2>4 DEF Init, TypeOK, Strings
<1>2. TypeOK /\ [Next]_vars => TypeOK'
  <2> SUFFICES ASSUME TypeOK, [Next]_vars PROVE TypeOK'
    OBVIOUS
  <2> USE DEF TypeOK
  <2>0. NoChange \in [stage : {"none", "body", "uncommitted", "committed"}, version : Strings]
    BY DEF NoChange, Strings
  <2>1. CASE DeleteDatabaseFile
    BY <2>1, MaxDeletionsAssumption DEF DeleteDatabaseFile
  <2>2. ASSUME NEW h \in Handles, Construct(h) PROVE TypeOK'
    BY <2>2 DEF Construct
  <2>c. Committing \in BOOLEAN
    BY DEF Committing
  <2>3. ASSUME NEW h \in Handles, OpenFromCache(h) PROVE TypeOK'
    <3>1. found' \in [Handles -> [version : Strings, new : BOOLEAN, overtaken : BOOLEAN]]
      BY <2>3, <2>c DEF OpenFromCache, Find, Strings
    <3> QED BY <2>3, <3>1 DEF OpenFromCache, Find
  <2>4. ASSUME NEW h \in Handles, OpenFromFile(h) PROVE TypeOK'
    <3> DEFINE new     == files[current] = "noTable"
               stored  == IF new THEN "null" ELSE files[current]
               version == IF stored \in {"null", "empty"} /\ (~new \/ setVersion[h])
                          THEN expected[h] ELSE stored
    <3>1. version \in {"null"} \cup Strings
      BY DEF Strings
    <3>2. files' \in [0..MaxDeletions -> {"noTable", "null"} \cup Strings]
      BY <2>4, <3>1 DEF OpenFromFile
    <3>3. guidToVersionMap' \in {"absent", "null"} \cup Versions
      BY <2>4, <3>1, CachedType DEF OpenFromFile
    <3>4. new \in BOOLEAN
      OBVIOUS
    <3>5. Find(h, IF version = "null" THEN "empty" ELSE version, new)
      BY <2>4 DEF OpenFromFile
    <3> HIDE DEF version, new
    <3>6. found' \in [Handles -> [version : Strings, new : BOOLEAN, overtaken : BOOLEAN]]
      BY <2>c, <3>1, <3>4, <3>5 DEF Find, Strings
    <3> QED BY <2>4, <3>2, <3>3, <3>5, <3>6 DEF OpenFromFile, Find
  <2>5. ASSUME NEW h \in Handles, OpenFails(h) PROVE TypeOK'
    BY <2>5 DEF OpenFails
  <2>6. ASSUME NEW h \in Handles, CloseDatabase(h) PROVE TypeOK'
    BY <2>6, <2>0 DEF CloseDatabase
  <2>7. ASSUME NEW h \in Handles, PerformPreflight(h) PROVE TypeOK'
    BY <2>7 DEF PerformPreflight
  <2>8. ASSUME NEW h \in Handles, Rollback(h) PROVE TypeOK'
    BY <2>8, <2>0 DEF Rollback
  <2>9. ASSUME NEW h \in Handles, PerformPostflight(h) PROVE TypeOK'
    BY <2>9, CachedType DEF PerformPostflight, SetExpectedVersion
  <2>10. ASSUME NEW h \in Handles, Commit(h) PROVE TypeOK'
    <3>0. WriteVersion(h) \/ UNCHANGED found
      BY <2>10 DEF Commit
    <3>1. found' \in [Handles -> [version : Strings, new : BOOLEAN, overtaken : BOOLEAN]]
      BY <3>0, WriteVersionFound
    <3>2. change' \in [Handles -> [stage : {"none", "body", "uncommitted", "committed"}, version : Strings]]
      BY <2>10, <2>0 DEF Commit
    <3> QED BY <2>10, <3>1, <3>2 DEF Commit, WriteVersion
  <2>11. ASSUME NEW h \in Handles, CommitSync(h) PROVE TypeOK'
    <3>1. change' = [change EXCEPT ![h].stage = "committed"] \/ change' = [change EXCEPT ![h] = NoChange]
      BY <2>11 DEF CommitSync
    <3>2. change' \in [Handles -> [stage : {"none", "body", "uncommitted", "committed"}, version : Strings]]
      <4>1. CASE change' = [change EXCEPT ![h].stage = "committed"]
        BY <4>1
      <4>2. CASE change' = [change EXCEPT ![h] = NoChange]
        BY <4>2, <2>0
      <4> QED BY <3>1, <4>1, <4>2
    <3>3. files' \in [0..MaxDeletions -> {"noTable", "null"} \cup Strings]
      BY <2>11 DEF CommitSync, WriteVersion
    <3>0. WriteVersion(h) \/ UNCHANGED found
      BY <2>11 DEF CommitSync
    <3>4. found' \in [Handles -> [version : Strings, new : BOOLEAN, overtaken : BOOLEAN]]
      BY <3>0, WriteVersionFound
    <3> QED BY <2>11, <3>2, <3>3, <3>4 DEF CommitSync
  <2>12. ASSUME NEW h \in Handles, SetExpectedVersionSync(h) PROVE TypeOK'
    BY <2>12, <2>0, CachedType DEF SetExpectedVersionSync, SetExpectedVersion
  <2>13. CASE UNCHANGED vars
    BY <2>13 DEF vars
  <2>14. ASSUME NEW h \in Handles, Verify(h) PROVE TypeOK'
    <3>1. NotFound \in [version : Strings, new : BOOLEAN, overtaken : BOOLEAN]
      BY DEF NotFound, Strings
    <3> QED BY <2>14, <3>1 DEF Verify, Strings
  <2> QED BY <2>1, <2>2, <2>3, <2>4, <2>5, <2>6, <2>7, <2>8, <2>9, <2>10, <2>11, <2>12, <2>13, <2>14
          DEF Next, Step
<1> QED BY <1>1, <1>2, PTL DEF Spec

-----------------------------------------------------------------------------
(* The maps.                                                               *)

\* A handle is in guidToDatabaseMap from its construction until it is closed,
\* and one that has found a version keeps the entry of guidToVersionMap alive.
MapsInv ==
  \A h \in Handles :
    /\ state[h] \in {"constructed", "verifying", "opened"} => h \in guidToDatabaseMap
    /\ state[h] \in {"verifying", "opened"} => guidToVersionMap # "absent"

\* One step keeps the maps.
LEMMA MapsInvStep ==
  ASSUME TypeOK, MapsInv, [Next]_vars
  PROVE  MapsInv'
<1> USE DEF TypeOK, MapsInv
<1>1. CASE DeleteDatabaseFile
  BY <1>1 DEF DeleteDatabaseFile
<1>2. ASSUME NEW h \in Handles, Construct(h) PROVE MapsInv'
  BY <1>2 DEF Construct
<1>3. ASSUME NEW h \in Handles, OpenFromCache(h) PROVE MapsInv'
  BY <1>3 DEF OpenFromCache, Find
<1>4. ASSUME NEW h \in Handles, OpenFromFile(h) PROVE MapsInv'
  <2> DEFINE new     == files[current] = "noTable"
             stored  == IF new THEN "null" ELSE files[current]
             version == IF stored \in {"null", "empty"} /\ (~new \/ setVersion[h])
                        THEN expected[h] ELSE stored
  <2>1. version \in {"null"} \cup Strings
    BY DEF Strings
  <2>2. guidToVersionMap' # "absent"
    BY <1>4, <2>1, CachedType DEF OpenFromFile
  <2> HIDE DEF version
  <2> QED BY <1>4, <2>2 DEF OpenFromFile, Find
<1>5. ASSUME NEW h \in Handles, OpenFails(h) PROVE MapsInv'
  BY <1>5 DEF OpenFails
<1>6. ASSUME NEW h \in Handles, CloseDatabase(h) PROVE MapsInv'
  BY <1>6 DEF CloseDatabase
<1>7. ASSUME NEW h \in Handles, PerformPreflight(h) PROVE MapsInv'
  BY <1>7 DEF PerformPreflight
<1>8. ASSUME NEW h \in Handles, Rollback(h) PROVE MapsInv'
  BY <1>8 DEF Rollback
<1>9. ASSUME NEW h \in Handles, PerformPostflight(h) PROVE MapsInv'
  BY <1>9, CachedType DEF PerformPostflight, SetExpectedVersion
<1>10. ASSUME NEW h \in Handles, Commit(h) PROVE MapsInv'
  BY <1>10 DEF Commit
<1>11. ASSUME NEW h \in Handles, CommitSync(h) PROVE MapsInv'
  BY <1>11 DEF CommitSync
<1>12. ASSUME NEW h \in Handles, SetExpectedVersionSync(h) PROVE MapsInv'
  BY <1>12, CachedType DEF SetExpectedVersionSync, SetExpectedVersion
<1>13. CASE UNCHANGED vars
  BY <1>13 DEF vars
<1>14. ASSUME NEW h \in Handles, Verify(h) PROVE MapsInv'
  BY <1>14 DEF Verify
<1> QED BY <1>1, <1>2, <1>3, <1>4, <1>5, <1>6, <1>7, <1>8, <1>9, <1>10, <1>11, <1>12, <1>13, <1>14
        DEF Next, Step

\* The maps are right in every reachable state.
THEOREM MapsInvariance == Spec => []MapsInv
<1>1. Init => MapsInv
  BY DEF Init, MapsInv
<1>2. TypeOK /\ MapsInv /\ [Next]_vars => MapsInv'
  BY MapsInvStep
<1> QED BY <1>1, <1>2, TypeCorrectness, PTL DEF Spec

\* Every open handle has its entries in guidToDatabaseMap and guidToVersionMap,
\* so the ASSERTs of closeDatabase hold, with failing opens, deletions and
\* DatabaseSync handles included.
THEOREM OpenHandlesAreCachedHolds == Spec => []OpenHandlesAreCached
<1>1. MapsInv => OpenHandlesAreCached
  BY DEF MapsInv, OpenHandlesAreCached
<1> QED BY <1>1, MapsInvariance, PTL

-----------------------------------------------------------------------------
(* The cached version, as long as nothing has disturbed it.  Each of the   *)
(* three disturbances is real: TLC finds a counterexample to                *)
(* OpenVerifiesVersion when the history variable ignores any one of them.  *)

\* Only an open handle changes the version, one at a time; between postflight
\* and COMMIT the cache already has the new version, and between the COMMIT of a
\* DatabaseSync and its setExpectedVersion the file has it.
ChangeInv ==
  /\ current = 0 /\ \A h \in Handles : connection[h] = 0
  /\ \A h \in Handles :
       /\ change[h].stage # "none" => state[h] = "opened"
       /\ change[h].stage = "uncommitted" => guidToVersionMap = Cached(change[h].version)
       /\ change[h].stage = "committed" => files[0] = change[h].version
  /\ \A g, h \in Handles : change[g].stage # "none" /\ change[h].stage # "none" => g = h

CacheInv == ~disturbed => ChangeInv /\ CacheIsCurrent

\* An open that has found a version has the one of the file, or that of no
\* version, until a changeVersion overtakes it.
FoundInv ==
  ~disturbed => \A h \in Handles : state[h] = "verifying" /\ ~found[h].overtaken =>
    files[0] = found[h].version \/ (found[h].version = "empty" /\ files[0] = "null")

\* One step keeps the cache current, or disturbs it.
LEMMA CacheInvStep ==
  ASSUME TypeOK, MapsInv, CacheInv, [Next]_vars
  PROVE  CacheInv'
<1> SUFFICES ASSUME ~disturbed' PROVE ChangeInv' /\ CacheIsCurrent'
  BY DEF CacheInv
<1>0. ~disturbed
  <2>1. ASSUME NEW h \in Handles, Step(h) PROVE disturbed => disturbed'
    BY <2>1 DEF Step, Construct, OpenFromCache, OpenFromFile, OpenFails, Verify, CloseDatabase, PerformPreflight,
                Rollback, PerformPostflight, Commit, CommitSync, SetExpectedVersionSync, TypeOK
  <2> QED BY <2>1 DEF Next, DeleteDatabaseFile, vars
<1>00. ChangeInv /\ CacheIsCurrent
  BY <1>0 DEF CacheInv
<1> USE <1>00 DEF TypeOK, ChangeInv
<1>1. CASE DeleteDatabaseFile
  BY <1>1 DEF DeleteDatabaseFile
<1>2. ASSUME NEW h \in Handles, Construct(h) PROVE ChangeInv' /\ CacheIsCurrent'
  BY <1>2 DEF Construct, CacheIsCurrent, Committing
<1>3. ASSUME NEW h \in Handles, OpenFromCache(h) PROVE ChangeInv' /\ CacheIsCurrent'
  BY <1>3 DEF OpenFromCache, Find, CacheIsCurrent, Committing
<1>4. ASSUME NEW h \in Handles, OpenFromFile(h) PROVE ChangeInv' /\ CacheIsCurrent'
  <2> DEFINE new     == files[current] = "noTable"
             stored  == IF new THEN "null" ELSE files[current]
             version == IF stored \in {"null", "empty"} /\ (~new \/ setVersion[h])
                        THEN expected[h] ELSE stored
  <2>1. \A g \in Handles : change[g].stage = "none"
    BY <1>4 DEF OpenFromFile, MapsInv
  <2>2. files'[current'] = version /\ guidToVersionMap' = Cached(version)
    BY <1>4 DEF OpenFromFile
  <2> HIDE DEF version
  <2>3. CacheIsCurrent'
    BY <2>2 DEF CacheIsCurrent, Cached
  <2>4. change' = change /\ current' = 0 /\ \A g \in Handles : connection'[g] = 0
    BY <1>4 DEF OpenFromFile, Find
  <2> QED BY <2>1, <2>3, <2>4
<1>5. ASSUME NEW h \in Handles, OpenFails(h) PROVE ChangeInv' /\ CacheIsCurrent'
  <2>1. files' = files \/ guidToVersionMap = "absent"
    BY <1>5 DEF OpenFails
  <2>2. CASE files' = files
    BY <1>5, <2>2 DEF OpenFails, CacheIsCurrent, Committing
  <2>3. CASE guidToVersionMap = "absent"
    <3>1. \A g \in Handles : change[g].stage = "none"
      BY <2>3 DEF MapsInv
    <3> QED BY <1>5, <2>3, <3>1 DEF OpenFails, CacheIsCurrent
  <2> QED BY <2>1, <2>2, <2>3
<1>6. ASSUME NEW h \in Handles, CloseDatabase(h) PROVE ChangeInv' /\ CacheIsCurrent'
  <2>1. change'[h].stage = "none" /\ \A g \in Handles : g # h => change'[g] = change[g]
    BY <1>6 DEF CloseDatabase, NoChange
  <2>2. \A g \in Handles : g # h => state'[g] = state[g]
    BY <1>6 DEF CloseDatabase
  <2>3. \A g \in Handles : g # h /\ state[g] = "opened" => guidToVersionMap' = guidToVersionMap
    BY <1>6 DEF CloseDatabase, MapsInv
  <2>4. Committing' <=> Committing
    BY <1>6, <2>1 DEF CloseDatabase, MayClose, Committing, NoChange
  <2>5. CacheIsCurrent'
    BY <1>6, <2>4 DEF CloseDatabase, CacheIsCurrent
  <2>6. files' = files /\ current' = current /\ connection' = connection
    BY <1>6 DEF CloseDatabase
  <2>7. \A g \in Handles : change'[g].stage # "none" => g # h /\ change'[g] = change[g] /\ state'[g] = "opened"
    BY <2>1, <2>2
  <2>8. \A g \in Handles : change'[g].stage = "uncommitted" => guidToVersionMap' = Cached(change'[g].version)
    <3> SUFFICES ASSUME NEW g \in Handles, change'[g].stage = "uncommitted"
                 PROVE  guidToVersionMap' = Cached(change'[g].version)
      OBVIOUS
    <3>1. g # h /\ change'[g] = change[g]
      BY <2>7
    <3>2. state[g] = "opened" /\ guidToVersionMap = Cached(change[g].version)
      BY <3>1
    <3> QED BY <2>3, <3>1, <3>2
  <2> QED BY <2>5, <2>6, <2>7, <2>8
<1>7. ASSUME NEW h \in Handles, PerformPreflight(h) PROVE ChangeInv' /\ CacheIsCurrent'
  <2>1. PICK version \in Strings :
          change' = [change EXCEPT ![h] = [stage |-> "body", version |-> version]]
    BY <1>7 DEF PerformPreflight
  <2>2. \A g \in Handles : change[g].stage = "none"
    <3> SUFFICES ASSUME NEW g \in Handles PROVE change[g].stage = "none"
      OBVIOUS
    <3>1. ~Writing(g)
      BY <1>7 DEF PerformPreflight
    <3>2. change[g].stage # "committed"
      BY <1>7 DEF PerformPreflight
    <3>3. change[g].stage \in {"none", "body", "uncommitted", "committed"}
      OBVIOUS
    <3> QED BY <3>1, <3>2, <3>3 DEF Writing
  <2>3. Committing' <=> Committing
    BY <1>7, <2>1, <2>2 DEF PerformPreflight, Committing
  <2>4. CacheIsCurrent'
    BY <1>7, <2>3, <1>0 DEF PerformPreflight, CacheIsCurrent
  <2> QED BY <1>7, <2>1, <2>2, <2>4 DEF PerformPreflight
<1>8. ASSUME NEW h \in Handles, Rollback(h) PROVE ChangeInv' /\ CacheIsCurrent'
  BY <1>8 DEF Rollback, CacheIsCurrent, Committing, NoChange
<1>9. ASSUME NEW h \in Handles, PerformPostflight(h) PROVE ChangeInv' /\ CacheIsCurrent'
  <2>1. \A g \in Handles : change[g].stage # "none" => g = h
    BY <1>9 DEF PerformPostflight
  <2>2. change'[h].stage = "uncommitted" /\ change'[h].version = change[h].version
    BY <1>9 DEF PerformPostflight
  <2>3. \A g \in Handles : g # h => change'[g] = change[g]
    BY <1>9 DEF PerformPostflight
  <2>4. Committing'
    BY <2>2 DEF Committing
  <2> QED BY <1>9, <2>1, <2>2, <2>3, <2>4 DEF PerformPostflight, SetExpectedVersion, CacheIsCurrent
<1>10. ASSUME NEW h \in Handles, Commit(h) PROVE ChangeInv' /\ CacheIsCurrent'
  <2>1. files' = [files EXCEPT ![connection[h]] = change[h].version]
    BY <1>10 DEF Commit, WriteVersion
  <2>2. files'[current'] = change[h].version /\ guidToVersionMap' = Cached(change[h].version)
    BY <1>10, <2>1 DEF Commit
  <2>3. CacheIsCurrent'
    BY <2>2 DEF CacheIsCurrent, Cached
  <2>4. \A g \in Handles : change'[g].stage = "none"
    BY <1>10 DEF Commit, NoChange
  <2> QED BY <1>10, <2>3, <2>4 DEF Commit
<1>11. ASSUME NEW h \in Handles, CommitSync(h) PROVE ChangeInv' /\ CacheIsCurrent'
  <2>1. CASE change' = [change EXCEPT ![h].stage = "committed"] /\ files' = [files EXCEPT ![connection[h]] = change[h].version]
    <3>1. Committing'
      BY <2>1 DEF Committing
    <3>2. \A g \in Handles : change[g].stage # "none" => g = h
      BY <1>11 DEF CommitSync
    <3> QED BY <1>11, <2>1, <3>1, <3>2 DEF CommitSync, CacheIsCurrent
  <2>2. CASE change' = [change EXCEPT ![h] = NoChange] /\ files' = files
    BY <1>11, <2>2 DEF CommitSync, CacheIsCurrent, Committing, NoChange
  <2> QED BY <1>11, <2>1, <2>2 DEF CommitSync, WriteVersion
<1>12. ASSUME NEW h \in Handles, SetExpectedVersionSync(h) PROVE ChangeInv' /\ CacheIsCurrent'
  <2>1. files'[current'] = change[h].version /\ guidToVersionMap' = Cached(change[h].version)
    BY <1>12 DEF SetExpectedVersionSync, SetExpectedVersion
  <2>2. CacheIsCurrent'
    BY <2>1 DEF CacheIsCurrent, Cached
  <2>3. \A g \in Handles : change'[g].stage = "none"
    BY <1>12 DEF SetExpectedVersionSync, NoChange
  <2> QED BY <1>12, <2>2, <2>3 DEF SetExpectedVersionSync
<1>13. CASE UNCHANGED vars
  BY <1>13 DEF vars, CacheIsCurrent, Committing
<1>14. ASSUME NEW h \in Handles, Verify(h) PROVE ChangeInv' /\ CacheIsCurrent'
  BY <1>14 DEF Verify, CacheIsCurrent, Committing
<1> QED BY <1>1, <1>2, <1>3, <1>4, <1>5, <1>6, <1>7, <1>8, <1>9, <1>10, <1>11, <1>12, <1>13, <1>14
        DEF Next, Step

\* One step keeps what the opens have found, or overtakes them.
LEMMA FoundInvStep ==
  ASSUME TypeOK, MapsInv, CacheInv, FoundInv, [Next]_vars
  PROVE  FoundInv'
<1> SUFFICES ASSUME ~disturbed', NEW h \in Handles, state'[h] = "verifying", ~found'[h].overtaken
             PROVE  files'[0] = found'[h].version \/ (found'[h].version = "empty" /\ files'[0] = "null")
  BY DEF FoundInv
<1>0. ~disturbed
  <2>1. ASSUME NEW g \in Handles, Step(g) PROVE disturbed => disturbed'
    BY <2>1 DEF Step, Construct, OpenFromCache, OpenFromFile, OpenFails, Verify, CloseDatabase, PerformPreflight,
                Rollback, PerformPostflight, Commit, CommitSync, SetExpectedVersionSync, TypeOK
  <2> QED BY <2>1 DEF Next, DeleteDatabaseFile, vars
<1>c. current = 0 /\ CacheIsCurrent
  BY <1>0 DEF CacheInv, ChangeInv
<1>k. ASSUME state[h] = "verifying", found'[h] = found[h], files' = files
      PROVE  files'[0] = found'[h].version \/ (found'[h].version = "empty" /\ files'[0] = "null")
  BY <1>0, <1>k DEF FoundInv
<1> USE DEF TypeOK
<1>1. ASSUME NEW g \in Handles, OpenFromCache(g) \/ OpenFromFile(g), g # h
      PROVE  files'[0] = found'[h].version \/ (found'[h].version = "empty" /\ files'[0] = "null")
  <2>1. state[h] = "verifying" /\ found'[h] = found[h]
    BY <1>1 DEF OpenFromCache, OpenFromFile, Find
  <2>2. guidToVersionMap # "absent"
    BY <2>1 DEF MapsInv
  <2>3. files' = files
    BY <1>1, <2>2 DEF OpenFromCache, OpenFromFile
  <2> QED BY <1>k, <2>1, <2>3
<1>2. CASE OpenFromCache(h)
  <2>1. /\ ~Committing /\ files' = files /\ guidToVersionMap # "absent"
        /\ found'[h].version = IF guidToVersionMap = "null" THEN "empty" ELSE guidToVersionMap
    BY <1>2 DEF OpenFromCache, Find
  <2>2. (files[0] \in {"null", "empty"} /\ guidToVersionMap = "null") \/ files[0] = guidToVersionMap
    BY <1>0, <1>c, <2>1 DEF CacheIsCurrent
  <2> QED BY <2>1, <2>2
<1>3. CASE OpenFromFile(h)
  <2> DEFINE new     == files[current] = "noTable"
             stored  == IF new THEN "null" ELSE files[current]
             version == IF stored \in {"null", "empty"} /\ (~new \/ setVersion[h])
                        THEN expected[h] ELSE stored
  <2>1. files' = [files EXCEPT ![current] = version]
    BY <1>3 DEF OpenFromFile
  <2>2. found'[h].version = IF version = "null" THEN "empty" ELSE version
    BY <1>3 DEF OpenFromFile, Find
  <2> HIDE DEF version
  <2>3. files'[0] = version
    BY <1>c, <2>1
  <2> QED BY <2>2, <2>3
<1>4. ASSUME NEW g \in Handles, OpenFails(g)
      PROVE  files'[0] = found'[h].version \/ (found'[h].version = "empty" /\ files'[0] = "null")
  <2>1. state[h] = "verifying" /\ found' = found
    BY <1>4 DEF OpenFails
  <2>2. guidToVersionMap # "absent"
    BY <2>1 DEF MapsInv
  <2> QED BY <1>4, <1>k, <2>1, <2>2 DEF OpenFails
<1>5. ASSUME NEW g \in Handles, Verify(g)
      PROVE  files'[0] = found'[h].version \/ (found'[h].version = "empty" /\ files'[0] = "null")
  <2>1. g # h
    BY <1>5 DEF Verify
  <2> QED BY <1>5, <1>k, <2>1 DEF Verify
<1>6. ASSUME NEW g \in Handles, Commit(g) \/ CommitSync(g)
      PROVE  files'[0] = found'[h].version \/ (found'[h].version = "empty" /\ files'[0] = "null")
  <2>1. state[h] = "verifying"
    BY <1>6 DEF Commit, CommitSync
  <2>2. ~WriteVersion(g)
    BY <2>1, WriteVersionFound
  <2>3. UNCHANGED <<files, found>>
    BY <1>6, <2>2 DEF Commit, CommitSync
  <2> QED BY <1>k, <2>1, <2>3
<1>7. ASSUME NEW g \in Handles,
             \/ Construct(g) \/ CloseDatabase(g) \/ PerformPreflight(g) \/ Rollback(g) \/ PerformPostflight(g)
             \/ SetExpectedVersionSync(g)
      PROVE  files'[0] = found'[h].version \/ (found'[h].version = "empty" /\ files'[0] = "null")
  <2>1. files' = files /\ found' = found
    BY <1>7 DEF Construct, CloseDatabase, PerformPreflight, Rollback, PerformPostflight, SetExpectedVersionSync
  <2>2. state[h] = "verifying"
    BY <1>7 DEF Construct, CloseDatabase, PerformPreflight, Rollback, PerformPostflight, SetExpectedVersionSync
  <2> QED BY <1>k, <2>1, <2>2
<1>8. CASE DeleteDatabaseFile \/ UNCHANGED vars
  BY <1>8, <1>k DEF DeleteDatabaseFile, vars
<1> QED BY <1>1, <1>2, <1>3, <1>4, <1>5, <1>6, <1>7, <1>8 DEF Next, Step

\* The invariant that keeps the cache current holds in every reachable state.
THEOREM CacheInvariance == Spec => []CacheInv
<1>1. Init => CacheInv
  BY DEF Init, CacheInv, ChangeInv, CacheIsCurrent, NoChange
<1>2. TypeOK /\ MapsInv /\ CacheInv /\ [Next]_vars => CacheInv'
  BY CacheInvStep
<1> QED BY <1>1, <1>2, TypeCorrectness, MapsInvariance, PTL DEF Spec

\* Until a COMMIT fails after its postflight, the file is deleted or a changeVersion
\* overlaps the end of a synchronous one, the version cached by setExpectedVersion
\* and performOpenAndVerify is the file's whenever no changeVersion is committing.
THEOREM CacheIsCurrentHolds == Spec => []CacheIsCurrent
<1>1. CacheInv => CacheIsCurrent
  BY DEF CacheInv, CacheIsCurrent
<1> QED BY <1>1, CacheInvariance, PTL

\* What the opens have found is the file's version in every reachable state.
THEOREM FoundInvariance == Spec => []FoundInv
<1>1. Init => FoundInv
  BY DEF Init, FoundInv
<1>2. TypeOK /\ MapsInv /\ CacheInv /\ FoundInv /\ [Next]_vars => FoundInv'
  BY FoundInvStep
<1> QED BY <1>1, <1>2, TypeCorrectness, MapsInvariance, CacheInvariance, PTL DEF Spec

\* Until then performOpenAndVerify opens a handle that expects a version only if
\* the file has it, or a changeVersion has overtaken it since it left guidMutex.
THEOREM OpenVerifiesVersionHolds == Spec => OpenVerifiesVersion
<1>1. TypeOK /\ CacheInv /\ FoundInv /\ [Next]_vars =>
        [\A h \in Handles :
           state[h] = "verifying" /\ state'[h] = "opened" /\ expected'[h] # "empty" =>
             files'[current] = expected'[h] \/ found[h].overtaken \/ disturbed]_vars
  <2> SUFFICES ASSUME TypeOK, CacheInv, FoundInv, Next, NEW h \in Handles,
                      state[h] = "verifying", state'[h] = "opened", expected'[h] # "empty",
                      ~found[h].overtaken, ~disturbed
               PROVE  files'[current] = expected'[h]
    OBVIOUS
  <2>1. Verify(h)
    <3>1. ~DeleteDatabaseFile
      BY DEF DeleteDatabaseFile
    <3>2. PICK g \in Handles : Step(g)
      BY <3>1 DEF Next
    <3>3. g = h
      BY <3>2, StepOfOneHandle
    <3> QED BY <3>2, <3>3, StepOfOneHandle
  <2>2. expected'[h] = expected[h] /\ expected[h] = found[h].version /\ files' = files
    BY <2>1 DEF Verify, TypeOK
  <2>3. current = 0 /\ files[0] = found[h].version
    BY <2>2 DEF FoundInv, CacheInv, ChangeInv
  <2> QED BY <2>2, <2>3
<1> QED BY <1>1, TypeCorrectness, CacheInvariance, FoundInvariance, PTL DEF Spec, OpenVerifiesVersion
=============================================================================
