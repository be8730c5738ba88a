------------------------- MODULE MCDatabaseVersion -------------------------
(* Instances of DatabaseVersion: handles h1, h2 and h3 of different contexts. *)
EXTENDS DatabaseVersion, TLC

CONSTANTS h1, h2, h3, v1, v2

MCHandles == {h1, h2, h3}
MCVersions == {v1, v2}
BothSync == {h1, h2}

\* The sync handles are alike, and the versions are only compared.
SyncSymmetry == Permutations(BothSync) \cup Permutations(MCVersions)
=============================================================================
