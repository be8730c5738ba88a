------------------------- MODULE MCStorageAreaSync -------------------------
(* Two keys, of which one sync moves one at a time. *)
EXTENDS StorageAreaSync, TLC

CONSTANTS k1, k2, v

MCKeys == {k1, k2}
MCValues == {v}
=============================================================================
