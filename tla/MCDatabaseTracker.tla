------------------------- MODULE MCDatabaseTracker -------------------------
(* Instance of DatabaseTracker: two databases of one origin, opened by one  *)
(* Database and one DatabaseSync at a time.                                 *)
EXTENDS DatabaseTracker, TLC

CONSTANTS h1, s1, a, b

\* The databases are alike.
Symmetry == Permutations(Names)
=============================================================================
