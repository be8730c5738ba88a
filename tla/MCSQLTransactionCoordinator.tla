--------------------- MODULE MCSQLTransactionCoordinator ---------------------
(***************************************************************************)
(* Two readers and two writers compete for database "a", so the queue can  *)
(* hold every order of the two kinds behind either of them; a reader and a *)
(* writer use "b", so that one database must not disturb the other.        *)
(***************************************************************************)
EXTENDS SQLTransactionCoordinator

CONSTANTS ra1, ra2, wa1, wa2, rb, wb

MCTransactions == {ra1, ra2, wa1, wa2, rb, wb}
MCReadOnly == {ra1, ra2, rb}
MCDatabaseName(t) == IF t \in {rb, wb} THEN "b" ELSE "a"
=============================================================================
