---------------------------- MODULE MCTaskQueue ----------------------------
(* The queue with two synchronous tasks, a plain one and one for a nested run. *)
EXTENDS DatabaseTaskSynchronizer

CONSTANTS open, close, plain, load

MCMessages == {open, close, plain, load}
MCSynchronous == {open, close}
MCModes == {"load"}
MCModeOf(m) == IF m = load THEN "load" ELSE "default"
=============================================================================
