------------------------- MODULE MCDedicatedWorker -------------------------
(* Instance of DedicatedWorker: see MCDedicatedWorker.cfg for its bounds.   *)
EXTENDS DedicatedWorker
=============================================================================
