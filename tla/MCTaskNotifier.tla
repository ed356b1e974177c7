--------------------------- MODULE MCTaskNotifier ---------------------------
(* TaskNotifier on small instances: see MCNotifier.cfg and MCFinalIsTold.cfg. *)
EXTENDS TaskNotifier

CONSTANTS t1, t2
==============================================================================
