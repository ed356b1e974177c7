------------------------ MODULE MCTaskOrchestrator ------------------------
(* TaskOrchestrator on small instances: see the configurations. *)
EXTENDS TaskOrchestrator

(* Bound: one task that meets every trouble, or several that meet none but failures of their *)
(* work.  Executions of a task overlap without an operator only when another one's end       *)
(* starts the next; what operators, repairs, failing saves and restarts do is seen with one.  *)
OneTaskOrFailuresOnly ==
  \/ used <= 1
  \/ requests = 0 /\ faults = 0 /\ crashes = 0 /\ \A id \in TaskIds : tasks[id].repairs = 0
==============================================================================
