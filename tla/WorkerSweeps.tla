---------------------------- MODULE WorkerSweeps ----------------------------
(***************************************************************************)
(* What is left of executions and who removes it: the worktrees and tmux   *)
(* sessions of workers (src/orchestration/worktree-manager.ts and          *)
(* worker-launcher.ts), and the sweeps of src/orchestration/               *)
(* task-orchestrator.ts that remove those no task needs.                   *)
(*                                                                         *)
(* A sweep looks at the tasks, then asks the disk or tmux what there is,   *)
(* then removes what it found and no task claimed when it looked.  Tasks   *)
(* go on meanwhile.  The name of a worktree and of a session is that of    *)
(* its task, over all its executions; WORKER_RUNTIME is tmux.              *)
(***************************************************************************)
EXTENDS Naturals

CONSTANTS
  Tasks,
  Sweeps,      \* sweeps under way at a time: the maintenance, and calls of cleanupOrphanedWorkers
  Maintenance, \* the one of Sweeps that is the maintenance
  Retains      \* FAILED_WORKTREE_RETENTION_HOURS > 0

VARIABLES
  status,      \* TaskRecord.status; "done" also stands for cancelled
  path,        \* tasks with a worktreePath
  step,        \* the await of the execution of each task
  dirs,        \* directory of each task: absent, "fresh", or "stale" by its time of change
  live,        \* tmux sessions, by task
  sweeps,      \* each sweep: where it waits, what it spares, what it found
  stopping,    \* tasks whose session an operator is stopping
  late,        \* history: tasks whose execution began or was launched during a sweep
  requested    \* history: tasks whose session an operator has stopped

worker == <<status, path, step, dirs, live>>
history == <<late, requested>>
vars == <<worker, sweeps, stopping, history>>

Open == {"queued", "running"}
Kept == {"failed", "blocked"}
Statuses == Open \cup Kept \cup {"done"}
NoSweep == [at |-> "idle", spared |-> {}, found |-> {}]

TypeOK ==
  /\ status \in [Tasks -> Statuses]
  /\ path \in SUBSET Tasks /\ live \in SUBSET Tasks
  /\ step \in [Tasks -> {"none", "launching", "launched", "working", "worked", "ending"}]
  /\ dirs \in [Tasks -> {"absent", "fresh", "stale"}]
  /\ sweeps \in [Sweeps -> [at : {"idle", "expiring", "listing", "removing", "asking", "killing"},
                            spared : SUBSET Tasks, found : SUBSET Tasks]]
  /\ stopping \in SUBSET Tasks /\ late \in SUBSET Tasks /\ requested \in SUBSET Tasks

Init ==
  /\ status = [t \in Tasks |-> "queued"]
  /\ path = {} /\ live = {}
  /\ step = [t \in Tasks |-> "none"]
  /\ dirs = [t \in Tasks |-> "absent"]
  /\ sweeps = [s \in Sweeps |-> NoSweep]
  /\ stopping = {} /\ late = {} /\ requested = {}

Busy == \E s \in Sweeps : sweeps[s].at # "idle"

------------------------------------------------------------------------------
(* An execution.  The task is running; then its directory is made anew, and the task told. *)
Starts(t) ==
  /\ status[t] = "queued" /\ step[t] = "none"
  /\ status' = [status EXCEPT ![t] = "running"]
  /\ step' = [step EXCEPT ![t] = "launching"]
  /\ late' = IF Busy THEN late \cup {t} ELSE late \ {t}
  /\ requested' = requested \ {t}
  /\ UNCHANGED <<path, dirs, live, sweeps, stopping>>

Launched(t) ==
  /\ step[t] = "launching"
  /\ step' = [step EXCEPT ![t] = "launched"]
  /\ dirs' = [dirs EXCEPT ![t] = "fresh"]
  /\ path' = path \cup {t}
  /\ late' = IF Busy THEN late \cup {t} ELSE late
  /\ UNCHANGED <<status, live, sweeps, stopping, requested>>

(* launch fails, perhaps after it removed the directory of the last execution. *)
LaunchFails(t, verdict) ==
  /\ step[t] = "launching" /\ verdict \in {"queued", "failed"}
  /\ status' = [status EXCEPT ![t] = verdict]
  /\ step' = [step EXCEPT ![t] = "ending"]
  /\ dirs' \in {dirs, [dirs EXCEPT ![t] = "absent"]}
  /\ UNCHANGED <<path, live, sweeps, stopping, history>>

(* startTmuxSession: a session of that name is killed, then the worker's is made. *)
WorkerStarts(t) ==
  /\ step[t] = "launched"
  /\ step' = [step EXCEPT ![t] = "working"]
  /\ live' = live \cup {t}
  /\ UNCHANGED <<status, path, dirs, sweeps, stopping, history>>

(* The worker's session is gone, or its time is over. *)
WorkerEnds(t) ==
  /\ step[t] = "working"
  /\ step' = [step EXCEPT ![t] = "worked"]
  /\ live' \in {live, live \ {t}}
  /\ UNCHANGED <<status, path, dirs, sweeps, stopping, history>>

(* The verdict; a failure before the worker's turn is one too. *)
Settles(t, verdict) ==
  /\ step[t] \in {"launched", "worked"} /\ verdict # "running"
  /\ status' = [status EXCEPT ![t] = verdict]
  /\ step' = [step EXCEPT ![t] = "ending"]
  /\ UNCHANGED <<path, dirs, live, sweeps, stopping, history>>

(* The finally block: the session is killed; shouldCleanup decides on the worktree, and    *)
(* TASK_AUTOCLEANUP may keep it.  (That a new execution may have begun by then is          *)
(* TaskOrchestrator's WorktreeIsolation.)                                                  *)
Finishes(t) ==
  /\ step[t] = "ending"
  /\ step' = [step EXCEPT ![t] = "none"]
  /\ live' = live \ {t}
  /\ \/ ~(Retains /\ status[t] \in Kept) /\ dirs' = [dirs EXCEPT ![t] = "absent"]
     \/ UNCHANGED dirs
  /\ UNCHANGED <<status, path, sweeps, stopping, history>>

(* retryTask. *)
Retry(t) ==
  /\ status[t] \in Kept /\ step[t] = "none"
  /\ status' = [status EXCEPT ![t] = "queued"]
  /\ UNCHANGED <<path, step, dirs, live, sweeps, stopping, history>>

(* A directory that nobody touches for WORKTREE_STALE_HOURS. *)
Ages(t) ==
  /\ dirs[t] = "fresh"
  /\ dirs' = [dirs EXCEPT ![t] = "stale"]
  /\ UNCHANGED <<status, path, step, live, sweeps, stopping, history>>

(* The process ends; the next one queues what was running, and loses what was not saved    *)
(* since the launch.  Directories and sessions stay.                                       *)
Restart ==
  /\ status' = [t \in Tasks |-> IF status[t] = "running" THEN "queued" ELSE status[t]]
  /\ \E unsaved \in SUBSET {t \in Tasks : step[t] = "launched"} :
       path' = path \ unsaved
  /\ step' = [t \in Tasks |-> "none"]
  /\ sweeps' = [s \in Sweeps |-> NoSweep]
  /\ stopping' = {} /\ late' = {}
  /\ UNCHANGED <<dirs, live, requested>>

------------------------------------------------------------------------------
(* The sweeps. *)

Looks(s, at, spared) ==
  sweeps' = [sweeps EXCEPT ![s] = [at |-> at, spared |-> spared, found |-> {}]]

(* runMaintenance, of which one is under way at most: a failed task whose time of          *)
(* retention is over gives its worktree up, and is told when it is gone.                   *)
MaintenanceBegins ==
  /\ sweeps[Maintenance].at = "idle"
  /\ Looks(Maintenance, "expiring", {})
  /\ UNCHANGED <<worker, stopping, history>>

Expires(t) ==
  /\ sweeps[Maintenance].at = "expiring" /\ sweeps[Maintenance].found = {}
  /\ Retains /\ status[t] \in Kept /\ t \in path
  /\ sweeps' = [sweeps EXCEPT ![Maintenance].found = {t}]
  /\ UNCHANGED <<worker, stopping, history>>

Expired(t) ==
  /\ sweeps[Maintenance].at = "expiring" /\ t \in sweeps[Maintenance].found
  /\ sweeps' = [sweeps EXCEPT ![Maintenance].found = {}]
  /\ path' = path \ {t}
  /\ dirs' \in {dirs, [dirs EXCEPT ![t] = "absent"]}
  /\ UNCHANGED <<status, step, live, stopping, history>>

(* The worktrees that tasks need, then those that are on the disk and stale. *)
NeededUnlessRunning ==    \* Mutant: only tasks that are not at work keep theirs
  {t \in path : status[t] = "queued" \/ (Retains /\ status[t] \in Kept)}
Needed == {t \in path : status[t] \in Open \/ (Retains /\ status[t] \in Kept)}

LooksAtWorktrees ==
  /\ sweeps[Maintenance].at = "expiring" /\ sweeps[Maintenance].found = {}
  /\ Looks(Maintenance, "listing", Needed)
  /\ UNCHANGED <<worker, stopping, history>>

Lists ==
  /\ sweeps[Maintenance].at = "listing"
  /\ sweeps' = [sweeps EXCEPT
       ![Maintenance].at = "removing",
       ![Maintenance].found = {t \in Tasks \ sweeps[Maintenance].spared : dirs[t] = "stale"}]
  /\ UNCHANGED <<worker, stopping, history>>

Removes(t) ==
  /\ sweeps[Maintenance].at = "removing" /\ t \in sweeps[Maintenance].found
  /\ sweeps' = [sweeps EXCEPT ![Maintenance].found = @ \ {t}]
  /\ dirs' \in {dirs, [dirs EXCEPT ![t] = "absent"]}
  /\ UNCHANGED <<status, path, step, live, stopping, history>>

(* The sessions of running tasks, then those that tmux knows: after the worktrees, or in   *)
(* cleanupOrphanedWorkers (getWorkerRuntimeSnapshot).                                      *)
Working == {t \in Tasks : status[t] = "running"}

LooksAtSessions(s) ==
  /\ IF s = Maintenance THEN sweeps[s].at = "removing" /\ sweeps[s].found = {}
     ELSE sweeps[s].at = "idle"
  /\ Looks(s, "asking", Working)
  /\ UNCHANGED <<worker, stopping, history>>

Asks(s) ==
  /\ sweeps[s].at = "asking"
  /\ sweeps' = [sweeps EXCEPT ![s].at = "killing", ![s].found = live \ sweeps[s].spared]
  /\ UNCHANGED <<worker, stopping, history>>

Kills(s, t) ==
  /\ sweeps[s].at = "killing" /\ t \in sweeps[s].found
  /\ sweeps' = [sweeps EXCEPT ![s].found = @ \ {t}]
  /\ live' = live \ {t}
  /\ UNCHANGED <<status, path, step, dirs, stopping, history>>

SweepEnds(s) ==
  /\ sweeps[s].at = "killing" /\ sweeps[s].found = {}
  /\ sweeps' = [sweeps EXCEPT ![s] = NoSweep]
  /\ UNCHANGED <<worker, stopping, history>>

(* stopWorkerSession: the task is asked to cancel, then the session of that name is killed. *)
StopWorker(t) ==
  /\ t \notin stopping
  /\ stopping' = stopping \cup {t}
  /\ UNCHANGED <<worker, sweeps, history>>

WorkerStopped(t) ==
  /\ t \in stopping
  /\ stopping' = stopping \ {t}
  /\ live' = live \ {t} /\ requested' = requested \cup {t}
  /\ UNCHANGED <<status, path, step, dirs, sweeps, late>>

Next ==
  \/ \E t \in Tasks :
       \/ Starts(t) \/ Launched(t) \/ WorkerStarts(t) \/ WorkerEnds(t) \/ Finishes(t)
       \/ \E verdict \in Statuses : LaunchFails(t, verdict) \/ Settles(t, verdict)
       \/ Retry(t) \/ Ages(t) \/ StopWorker(t) \/ WorkerStopped(t)
       \/ Expires(t) \/ Expired(t) \/ Removes(t)
       \/ \E s \in Sweeps : Kills(s, t)
  \/ MaintenanceBegins \/ LooksAtWorktrees \/ Lists
  \/ \E s \in Sweeps : LooksAtSessions(s) \/ Asks(s) \/ SweepEnds(s)
  \/ Restart

Spec == Init /\ [][Next]_vars
------------------------------------------------------------------------------
(* No sweep takes the session or the directory from a worker, unless its execution began   *)
(* or was launched while a sweep was under way, or an operator asked for it                *)
(* (runMaintenance, cleanupOrphanedWorkers, cleanupStale).                                 *)
SweepsSpareWorkers ==
  \A t \in Tasks : step[t] = "working" /\ t \notin late =>
    dirs[t] # "absent" /\ (t \in live \/ t \in requested)
=============================================================================
