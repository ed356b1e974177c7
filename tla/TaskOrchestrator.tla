-------------------------- MODULE TaskOrchestrator --------------------------
(***************************************************************************)
(* The task orchestrator (src/orchestration/task-orchestrator.ts): a queue *)
(* of task ids, a pump that starts executions of runTask up to a limit,    *)
(* the executions themselves between one await and the next, operators     *)
(* who retry and cancel, fan-out parents whose state follows their         *)
(* children, the state file, the worktrees, and the process that crashes   *)
(* and starts again.                                                       *)
(*                                                                         *)
(* Several executions of one task can be alive at once: a failed one puts  *)
(* its task back on the queue before it has cleaned up, so an execution is *)
(* a pair of a task and a copy number.  A save takes effect in one step,   *)
(* when its caller resumes; what overlapping saves do to the file is the   *)
(* subject of another module.  There is no clock.                          *)
(***************************************************************************)
EXTENDS Naturals, Sequences, FiniteSets

CONSTANTS
  MaxTasks,        \* bound: tasks ever created
  MaxCopies,       \* bound: executions of one task alive at once
  MaxConcurrency,  \* TASK_MAX_CONCURRENCY
  MaxRetries,      \* WORKER_MAX_RETRIES
  MaxRepairs,      \* MAX_INFRA_REPAIR_ATTEMPTS
  Fanouts,         \* bound: the numbers of prompts a submission may fan out to, 0 for none
  MaxRequests,     \* bound: operator's retries and cancels
  MaxFaults,       \* bound: saves that fail
  MaxCrashes       \* bound: ends of the process that no execution caused

ASSUME SizeAssumption == MaxTasks \in Nat /\ MaxCopies \in Nat \ {0} /\ MaxConcurrency \in Nat \ {0}
ASSUME BudgetAssumption == MaxRetries \in Nat /\ MaxRepairs \in Nat
ASSUME FanoutAssumption == Fanouts \subseteq Nat
ASSUME BoundAssumption == MaxRequests \in Nat /\ MaxFaults \in Nat /\ MaxCrashes \in Nat

VARIABLES
  process,    \* "down", "up", "stopping"
  tasks,      \* this.tasks by id; status "absent" where there is none
  queue,      \* this.queue
  running,    \* this.running
  runs,       \* the executions of runTask, and where each waits
  worktrees,  \* tasks whose worktree directory exists
  sweep,      \* the task whose expired worktree is being removed, 0 if none
  calls,      \* operations of the API waiting for their save
  flushing,   \* a save that nobody waits for is under way
  disk,       \* the state file
  used,       \* ids 1..used have been given out
  starts,     \* history: executions started per task
  requests, faults, crashes

vars == <<process, tasks, queue, running, runs, worktrees, sweep, calls, flushing, disk,
          used, starts, requests, faults, crashes>>

TaskIds == 1..MaxTasks
Copies == 1..MaxCopies
RunIds == TaskIds \X Copies

Statuses == {"queued", "running", "blocked", "done", "failed", "cancelled", "absent"}
Tasks == [status : Statuses, retries : Nat, repairs : 0..MaxRepairs,
          cancel : BOOLEAN, escalated : BOOLEAN, parent : TaskIds \cup {0}]
Stores == [TaskIds -> Tasks]

NewTask(status, parent) ==
  [status |-> status, retries |-> 0, repairs |-> 0, cancel |-> FALSE,
   escalated |-> FALSE, parent |-> parent]
EmptyStore == [id \in TaskIds |-> NewTask("absent", 0)]

(* Where an execution waits: for the first save, for the launcher, for the *)
(* worker's turn, for the pull request and its checks, for the memory      *)
(* note, for the save of its outcome; in the error path for a repair of    *)
(* the worktree or for one of the two saves; at its end for the worker's   *)
(* session to be killed and for its worktree to be removed.                *)
InTurn == {"starting", "launching", "working", "closing"}
Places == InTurn \cup {"recording", "settling", "repairing", "requeuing", "failing",
                      "cleaning", "removing"}
Runs == [at : Places \cup {"none"}, worktree : BOOLEAN, rejected : BOOLEAN]

NoRun == [at |-> "none", worktree |-> FALSE, rejected |-> FALSE]
Calls == [op : {"submit", "retry", "cancel"}, task : TaskIds]

TypeOK ==
  /\ process \in {"down", "up", "stopping"}
  /\ tasks \in Stores
  /\ queue \in Seq(TaskIds)
  /\ running \in SUBSET TaskIds
  /\ Cardinality(running) <= MaxConcurrency
  /\ runs \in [RunIds -> Runs]
  /\ worktrees \in SUBSET TaskIds
  /\ sweep \in TaskIds \cup {0}
  /\ calls \in SUBSET Calls
  /\ flushing \in BOOLEAN
  /\ disk \in Stores
  /\ used \in 0..MaxTasks
  /\ starts \in [TaskIds -> Nat]
  /\ requests \in Nat /\ faults \in Nat /\ crashes \in Nat

Init ==
  /\ process = "down"
  /\ tasks = EmptyStore
  /\ queue = <<>>
  /\ running = {}
  /\ runs = [r \in RunIds |-> NoRun]
  /\ worktrees = {}
  /\ sweep = 0
  /\ calls = {}
  /\ flushing = FALSE
  /\ disk = EmptyStore
  /\ used = 0
  /\ starts = [id \in TaskIds |-> 0]
  /\ requests = 0 /\ faults = 0 /\ crashes = 0

(* A save that succeeds writes the tasks as they are; one may fail. *)
Saved == disk' = tasks /\ UNCHANGED faults
SaveFault == faults < MaxFaults /\ faults' = faults + 1 /\ UNCHANGED disk

------------------------------------------------------------------------------
(* Transitions. *)

AllowedTransitions ==
  [queued    |-> {"running", "cancelled"},
   running   |-> {"queued", "done", "failed", "blocked", "cancelled"},
   blocked   |-> {"queued", "failed", "done"},
   done      |-> {"queued", "blocked", "failed"},
   failed    |-> {"queued", "blocked", "done"},
   cancelled |-> {"queued"},
   absent    |-> {}]

(* transitionTask does nothing for the same status and throws for an illegal one. *)
CanMove(from, to) == from = to \/ to \in AllowedTransitions[from]

ChildrenIn(store, p) == {id \in TaskIds : store[id].parent = p /\ store[id].status # "absent"}
Children(p) == ChildrenIn(tasks, p)

(* Mutant: one finished child is enough. *)
FanInStatusAny(p) ==
  IF \E c \in Children(p) : tasks[c].status = "failed" THEN "failed"
  ELSE IF \E c \in Children(p) : tasks[c].status = "done" THEN "done"
  ELSE "blocked"

FanInStatus(p) ==
  IF \E c \in Children(p) : tasks[c].status = "failed" THEN "failed"
  ELSE IF \A c \in Children(p) : tasks[c].status = "done" THEN "done"
  ELSE "blocked"

(* updateParentState: the parent follows its children, or the move is illegal and throws. *)
ParentRefuses(id) ==
  LET p == tasks[id].parent IN p # 0 /\ ~CanMove(tasks[p].status, FanInStatus(p))

ParentUpdated(id) ==
  LET p == tasks[id].parent IN
  IF p = 0 THEN tasks
  ELSE [tasks EXCEPT ![p].escalated = @ \/ FanInStatus(p) = "failed",
                     ![p].status = IF ParentRefuses(id) THEN @ ELSE FanInStatus(p)]

------------------------------------------------------------------------------
(* The pump. *)

(* Of the first n entries of q, those that are started: an entry whose task is *)
(* not queued is skipped, and so is a second entry of one that was just started. *)
StartedBy(ts, q, n) == {q[i] : i \in {j \in 1..n : ts[q[j]].status = "queued"}}

(* Mutant: one slot too many. *)
PumpStopsLate(ts, q, busy, n) ==
  n = Len(q) \/ Cardinality(busy \cup StartedBy(ts, q, n)) > MaxConcurrency

PumpStops(ts, q, busy, n) ==
  n = Len(q) \/ Cardinality(busy \cup StartedBy(ts, q, n)) >= MaxConcurrency

FirstFree(rs, r) ==
  rs[r].at = "none" /\ \A c \in Copies : c < r[2] => rs[<<r[1], c>>].at # "none"

(* pump, with tasks ts, queue q, running set busy and executions rs.  The *)
(* new executions have run up to their first await.                        *)
Pump(ts, q, busy, rs) ==
  IF process = "stopping"
  THEN /\ tasks' = ts /\ queue' = q /\ running' = busy /\ runs' = rs
       /\ UNCHANGED starts
  ELSE \E n \in 0..Len(q) :
         LET started == StartedBy(ts, q, n)
             New(r) == r[1] \in started /\ FirstFree(rs, r)
         IN /\ PumpStops(ts, q, busy, n)
            /\ \A m \in 0..Len(q) : PumpStops(ts, q, busy, m) => n <= m
            /\ \A id \in started : \E c \in Copies : FirstFree(rs, <<id, c>>)
            /\ tasks' = [id \in TaskIds |-> IF id \in started
                                            THEN [ts[id] EXCEPT !.status = "running"]
                                            ELSE ts[id]]
            /\ queue' = SubSeq(q, n + 1, Len(q))
            /\ running' = busy \cup started
            /\ runs' = [r \in RunIds |-> IF New(r) THEN [NoRun EXCEPT !.at = "starting"] ELSE rs[r]]
            /\ starts' = [id \in TaskIds |-> IF id \in started THEN starts[id] + 1 ELSE starts[id]]

------------------------------------------------------------------------------
(* The process. *)

(* Mutant: load leaves a running task as it is. *)
RecoveredUnchanged(store) == store

(* load with TASK_RECOVER_ON_STARTUP: nobody works on a task found running. *)
Recovered(store) ==
  [id \in TaskIds |-> IF store[id].status = "running"
                      THEN [store[id] EXCEPT !.status = "queued"] ELSE store[id]]

(* The file lists the newest task first, and so does the queue made from it. *)
LoadedQueues(store) ==
  {q \in UNION {[1..n -> TaskIds] : n \in 0..MaxTasks} :
     /\ \A i, j \in DOMAIN q : i < j => q[i] > q[j]
     /\ \A id \in TaskIds : store[id].status = "queued" <=> \E i \in DOMAIN q : q[i] = id}

Initialize ==
  /\ process = "down"
  /\ process' = "up"
  /\ \E q \in LoadedQueues(Recovered(disk)) : Pump(Recovered(disk), q, {}, runs)
  /\ UNCHANGED <<worktrees, sweep, calls, flushing, disk, used, requests, faults, crashes>>

Stop ==
  /\ process = "up"
  /\ crashes < MaxCrashes
  /\ process' = "stopping"
  /\ UNCHANGED <<tasks, queue, running, runs, worktrees, sweep, calls, flushing, disk,
                 used, starts, requests, faults, crashes>>

(* Memory goes; the file and the worktrees stay. *)
ProcessEnds ==
  /\ process' = "down"
  /\ tasks' = EmptyStore
  /\ queue' = <<>>
  /\ running' = {}
  /\ runs' = [r \in RunIds |-> NoRun]
  /\ sweep' = 0
  /\ calls' = {}
  /\ flushing' = FALSE
  /\ crashes' = crashes + 1
  /\ UNCHANGED <<used, starts, requests>>

Crash ==
  /\ process # "down"
  /\ crashes < MaxCrashes
  /\ ProcessEnds
  /\ UNCHANGED <<worktrees, disk, faults>>

------------------------------------------------------------------------------
(* The operations of the API: the change is made at once, then saved. *)

SubmitTask ==
  LET id == used + 1 IN
  /\ process # "down"
  /\ 0 \in Fanouts /\ id <= MaxTasks
  /\ used' = id
  /\ tasks' = [tasks EXCEPT ![id] = NewTask("queued", 0)]
  /\ queue' = Append(queue, id)
  /\ calls' = calls \cup {[op |-> "submit", task |-> id]}
  /\ UNCHANGED <<process, running, runs, worktrees, sweep, flushing, disk,
                 starts, requests, faults, crashes>>

(* submitFanout with n prompts: the parent waits as "blocked", the children are queued. *)
SubmitFanout(n) ==
  LET parent == used + 1 IN
  /\ process # "down"
  /\ n # 0 /\ parent + n <= MaxTasks
  /\ used' = parent + n
  /\ tasks' = [id \in TaskIds |->
                 IF id = parent THEN NewTask("blocked", 0)
                 ELSE IF id > parent /\ id <= parent + n THEN NewTask("queued", parent)
                 ELSE tasks[id]]
  /\ queue' = queue \o [i \in 1..n |-> parent + i]
  /\ calls' = calls \cup {[op |-> "submit", task |-> parent]}
  /\ UNCHANGED <<process, running, runs, worktrees, sweep, flushing, disk,
                 starts, requests, faults, crashes>>

(* What the operator may ask: one call of an operation per task at a time. *)
Requested(op, id) ==
  /\ process # "down"
  /\ requests < MaxRequests
  /\ requests' = requests + 1
  /\ [op |-> op, task |-> id] \notin calls
  /\ calls' = calls \cup {[op |-> op, task |-> id]}
  /\ UNCHANGED <<process, running, runs, worktrees, sweep, flushing, disk,
                 used, starts, faults, crashes>>

(* Mutant: a retried task is queued but not put on the queue. *)
RetryTaskUnqueued(id) ==
  /\ tasks[id].status \notin {"absent", "running"}
  /\ tasks' = [tasks EXCEPT ![id].status = "queued", ![id].cancel = FALSE,
                            ![id].escalated = FALSE]
  /\ UNCHANGED queue
  /\ Requested("retry", id)

RetryTask(id) ==
  /\ tasks[id].status \notin {"absent", "running"}
  /\ tasks' = [tasks EXCEPT ![id].status = "queued", ![id].cancel = FALSE,
                            ![id].escalated = FALSE]
  /\ queue' = Append(queue, id)
  /\ Requested("retry", id)

(* removeFromQueue: the other entries stay, in their order. *)
RemoveFromQueue(id) ==
  LET others == {i \in DOMAIN queue : queue[i] # id} IN
  \E kept \in [1..Cardinality(others) -> others] :
    /\ \A i, j \in DOMAIN kept : i < j => kept[i] < kept[j]
    /\ \A k \in others : \E i \in DOMAIN kept : kept[i] = k
    /\ queue' = [i \in DOMAIN kept |-> queue[kept[i]]]

CancelQueued(id) ==
  /\ tasks[id].status = "queued"
  /\ tasks' = [tasks EXCEPT ![id].status = "cancelled"]
  /\ RemoveFromQueue(id)
  /\ Requested("cancel", id)

CancelRunning(id) ==
  /\ tasks[id].status = "running"
  /\ tasks' = [tasks EXCEPT ![id].cancel = TRUE]
  /\ UNCHANGED queue
  /\ Requested("cancel", id)

CallReturns(call) ==
  /\ call \in calls
  /\ calls' = calls \ {call}
  /\ Saved
  /\ IF call.op = "cancel" THEN UNCHANGED <<tasks, queue, running, runs, starts>>
     ELSE Pump(tasks, queue, running, runs)
  /\ UNCHANGED <<process, worktrees, sweep, flushing, used, requests, crashes>>

(* The caller gets the error; what it changed stays, and nothing is pumped. *)
CallFails(call) ==
  /\ call \in calls
  /\ calls' = calls \ {call}
  /\ SaveFault
  /\ UNCHANGED <<process, tasks, queue, running, runs, worktrees, sweep, flushing,
                 used, starts, requests, crashes>>

------------------------------------------------------------------------------
(* The executions.  r is an execution, Task(r) its task.                   *)

Task(r) == r[1]

Goes(r, place) == runs' = [runs EXCEPT ![r].at = place]

(* Mutants: the budget is spent one failure too early, or too late. *)
SpentEarly(failures) == failures >= MaxRetries
SpentLate(failures) == failures > MaxRetries + 1

Spent(failures) == failures > MaxRetries

(* Mutant: a failed execution goes on with the task it has put back on the queue. *)
CountFailureAndGoOn(r, ts) ==
  LET id == Task(r) IN
  /\ tasks' = [ts EXCEPT ![id].retries = @ + 1, ![id].status = "queued"]
  /\ queue' = Append(queue, id)
  /\ Goes(r, "launching")

(* The end of runTask's catch, with tasks ts: the task is queued again while its *)
(* budget lasts, else it fails, unless somebody queued or cancelled it meanwhile: *)
(* then the transition throws, out of runTask.                                    *)
CountFailure(r, ts) ==
  LET id == Task(r)
      failures == ts[id].retries + 1
      legal == CanMove(ts[id].status, "failed")
  IN \/ /\ ~Spent(failures)
        /\ tasks' = [ts EXCEPT ![id].retries = failures, ![id].status = "queued"]
        /\ queue' = Append(queue, id)
        /\ Goes(r, "failing")
     \/ /\ Spent(failures)
        /\ tasks' = [ts EXCEPT ![id].retries = failures, ![id].escalated = TRUE,
                               ![id].status = IF legal THEN "failed" ELSE @]
        /\ UNCHANGED queue
        /\ runs' = [runs EXCEPT ![r].at = IF legal THEN "failing" ELSE "cleaning",
                                ![r].rejected = ~legal]

(* runTask's catch, with tasks ts: a repair is tried first when the error looks like it. *)
Catch(r, ts) ==
  LET id == Task(r) IN
  \/ /\ runs[r].worktree /\ ts[id].repairs < MaxRepairs /\ ~ts[id].cancel
     /\ tasks' = [ts EXCEPT ![id].repairs = @ + 1]
     /\ UNCHANGED queue
     /\ Goes(r, "repairing")
  \/ CountFailure(r, ts)

(* A transition of the task inside runTask's try: if illegal it throws, into the catch. *)
Outcome(r, ts, status, place) ==
  LET id == Task(r) IN
  IF CanMove(ts[id].status, status)
  THEN /\ tasks' = [ts EXCEPT ![id].status = status]
       /\ UNCHANGED queue
       /\ Goes(r, place)
  ELSE Catch(r, ts)

runFrame == <<process, running, sweep, calls, used, starts, requests, crashes>>
fileFrame == <<flushing, disk, faults>>

Begin(r) ==
  /\ runs[r].at = "starting"
  /\ Saved
  /\ Goes(r, "launching")
  /\ UNCHANGED <<runFrame, tasks, queue, worktrees, flushing>>

BeginFails(r) ==
  /\ runs[r].at = "starting"
  /\ SaveFault
  /\ Catch(r, tasks)
  /\ UNCHANGED <<runFrame, worktrees, flushing>>

(* The worktree is there, and saved. *)
LaunchWorker(r) ==
  /\ runs[r].at = "launching"
  /\ worktrees' = worktrees \cup {Task(r)}
  /\ runs' = [runs EXCEPT ![r].at = "working", ![r].worktree = TRUE]
  /\ Saved
  /\ UNCHANGED <<runFrame, tasks, queue, flushing>>

(* The old directory is removed before the new worktree is added. *)
LaunchFails(r) ==
  /\ runs[r].at = "launching"
  /\ worktrees' \in {worktrees, worktrees \ {Task(r)}}
  /\ Catch(r, tasks)
  /\ UNCHANGED <<runFrame, fileFrame>>

(* The turn is over: this is the only look at the cancel flag. *)
TurnEnds(r) ==
  /\ runs[r].at = "working"
  /\ IF tasks[Task(r)].cancel THEN Outcome(r, tasks, "cancelled", "settling")
     ELSE Goes(r, "closing") /\ UNCHANGED <<tasks, queue>>
  /\ UNCHANGED <<runFrame, worktrees, fileFrame>>

(* The worker is blocked, or its pull request, checks, reviews or artifacts are wanting. *)
Block(r, escalate) ==
  /\ runs[r].at = "closing"
  /\ Outcome(r, [tasks EXCEPT ![Task(r)].escalated = @ \/ escalate], "blocked", "settling")
  /\ UNCHANGED <<runFrame, worktrees, fileFrame>>

Complete(r) ==
  /\ runs[r].at = "closing"
  /\ Outcome(r, tasks, "done", "recording")
  /\ UNCHANGED <<runFrame, worktrees, fileFrame>>

(* memory.recordTaskCompletion, after the task is done. *)
Record(r) ==
  /\ runs[r].at = "recording"
  /\ Goes(r, "settling")
  /\ UNCHANGED <<runFrame, tasks, queue, worktrees, fileFrame>>

(* The save of the launch, the worker, git, GitHub or the memory fails. *)
WorkFails(r) ==
  /\ runs[r].at \in {"working", "closing", "recording"}
  /\ Catch(r, tasks)
  /\ UNCHANGED <<runFrame, worktrees, fileFrame>>

(* updateParentState, after a save: its own save is not waited for. *)
FollowedByParent(r) ==
  /\ tasks' = ParentUpdated(Task(r))
  /\ flushing' = (flushing \/ tasks[Task(r)].parent # 0)
  /\ UNCHANGED queue
  /\ Goes(r, "cleaning")

Settle(r) ==
  /\ runs[r].at = "settling"
  /\ Saved
  /\ IF ParentRefuses(Task(r))
     THEN Catch(r, ParentUpdated(Task(r))) /\ UNCHANGED flushing
     ELSE FollowedByParent(r)
  /\ UNCHANGED <<runFrame, worktrees>>

SettleFails(r) ==
  /\ runs[r].at = "settling"
  /\ SaveFault
  /\ Catch(r, tasks)
  /\ UNCHANGED <<runFrame, worktrees, flushing>>

Repaired(r) ==
  /\ runs[r].at = "repairing"
  /\ tasks' = [tasks EXCEPT ![Task(r)].status = "queued"]
  /\ queue' = Append(queue, Task(r))
  /\ Goes(r, "requeuing")
  /\ UNCHANGED <<runFrame, worktrees, fileFrame>>

NotRepaired(r) ==
  /\ runs[r].at = "repairing"
  /\ CountFailure(r, tasks)
  /\ UNCHANGED <<runFrame, worktrees, fileFrame>>

Requeue(r) ==
  /\ runs[r].at = "requeuing"
  /\ Saved
  /\ IF ParentRefuses(Task(r))
     THEN CountFailure(r, ParentUpdated(Task(r))) /\ UNCHANGED flushing
     ELSE FollowedByParent(r)
  /\ UNCHANGED <<runFrame, worktrees>>

(* A repaired task is on the queue already when its failure is counted after all. *)
RequeueFails(r) ==
  /\ runs[r].at = "requeuing"
  /\ SaveFault
  /\ CountFailure(r, tasks)
  /\ UNCHANGED <<runFrame, worktrees, flushing>>

Rejects(r) == runs' = [runs EXCEPT ![r].at = "cleaning", ![r].rejected = TRUE]

Fail(r) ==
  /\ runs[r].at = "failing"
  /\ Saved
  /\ IF ParentRefuses(Task(r))
     THEN tasks' = ParentUpdated(Task(r)) /\ Rejects(r) /\ UNCHANGED <<queue, flushing>>
     ELSE FollowedByParent(r)
  /\ UNCHANGED <<runFrame, worktrees>>

FailFails(r) ==
  /\ runs[r].at = "failing"
  /\ SaveFault
  /\ Rejects(r)
  /\ UNCHANGED <<runFrame, tasks, queue, worktrees, flushing>>

(* shouldCleanup: the worktree of a failed or blocked task is retained. *)
Retained(status) == status \in {"failed", "blocked"}

CleanUp(r) ==
  /\ runs[r].at = "cleaning"
  /\ runs[r].worktree /\ ~Retained(tasks[Task(r)].status)
  /\ Goes(r, "removing")
  /\ UNCHANGED <<runFrame, tasks, queue, worktrees, fileFrame>>

(* runTask's last step: its worktree is gone, or kept and that is saved, or it never had one. *)
LastStep(r) ==
  \/ /\ runs[r].at = "removing"
     /\ worktrees' = worktrees \ {Task(r)}
     /\ UNCHANGED <<disk, faults>>
  \/ /\ runs[r].at = "cleaning" /\ runs[r].worktree /\ Retained(tasks[Task(r)].status)
     /\ Saved
     /\ UNCHANGED worktrees
  \/ /\ runs[r].at = "cleaning" /\ ~runs[r].worktree
     /\ UNCHANGED <<worktrees, disk, faults>>

(* Mutant: the slot is given back without looking at the queue. *)
RunEndsUnpumped(r) ==
  /\ ~runs[r].rejected
  /\ LastStep(r)
  /\ running' = running \ {Task(r)}
  /\ runs' = [runs EXCEPT ![r] = NoRun]
  /\ UNCHANGED <<process, tasks, queue, sweep, calls, flushing, used, starts, requests, crashes>>

RunEnds(r) ==
  /\ ~runs[r].rejected
  /\ LastStep(r)
  /\ Pump(tasks, queue, running \ {Task(r)}, [runs EXCEPT ![r] = NoRun])
  /\ UNCHANGED <<process, sweep, calls, flushing, used, requests, crashes>>

(* Nobody handles a rejection of runTask: the process ends. *)
RunRejects(r) ==
  /\ \/ runs[r].rejected /\ LastStep(r)
     \/ /\ runs[r].at = "cleaning" /\ runs[r].worktree /\ Retained(tasks[Task(r)].status)
        /\ SaveFault
        /\ UNCHANGED worktrees
  /\ ProcessEnds

------------------------------------------------------------------------------
(* Work that nobody waits for. *)

(* Several such saves write the same tasks; when one fails the process ends, as in Crash. *)
Flush ==
  /\ flushing
  /\ Saved
  /\ flushing' = FALSE
  /\ UNCHANGED <<runFrame, tasks, queue, runs, worktrees>>

(* runMaintenance removes the worktree of a failed or blocked task whose retention is over. *)
SweepStarts(id) ==
  /\ process # "down"
  /\ sweep = 0
  /\ id \in worktrees /\ Retained(tasks[id].status)
  /\ sweep' = id
  /\ UNCHANGED <<process, tasks, queue, running, runs, worktrees, calls, fileFrame,
                 used, starts, requests, crashes>>

SweepEnds ==
  /\ sweep # 0
  /\ sweep' = 0
  /\ worktrees' = worktrees \ {sweep}
  /\ flushing' = TRUE
  /\ UNCHANGED <<process, tasks, queue, running, runs, calls, disk, faults,
                 used, starts, requests, crashes>>

------------------------------------------------------------------------------
(* What r does next: whatever it waits for succeeds or fails. *)
RunStep(r) ==
  \/ Begin(r) \/ BeginFails(r)
  \/ LaunchWorker(r) \/ LaunchFails(r)
  \/ TurnEnds(r) \/ Complete(r) \/ (\E escalate \in BOOLEAN : Block(r, escalate))
  \/ Record(r) \/ WorkFails(r)
  \/ Settle(r) \/ SettleFails(r)
  \/ Repaired(r) \/ NotRepaired(r) \/ Requeue(r) \/ RequeueFails(r)
  \/ Fail(r) \/ FailFails(r)
  \/ CleanUp(r) \/ RunEnds(r) \/ RunRejects(r)

Next ==
  \/ Initialize \/ Stop \/ Crash
  \/ SubmitTask \/ (\E n \in Fanouts : SubmitFanout(n))
  \/ \E id \in TaskIds : RetryTask(id) \/ CancelQueued(id) \/ CancelRunning(id)
  \/ \E call \in Calls : CallReturns(call) \/ CallFails(call)
  \/ \E r \in RunIds : RunStep(r)
  \/ Flush
  \/ \E id \in TaskIds : SweepStarts(id)
  \/ SweepEnds

Spec == Init /\ [][Next]_vars

(* The service manager restarts the process, a stopped one exits, and whatever *)
(* an execution or a caller waits for answers, well or badly.                  *)
Fairness ==
  /\ WF_vars(Initialize)
  /\ WF_vars(process = "stopping" /\ Crash)
  /\ WF_vars(\E call \in Calls : CallReturns(call) \/ CallFails(call))
  /\ \A r \in RunIds : WF_vars(RunStep(r))
  /\ WF_vars(Flush)

FairSpec == Spec /\ Fairness

------------------------------------------------------------------------------
(* Properties. *)

(* A queued task is on the queue, whoever put it there or took it off: an
   operator's retry or cancel, an automatic retry, a repair, a restart. *)
QueuedIsScheduled ==
  process # "down" =>
    \A id \in TaskIds : tasks[id].status = "queued" => \E i \in DOMAIN queue : queue[i] = id

(* A task shown as running has an execution that will still decide its fate:
   otherwise it would be stuck, since a running task cannot be retried. *)
RunningIsWorked ==
  \A id \in TaskIds : tasks[id].status = "running" =>
    \E c \in Copies : runs[<<id, c>>].at \in InTurn \cup {"repairing"}

(* A task that is not a fan-out parent fails only when its retries are spent,
   and every failed task asks for an operator. *)
FailedMeansEscalated ==
  \A id \in TaskIds : tasks[id].status = "failed" =>
    /\ tasks[id].escalated
    /\ Children(id) = {} => tasks[id].retries > MaxRetries

(* Duplicate queue entries, automatic retries, repairs and operators that race
   start a task no more often than one life of the process grants. *)
ExecutionBound ==
  \A id \in TaskIds :
    starts[id] <= (1 + MaxRetries + MaxRepairs) * (crashes + 1) + requests

(* Without an operator's requests and failing saves, no two executions of
   one task are in their turns together, although executions overlap. *)
OneTurnAtATime ==
  requests = 0 /\ faults = 0 =>
    \A id \in TaskIds : \A c, d \in Copies :
      runs[<<id, c>>].at \in InTurn /\ runs[<<id, d>>].at \in InTurn => c = d

Quiet == process = "up" /\ queue = <<>> /\ calls = {} /\ \A r \in RunIds : runs[r].at = "none"

(* Once all work is over in a life of the process without crashes, a parent
   that was never executed itself shows the state of its children, however
   they interleaved, failed and were retried; a cancelled child is excluded. *)
FanInAgrees ==
  Quiet /\ crashes = 0 =>
    \A p \in TaskIds :
      /\ Children(p) # {}
      /\ starts[p] = 0
      /\ tasks[p].status # "cancelled"
      /\ \A c \in Children(p) : tasks[c].status # "cancelled"
      => tasks[p].status =
           CASE \E c \in Children(p) : tasks[c].status = "failed" -> "failed"
             [] \A c \in Children(p) : tasks[c].status = "done" -> "done"
             [] OTHER -> "blocked"

(* Every queued task is taken up and comes to an end, crashes included. *)
QueuedSettles ==
  \A id \in TaskIds :
    tasks[id].status = "queued" ~>
      (tasks[id].status \in {"done", "blocked", "failed", "cancelled", "absent"})

------------------------------------------------------------------------------
(* What the documentation says and the code does not keep. *)

(* README.md: work runs in isolated git worktrees. *)
WorktreeIsolation ==
  \A r \in RunIds : runs[r].at \in {"working", "closing"} => Task(r) \in worktrees

(* workflow.md: the parent task closes after all children complete. *)
ParentCloses ==
  \A p \in TaskIds :
    (Children(p) # {} /\ \A c \in Children(p) : tasks[c].status = "done") ~>
      (tasks[p].status \notin {"blocked", "queued"} \/ \E c \in Children(p) : tasks[c].status # "done")

==============================================================================
