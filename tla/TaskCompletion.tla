--------------------------- MODULE TaskCompletion ---------------------------
(***************************************************************************)
(* What it takes for a task to be done: the awaits of one execution in     *)
(* runTask of src/orchestration/task-orchestrator.ts, with the commit, the *)
(* pull request, its checks and its reviews in src/orchestration/          *)
(* github-automation.ts and the verification of src/utils/github-pr.ts.    *)
(*                                                                         *)
(* One task over several executions: its artifacts and its branch outlive  *)
(* them.  The worker names any pull request and any branch; on GitHub pull *)
(* requests appear and reviewers change their minds at any time.           *)
(***************************************************************************)
EXTENDS Naturals

CONSTANTS
  MaxRuns,    \* bound: executions
  Policies,   \* the completion policies tried: records like policy
  Settings,   \* the settings tried
  Objectable  \* bound: pull requests that are ever reviewed

VARIABLES
  settings,   \* TASK_AUTO_COMMIT and TASK_AUTO_PR
  policy,     \* getTaskCompletionPolicy: fixed for a task
  status, escalated, cancelRequested,
  runs,       \* executions so far
  step,       \* the await of the execution
  branch,     \* TaskRecord.branch
  pr,         \* latestArtifact(task, "pull_request")
  commits,    \* the task has an artifact of a commit
  summary,    \* the task has an artifact of a summary
  output,     \* of the worker's turn: its state, and the branch it named
  context,    \* prContext: not read, without or with change requests
  hub,        \* pull requests that exist on GitHub
  objections, \* those whose reviews request changes
  standing,   \* history: objections that stood during the whole execution
  blind       \* history: reading the context failed in this execution

artifacts == <<branch, pr, commits, summary>>
github == <<hub, objections, standing>>
fixed == <<settings, policy>>
vars == <<fixed, status, escalated, cancelRequested, runs, step, artifacts, output, context, github, blind>>

(* Pull requests, by their head: the branch of the task's worktree; one of another name    *)
(* with the task's id in it, as an earlier worktree had; another branch; one whose name     *)
(* goes on with a dash where that one's ends; and one of another repository, which may be   *)
(* the target of the task.                                                                 *)
Branches == {"own", "kin", "other", "longer", "foreign"}
NoPr == "none"
NoBranch == "none"
NoOutput == [state |-> "done", branch |-> NoBranch]
Kinds == {"summary", "branch", "commit", "pr"}

TypeOK ==
  /\ settings \in [commit : BOOLEAN, pr : BOOLEAN]
  /\ policy \in [verified : BOOLEAN, required : SUBSET Kinds, target : BOOLEAN]
  /\ status \in {"queued", "running", "blocked", "done", "failed", "cancelled"}
  /\ escalated \in BOOLEAN /\ cancelRequested \in BOOLEAN
  /\ runs \in 0..MaxRuns
  /\ step \in {"none", "launching", "preparing", "working", "judging", "pushing", "checking",
               "enriching", "creating", "seeking", "verifying", "reviewing", "recording"}
  /\ branch \in Branches \cup {NoBranch} /\ pr \in Branches \cup {NoPr}
  /\ commits \in BOOLEAN /\ summary \in BOOLEAN
  /\ output \in [state : {"done", "blocked"}, branch : Branches \cup {NoBranch}]
  /\ context \in {"none", "fine", "changes"}
  /\ hub \in SUBSET Branches /\ objections \in SUBSET hub /\ standing \in SUBSET Branches
  /\ blind \in BOOLEAN

Init ==
  /\ settings \in Settings /\ policy \in Policies
  /\ status = "queued" /\ escalated = FALSE /\ cancelRequested = FALSE
  /\ runs = 0 /\ step = "none"
  /\ branch = NoBranch /\ pr = NoPr /\ commits = FALSE /\ summary = FALSE
  /\ output = NoOutput /\ context = "none"
  /\ hub = {} /\ objections = {} /\ standing = {} /\ blind = FALSE

------------------------------------------------------------------------------
(* The ends of an execution. *)

Ends(to, escalate) ==
  /\ status' = to /\ step' = "none"
  /\ escalated' = (escalated \/ escalate)

Blocked(escalate) == Ends("blocked", escalate)

Goes(to) == step' = to /\ UNCHANGED <<status, escalated>>

(* The catch block: what failed is tried again, or has failed for good.  (How often, and   *)
(* the repair of the worktree, are TaskOrchestrator's.)                                    *)
Throws == Ends("queued", FALSE) \/ Ends("failed", TRUE)

------------------------------------------------------------------------------
(* The worker. *)

Starts ==
  /\ status = "queued" /\ runs < MaxRuns
  /\ status' = "running" /\ step' = "launching" /\ runs' = runs + 1
  /\ output' = NoOutput /\ context' = "none"
  /\ standing' = objections /\ blind' = FALSE
  /\ UNCHANGED <<fixed, escalated, cancelRequested, artifacts, hub, objections>>

Launched ==
  /\ step = "launching"
  /\ \/ branch' = "own" /\ Goes("preparing")
     \/ Throws /\ UNCHANGED branch
  /\ UNCHANGED <<fixed, cancelRequested, runs, pr, commits, summary, output, context, github, blind>>

(* runWorkerPreflight, then the boot context of the memory. *)
Prepared ==
  /\ step = "preparing"
  /\ Goes("working") \/ Throws
  /\ UNCHANGED <<fixed, cancelRequested, runs, artifacts, output, context, github, blind>>

(* The turn is over, in a tmux session or by the engine; parseEngineOutput.  A text that is *)
(* not the JSON it was asked for is the summary of a task that is done.                     *)
Outputs == [state : {"done", "blocked"}, branch : {"own", "other", NoBranch}]

WorkerAnswers ==
  /\ step = "working"
  /\ \E answer \in Outputs, url \in Branches \cup {NoPr} :
       /\ output' = answer
       /\ IF cancelRequested
          THEN Ends("cancelled", FALSE) /\ UNCHANGED artifacts
          ELSE /\ Goes("judging")
               /\ summary' = TRUE
               /\ branch' = IF answer.branch = NoBranch THEN branch ELSE answer.branch
               /\ pr' = IF url = NoPr THEN pr ELSE url
               /\ UNCHANGED commits
  /\ UNCHANGED <<fixed, cancelRequested, runs, context, github, blind>>

WorkerFails ==
  /\ step = "working"
  /\ Throws
  /\ UNCHANGED <<fixed, cancelRequested, runs, artifacts, output, context, github, blind>>

(* The changed files are listed, the worker's own verdict judged, and what it left         *)
(* committed: there may be nothing to commit.                                              *)
SummaryOnly == ~policy.verified /\ policy.required = {"summary"}

BlockedByWorker ==
  /\ step = "judging" /\ output.state = "blocked" /\ ~SummaryOnly
  /\ Blocked(FALSE)
  /\ UNCHANGED <<fixed, cancelRequested, runs, artifacts, output, context, github, blind>>

Committed ==
  /\ step = "judging" /\ (output.state = "blocked" => SummaryOnly)
  /\ \/ Goes("creating") /\ UNCHANGED commits
     \/ /\ settings.commit
        /\ commits' = TRUE
        /\ Goes(IF settings.pr THEN "pushing" ELSE "creating")
     \/ settings.commit /\ Throws /\ UNCHANGED commits
  /\ UNCHANGED <<fixed, cancelRequested, runs, branch, pr, summary, output, context, github, blind>>

------------------------------------------------------------------------------
(* The pull request. *)

(* pushBranch and openPullRequest, of which gh allows one for a branch. *)
Opens(head) ==
  /\ head \notin hub
  /\ hub' = hub \cup {head}
  /\ pr' = head

Opened ==
  /\ step = "pushing"
  /\ \/ Opens("own") /\ Goes("checking")
     \/ Throws /\ UNCHANGED <<hub, pr>>
  /\ UNCHANGED <<fixed, cancelRequested, runs, branch, commits, summary, output, context,
                 objections, standing, blind>>

(* waitForPullRequestChecks: a poll finds a check that is pending, and goes on or gives up *)
(* at its timeout; or one that failed; or neither.  gh that fails is a failed check.       *)
CheckStates == {"pending", "failed", "passed"}
Passed(states) == states \cap {"pending", "failed"} = {}

ChecksPolled ==
  /\ step = "checking"
  /\ \E states \in SUBSET CheckStates :
       \/ Passed(states) /\ Goes("enriching")
       \/ ~Passed(states) /\ Blocked(TRUE)
       \/ "pending" \in states /\ UNCHANGED <<status, escalated, step>>
  /\ UNCHANGED <<fixed, cancelRequested, runs, artifacts, output, context, github, blind>>

(* enrichPullRequestContext: what GitHub says of a pull request now, or null. *)
Context ==
  IF pr \in objections THEN "changes" ELSE "fine"

ReadsContext ==
  \/ pr \in hub /\ context' = Context /\ UNCHANGED blind
  \/ blind' = TRUE /\ UNCHANGED context

Enriched ==
  /\ step = "enriching"
  /\ ReadsContext /\ Goes("creating")
  /\ UNCHANGED <<fixed, cancelRequested, runs, artifacts, output, github>>

(* The last artifact of a pull request counts, whichever execution it is of.  Without one  *)
(* tryCreateMissingPullRequest opens it for the task's branch.                             *)
CreatesMissing ==
  /\ step = "creating"
  /\ IF ~policy.verified THEN Goes("reviewing") /\ UNCHANGED <<hub, pr>>
     ELSE IF pr # NoPr THEN Goes("verifying") /\ UNCHANGED <<hub, pr>>
     ELSE \/ branch # NoBranch /\ commits /\ Opens(branch) /\ Goes("verifying")
          \/ Goes("seeking") /\ UNCHANGED <<hub, pr>>
  /\ UNCHANGED <<fixed, cancelRequested, runs, branch, commits, summary, output, context,
                 objections, standing, blind>>

(* headBranchMatches, and headRefMatches of the search: the head is the branch expected, has *)
(* its name for a beginning, or has the id of the task that is in its name.                *)
HeadMatches(actual, expected) ==
  \/ actual = expected
  \/ expected = "other" /\ actual = "longer"
  \/ {actual, expected} \subseteq {"own", "kin"}

(* findPullRequestByBranch: unless the target is another repository, the first one whose   *)
(* head matches the branch or names the task.                                              *)
HeadRefMatches(head) == (HeadMatches(head, branch) \/ head \in {"own", "kin"}) /\ head # "foreign"

Sought ==
  /\ step = "seeking"
  /\ \/ /\ ~policy.target
        /\ \E url \in hub : HeadRefMatches(url) /\ pr' = url
     \/ UNCHANGED pr
  /\ Goes("verifying")
  /\ UNCHANGED <<fixed, cancelRequested, runs, branch, commits, summary, output, context, github, blind>>

(* verifyGitHubPullRequestUrl: the pull request exists, and is of the target, or its head  *)
(* matches the task's branch.                                                              *)
VerifiesAnyHead ==      \* Mutant: the head is not compared
  pr \in hub /\ (policy.target => pr = "foreign")
Verifies ==
  pr \in hub /\ IF policy.target THEN pr = "foreign" ELSE HeadMatches(pr, branch)

Verified ==
  /\ step = "verifying"
  /\ \/ Verifies /\ Goes("reviewing")
     \/ Blocked(FALSE)
  /\ UNCHANGED <<fixed, cancelRequested, runs, artifacts, output, context, github, blind>>

------------------------------------------------------------------------------
(* The verdict: the context of the final pull request, the change requests, the artifacts. *)

Has(kind) ==
  CASE kind = "summary" -> summary
    [] kind = "commit" -> commits
    [] kind = "pr" -> pr # NoPr
    [] kind = "branch" -> branch # NoBranch

Missing == {kind \in policy.required : ~Has(kind)}

Reviewed ==
  /\ step = "reviewing"
  /\ IF pr # NoPr /\ context = "none" THEN ReadsContext ELSE UNCHANGED <<context, blind>>
  /\ IF pr # NoPr /\ context' = "changes" THEN Blocked(TRUE)
     ELSE IF Missing # {} THEN Blocked(FALSE)
     ELSE status' = "done" /\ step' = "recording" /\ UNCHANGED escalated
  /\ UNCHANGED <<fixed, cancelRequested, runs, artifacts, output, github>>

(* The memory is told of the completion.  When that fails the task is not done any more. *)
Recorded ==
  /\ step = "recording"
  /\ Ends("done", FALSE) \/ Throws
  /\ UNCHANGED <<fixed, cancelRequested, runs, artifacts, output, context, github, blind>>

------------------------------------------------------------------------------
(* Operators and GitHub. *)

RetryTask ==
  /\ step = "none" /\ status \in {"blocked", "failed", "cancelled", "done"}
  /\ status' = "queued" /\ escalated' = FALSE /\ cancelRequested' = FALSE
  /\ UNCHANGED <<fixed, runs, step, artifacts, output, context, github, blind>>

CancelTask ==
  /\ \/ /\ status = "queued"
        /\ status' = "cancelled" /\ UNCHANGED cancelRequested
     \/ /\ status = "running"
        /\ cancelRequested' = TRUE /\ UNCHANGED status
  /\ UNCHANGED <<fixed, escalated, runs, step, artifacts, output, context, github, blind>>

PullRequestAppears(head) ==
  /\ head \notin hub
  /\ hub' = hub \cup {head}
  /\ UNCHANGED <<fixed, status, escalated, cancelRequested, runs, step, artifacts, output,
                 context, objections, standing, blind>>

Objects(head) ==
  /\ head \in (hub \cap Objectable) \ objections
  /\ objections' = objections \cup {head}
  /\ UNCHANGED <<fixed, status, escalated, cancelRequested, runs, step, artifacts, output,
                 context, hub, standing, blind>>

Dismisses(head) ==
  /\ head \in objections
  /\ objections' = objections \ {head} /\ standing' = standing \ {head}
  /\ UNCHANGED <<fixed, status, escalated, cancelRequested, runs, step, artifacts, output,
                 context, hub, blind>>

Next ==
  \/ Starts \/ Launched \/ Prepared \/ WorkerAnswers \/ WorkerFails
  \/ BlockedByWorker \/ Committed \/ Opened \/ ChecksPolled \/ Enriched
  \/ CreatesMissing \/ Sought \/ Verified \/ Reviewed \/ Recorded
  \/ RetryTask \/ CancelTask
  \/ \E head \in Branches : PullRequestAppears(head) \/ Objects(head) \/ Dismisses(head)

Spec == Init /\ [][Next]_vars
------------------------------------------------------------------------------
(* A task that is done has every artifact it requires, of this execution or an earlier one. *)
(* If it needs a verified pull request, the one it shows exists and is of the target         *)
(* repository, or its head matches the branch that this execution made or its worker named,  *)
(* whatever pull requests and branches earlier executions left; and no change requests stood *)
(* against it all the while, unless GitHub could not be read (runTask).                      *)
DoneIsVerified ==
  status = "done" =>
    /\ \A kind \in policy.required : Has(kind)
    /\ policy.verified =>
         /\ pr \in hub
         /\ IF policy.target THEN pr = "foreign"
            ELSE HeadMatches(pr, IF output.branch = NoBranch THEN "own" ELSE output.branch)
    /\ pr \in standing => blind
=============================================================================
