# talonbot in TLA+

Models, model checks and proofs of the concurrent parts of talonbot: the daemon
that takes messages from Slack, Discord, webhooks and operators, turns them into
tasks, runs the tasks in git worktrees and posts what happens back to the chat.

The daemon is one Node.js process. Nothing runs in parallel, but every `await`
lets other handlers run, much is started and not waited for (`void ...`), state
lives in memory and in JSON files that are written at unsynchronised moments, and
systemd restarts the process whenever it ends. These are the steps of the models:
an action is the code between one `await` and the next, in one handler.

All paths below are relative to `src/` of the code base, unless they name a
document (`README.md`, `workflow.md`, `architecture.md`, `CONFIGURATION.md`).

## 1. The system

| component | state | operations | talks to |
|---|---|---|---|
| task orchestrator (`orchestration/task-orchestrator.ts`) | tasks by id, queue of ids, set of running ids, worktrees, `tasks/state.json` | `submitTask`, `submitFanout`, `retryTask`, `cancelTask`, `pump`, `runTask`, `updateParentState`, `persist`, `runMaintenance`, `initialize`, `stop` | worker launcher, engines, GitHub, memory; tells lifecycle listeners |
| transport outbox (`transports/outbox.ts`), one per transport | records by id, index by idempotency key, chain of saves, state file | `enqueue`, `pump`, `attemptSend`, `persistSafe`, `cleanupCompletedRecords`, `initialize`, `stop` | called by replies and the notifier; calls the platform |
| webhook bridge (`bridge/supervisor.ts`, `bridge/inbound-bridge.ts`) | records by message id, the verifier's seen ids, state file | `accept`, `processQueue`, `persist`, `initialize` | called by the HTTP server; submits tasks |
| task update notifier (`control/task-update-notifier.ts`, `control/store.ts`) | bindings of tasks to threads, tasks in flight, bindings file | `publish`, `poll`, `track`, `initialize`, `stop` | listens to the orchestrator; sends through the outbox |
| chat sessions (`control/session.ts`, `utils/queue.ts`) | transcript, seen events, serial queue, current abort | `enqueue`, `processMessage`, `clear`, `abort`, `stop` | engines; replies through a transport |
| control plane (`control/daemon.ts`) | sessions, subscriptions, sockets, aliases, seen events | `dispatch`, `dispatchToTask`, `getOrCreateSession`, idle sweep, session sockets | everything above |
| release manager (`ops/release-manager.ts`) | `current` and `previous` links, snapshots | `activate`, `rollback`, `integrityCheck` | HTTP server, start script |
| agent lifecycle (`runtime/agent-manager.ts`, `agent-registry.ts`) | desired and actual states of agents | `apply`, `reconcile` | watchdog |
| watchdogs (`runtime/watchdog-service.ts`, `orchestration/sentry-agent.ts`) | incidents already reported | `scan`, `start`, `stop` | read the orchestrator's tasks |
| repository registry (`orchestration/repo-registry.ts`) | repositories, the default one, file | `register`, `remove` | orchestrator |
| event dedupe guard (`transports/event-dedupe.ts`) | expiring keys | `shouldAccept` | transports |
| adapters, servers, engines, GitHub, memory, health, diagnostics, security, CLI | little or none | requests and answers | the components above |

`index.ts` starts them in this order: orchestrator (which already runs what it
recovers), control plane with notifier, watchdog and agents, bridge, release
manager, transports with their outboxes, HTTP server. It installs no handler for
rejected promises: one that nobody waits for ends the process.

What is hard in each, and what must hold:

* **Task orchestrator.** Executions overlap because a failed one requeues its
  task before it cleans up; operators act at any await; a fan-out parent follows
  its children by calls that may be illegal and throw; saves and crashes fall
  anywhere. A queued task must be on the queue, a running one must have an
  execution, budgets must hold, parents must agree with children.
* **Transport outbox.** Answers are lost, saves fail silently, keys are reused, a
  pass works through a list that ages. Nothing promised may be lost, nothing may
  be sent without bound.
* **Webhook bridge.** Senders repeat themselves; records are replaced while a pass
  holds them; files are written out of order. A message makes one task, unless a
  fault explains a second one.
* **Task update notifier.** Events and polls race, statuses change during sends,
  the file is edited by overlapping calls. A thread hears what its task came to.
* **Sessions and control plane.** Overflow and abort drop work somebody waits
  for; a session keeps the callbacks of the first message; sockets of a key are
  opened and closed by overlapping calls.
* **Release manager, agents, registry.** Several files or links that must change
  together, with failures in between.

`PROJECT.json` lists each of these hazards at its line, with the properties that
cover it.

## 2. Modules

| module | what it is |
|---|---|
| `DurableDelivery` | abstract: what an outbox promises its callers |
| `TransportOutbox` | `transports/outbox.ts`; implements `DurableDelivery` |
| `TransportOutboxProofs` | its theorems |
| `TaskOrchestrator` | `orchestration/task-orchestrator.ts` with the worktrees and the state file |
| `TaskOrchestratorProofs` | its theorems |
| `BridgeSupervisor` | `bridge/supervisor.ts` and the verifier of `bridge/inbound-bridge.ts` |
| `BridgeSupervisorProofs` | its theorems |
| `TaskNotifier`, `TaskNotifierProofs` | `control/task-update-notifier.ts` and the bindings file of `control/store.ts` |
| `ChatSessions`, `ChatSessionsProofs` | `control/session.ts`, `utils/queue.ts`; sessions, sockets and subscriptions of `control/daemon.ts` |
| `EngineTurns`, `EngineTurnsProofs` | `engine/session.ts` as the client of a session socket, `runtime/socket.ts` and the turns it meets there, `engine/process.ts` |
| `SessionAliases` | aliases and their links: `control/aliases.ts`, `control/daemon.ts`, `control/store.ts` |
| `InboundEvents`, `InboundEventsProofs` | the handlers of `transports/`, `transports/event-dedupe.ts`, `dispatch` of `control/daemon.ts` |
| `TaskCompletion` | what `runTask` demands before a task is done, `orchestration/github-automation.ts`, `utils/github-pr.ts` |
| `WorkerSweeps` | `runMaintenance`, `cleanupOrphanedWorkers`, `stopWorkerSession` against executions; `orchestration/worktree-manager.ts`, `worker-launcher.ts` |
| `ReleaseManager` | `ops/release-manager.ts` |
| `AgentLifecycle` | `runtime/agent-manager.ts`, `runtime/watchdog-service.ts`, `orchestration/sentry-agent.ts` |
| `RepoRegistry` | `orchestration/repo-registry.ts` |
| `Platform` | the eight modules that share no state, side by side: a step of the platform is a step of one of them |
| `PlatformProofs` | their theorems |
| `MCPlatform` | an instance of `Platform` whose `PickSpec` takes the steps of one component, named by `part` |
| `MC...` | instances for TLC: the values of the constants are in the `.cfg` files |

Where the modules meet: `TaskOrchestrator` abstracts what an execution does between
its launch and its outcome to the outcomes; `TaskCompletion` is that stretch in
detail, for one task, `WorkerSweeps` its directory and session, and `EngineTurns` the
worker's turn when it goes by way of a session. `ChatSessions` is the session on the other
end of that turn, `SessionAliases` the names of such sessions, `InboundEvents` what comes
before a session or a task. `TaskNotifier` hears the orchestrator's changes, and
what it sends is a message to `TransportOutbox`. They are separate
because each pair shares a call or an answer and no other state; a module has
every outcome that the other side of the call can produce.

Operators whose comment begins with "Mutant" are plausible bugs in the operator
that follows them. No specification uses them; putting one in the place of
the operator makes the property named in `PROJECT.json` fail, which shows that
the property has something to say about that code.

Common conventions: the clock is left out, so a timer may fire, a retry be due
and a retention be over at any moment; identifiers are numbers in order of
creation; `process = "down"` is the time between the end of the process and
systemd's restart; variables marked *history* record what happened and are read
by properties only (and by the bounds).

### TransportOutbox

State: `records`, `byKey` (`this.records`, `this.byKey`); `pumpAt`, `ready`,
`current` (where the single pump waits, the list of its pass, the record in
flight); `saves`, `snapshot`, `writing` (the promise chain of `persistSafe`); `disk`.

| action | code |
|---|---|
| `Initialize`, `Stop`, `Crash` | `initialize`, `stop`, the end of the process |
| `Enqueue(key)` | `enqueue`: an existing record is returned unless it is poison, then it is replaced |
| `PumpStarts`, `Sweep` | `pump` up to its first await; the retention sweep |
| `PlatformTakes`, `SendSucceeds`, `SendFails` | `attemptSend`; the platform may take a message and the answer never come |
| `TakeSnapshot`, `SaveSucceeds`, `SaveFails` | `persist` at the head of the chain, and whoever waited for it going on (`Resume`) |

### TaskOrchestrator

State: `tasks`, `queue`, `running` (the same names in the code); `runs`, the
executions of `runTask`: a task can have several, so an execution is a pair of a
task and a copy number, and `at` says which await it is in; `worktrees`, the
directories; `calls`, API operations waiting for their save; `flushing`, a save
that nobody waits for; `sweep`, the maintenance; `disk`, the file.

| `at` | the await in `runTask` |
|---|---|
| `starting` | the save after the transition to running |
| `launching` | `launcher.launch` |
| `working` | the save of the launch, preflight, memory, the worker's turn |
| `closing` | pull request, checks, reviews, artifacts |
| `recording` | `memory.recordTaskCompletion` |
| `settling` | the save of the outcome |
| `repairing`, `requeuing` | the repair in the catch, and the save after it |
| `failing` | the save at the end of the catch |
| `cleaning`, `removing` | the two awaits of the finally block |

`Pump` is the whole loop of `pump`, up to the first await of each execution it
starts; every action that ends in `this.pump()` includes it. `Catch` and
`CountFailure` are the catch block from the point of the throw to its next await,
`FollowedByParent` is `updateParentState`. An execution whose catch throws is
`rejected`: after its finally block the process ends (`RunRejects`), because the
promise is not handled.

A save takes effect in one step, when its caller resumes. What the engines, git,
GitHub and the policy checks answer is a choice between `Complete`, `Block`,
`TurnEnds` and `WorkFails`.

### BridgeSupervisor

State: `objects` and `recordOf`: the records are objects, and a pass holds on to
those it found even when the table has another one for the message; `seen`, the
verifier; `pumpAt`, `due`, `current`, `caller` for `processQueue`; `saves`, which are
not serialised and list their records before they write them; `disk`.
`AcceptNew`, `AcceptDuplicate` and `AcceptRefused` are `accept` by the verifier's
answer; `SaveEnds` resumes whoever waited, a delivery (which runs a pass) or the
pump. A pass started by the timer whose save fails ends the process; one
started by a delivery answers with an error.

### TaskNotifier

State: `bindings` (with `lastNotifiedStatus`), `publishing` (the tasks of `inFlight`
and where `publish` waits), `edits` of the file, `file` and `written`: a file that was
truncated, or that two edits wrote over each other, cannot be parsed and reads as
no bindings. `status` stands for the orchestrator: `Move` is one of its transitions
and calls the listener in the same step. Polls may reach any task at any time:
the interval (`CHAT_TASK_UPDATE_POLL_MS`) may be shorter than a send, and polls overlap.

### ChatSessions

One session key, since keys share nothing. State: `calls`, whoever waits for
`dispatch`, the RPC or HTTP `send` or a subscription, and where; `sessions`, `socket`,
`file`, `closings`, `subs` (the tables of `daemon.ts` and the socket's file); per session object
`queue`, `turn`, `running`, `stopped`. An object that left the table lives on until its
turns are over. `Logged` is `enqueue` after its first await, with the overflow of the queue and the
start of a turn if none is under way; `Replied`, `TurnFails`, `Excused`, `ExcuseFails` are
`processMessage` with its catch; `StopSession`, `Unlinked`, `Closed` are `stopSession`
and `closeSessionSocket`, whose last step works on the tables by key. `Dispatch` is a new message or a
redelivery of one that came by `dispatch` before. The clock is an action: `Forget` ends the window of
a seen message (`SESSION_DEDUPE_WINDOW_MS`), after which a redelivery is a new message; each call
remembers the window of its message in which it came. The table of seen messages that each session keeps
for itself has a window and is emptied by `clear`, so whether it still knows a message that comes again is left to
chance (`MayKnow`). A session enters the table before its socket is opened; when the socket cannot be
opened (`OpensNoSocket`) the call is rejected and the session stays, without a socket for as long as it lives (`mute`).

### EngineTurns

`Complete`, `Connected`, `Heard`, `AttemptFails` are `completeViaSocket` and the loop of attempts
around it: `heard` are its settled promises. `Subscribe`, `Send`, `GetMessage` are
`handleSessionRpcCommand`; lines of a connection are handled as they are read, without
waiting, so that commands overtake one another. `TurnBegins` to `TurnBreaks` are
the session's turns, with the process of `engine/process.ts` inside. What an
attempt leaves behind stays: its turn is taken although nobody waits for it.

### SessionAliases, InboundEvents

A command about an alias changes the table, saves it, then makes or removes links
in `syncAliasSymlinks`; each is one action. Whether a link is there is asked with `existsSync`, which
follows it: a link to a socket file that is gone (`files`) counts as absent, so it is neither removed nor, since
`symlink` answers `EEXIST`, replaced. An alias that met one is in `lost` until it is linked again. A link to a
session whose socket is opened again is looked at then, with all others. A delivery is received by a stack, accepted by the guard,
dispatched (`Dispatch` chooses among command, task and session), and for a task submitted,
tracked and answered. This is the one module with a clock, since the guard's window is its point.

### TaskCompletion, WorkerSweeps

`TaskCompletion` follows `runTask` from the launch to the outcome: the awaits that commit,
open, poll, read reviews, look for a missing pull request and verify. What the
worker says and what exists on GitHub are free. Branches are kinds: the task's own, another one that names
the task, one its worker named, one whose name begins with that, and one of another repository; `HeadMatches` is the comparison of
`utils/github-pr.ts`, which accepts an equal name, a longer one and the id of the task. Artifacts stay with the task, and
an execution starts with those of the one before. `WorkerSweeps` has the same execution
reduced to its directory and tmux session, and the sweeps, each in three steps: it
looks at the tasks, lists what is there, removes what no task claimed when it looked.

### ReleaseManager, AgentLifecycle, RepoRegistry

One action per file operation of a call: staging, the two links of `activate` and of `rollback`
in their order; the saves of an agent's state and the appends of incidents; the write
and the rename of the registry, whose temporary file all calls share.

## 3. Runs

| run | instance | question |
|---|---|---|
| `outbox` | 2 keys, 2 records, 1 retry, 1 crash | what a pass holds, budgets, the file, liveness, and that it implements `DurableDelivery` |
| `operators` | 2 copies, 1 retry; either 1 task with 1 repair, 1 request, 1 failing save and 1 crash, or 2 tasks that only fail | is a task ever stuck, and do its budgets hold, under every interference with one task; are two executions of a task ever in their turns together |
| `fanout` | a parent with 2 children, limit 2, 2 copies, no retry, 1 request | the limit, and whether parent and children agree when an operator interferes |
| `settles` | 2 tasks, limit 1, 1 retry, 1 crash; no failing save, repair or request | does every queued task come to an end |
| `bridge` | 2 messages, 2 deliveries, 1 retry, 1 trouble | tasks per message, honesty of the labels and the file, liveness |
| `notifier` | 1 task, 3 changes, 2 troubles | repeats, lost updates, the file |
| `sessions` | 3 calls of which one may be an operator's or a subscription, 2 session objects, a queue of 1, 1 stop, 1 abort, 1 message whose window may end once | is a message worked on once in its window and a caller ever forgotten, is the session reachable |
| `platform` | 3 releases and 2 calls; 1 failing task, 2 scans, 2 calls at a time, 3 in all, 1 crash; 2 repositories, 2 saves; 1 worker, 2 sweeps; 2 executions, 3 policies, 2 settings; 1 key, 1 alias, 2 commands; 2 attempts, 2 connections, 2 turns; 1 event, 2 deliveries, 2 set-ups, 4 units of time | one property of each of eight components, two of the watchdog |
| `worktree`, `parent_closes`, `bridge_retry`, `final_is_told` | small | documents the code does not keep, section 5 |

`operators` is bounded by the constraint `OneTaskOrFailuresOnly` of `MCTaskOrchestrator`, which keeps a second
task apart from repairs and troubles. Executions of one task overlap because a failed one requeues its task before it
cleans up; without an operator it takes another task's end to start the next one meanwhile, so two tasks with a
retry each reach the overlaps that `OneTurnAtATime` speaks of.

`platform` checks `PickSpec` of `MCPlatform`, which picks one component at its first state and leaves
the others as they begin: its states are the sum of the components' states, not their product, and
nothing is lost since they share none. In `Spec` of `Platform`, about which the theorems
are, all components interleave.

Why the bounds are enough for the cases they are meant for: a second key is
needed for a pass that holds one record while another is replaced or swept; one
retry tells "too many", "too few" and "exactly" apart; a second execution of a
task needs one retry or request, and a third would only repeat what the second
does to the first; two children are the least for which "one" and "all" differ;
one crash separates two lives of the process, and the properties that count
restarts are proved for any number; a second delivery of a message is the least
that repeats it. One task is enough for the notifier's edits to meet, because
`track` and `publish` edit the file for the same task; three changes allow a
status, a change during its send, and one more. Two session objects are the one
that is stopped and the one that replaces it; with a queue of one, the third
call overflows it while a turn runs. One message whose window ends once is enough
for a redelivery before the end and one after it. Two calls, saves, sweeps, scans,
commands or deliveries are the least that overlap, and the third release is
the one to go back to when a call overtakes another. A second attempt is the
first that meets what an attempt left in the session. `MaxCopies`, `MaxTasks`,
`MaxRecords`, `MaxDeliveries`, `MaxRequests`, `MaxFaults`, `MaxCrashes`, `MaxTroubles`,
`MaxChanges`, `MaxCalls`, `MaxObjects`, `MaxStops`, `MaxAborts`, `MaxWindows`, `Fading`, `MaxConns`, `MaxTurns`,
`MaxRuns`, `MaxTime`, `Objectable` and the sets of calls, saves, sweeps, scans, commands and
deliveries are bounds of the models, not of the code.

`CHECK_DEADLOCK` is off everywhere: when the bounds are used up and the work is
done, the models stop, and so does the daemon when nothing is left to do.

**Fairness.** systemd restarts the process (`Restart=always`), so `Initialize` is weakly
fair; a stopping process exits. A call to a platform, git, the engine or the file
system answers, well or badly, so each wait is weakly fair in the disjunction
of its outcomes, never in success alone: failures are bounded by the budgets of the
code (retries) or by a bound of the model (failing saves). Timers tick, so a pass
or a poll that has something to do is weakly fair; in the bridge and the outbox
this is per record, since a backoff passes whatever other records do. In `ChatSessions` the steps
of each call and of each object's turn are weakly fair, in all their outcomes:
files, engines and transports answer. An engine's timeout only sends it SIGTERM, so a process that ignores
that is excluded here; `EngineTurns` has it. Nothing is
assumed about operators, senders of webhooks or the arrival of messages.

## 4. Proofs

TLAPS proves for every value of the constants what TLC shows on the instances.

**TransportOutboxProofs.** Type correctness, `KeyIndexSound`, `PassIsCurrent`, `DeliveryBudget` and
`DiskIsTrue`, that is, every invariant of the run, and the safety part of the refinement. The invariant
`IInv` joins the types, the agreement of records and index, a statement about the three
stores (memory, the snapshot being written, the file: budgets, and that "sent" was
delivered), one about the pass (its ready list holds pending records and not
the current one), and one about what may still be lost: a record whose save is
queued is not yet promised. `ChainSound` adds who waits in the chain of saves
(at most one save of the pump), and `DeliverySound` how often a record can have
reached the platform by now: a budget per life of the process and the attempts
of this one. The stores must be treated together, because a save
moves the claim about memory to the snapshot and then to the file.
`ImplementsSafety` shows that every step of the outbox is a step of `DurableDelivery` under the mapping `PhaseOf`, or
none: an enqueue offers a message, the platform's taking it delivers it, its last failure abandons it, and a save that
ends promises all that it wrote first. What needs an invariant is that no step takes a
promise back (`Carried`): what the file holds as pending is pending in memory, and in the snapshot
that will replace the file, unless it was delivered or given up.

**TaskOrchestratorProofs.** Type correctness with the limit on running tasks, that
queued tasks are on the queue, that running tasks are worked on, that failed
tasks are escalated and have spent their retries. `IInv` is `TypeOK`, that a process that is down has
nothing in memory, `DiskGood` (the same facts about the tasks in the file, as far
as they survive a restart) and `Good(tasks, queue, runs, used)`. `Good` is an operator of four values, not of
the state: most actions first change the tasks and then pump, and `PumpGood`
proves once that `Pump` turns good values into a good state, whatever they
were made from. The lemmas follow the code: `CountFailure`, `Catch`, `Outcome`,
`ParentUpdated` and `Pump` each get one, and each action of `Next` is a short step over them.

The second half of the module proves `OneTurnAtATime`, `ExecutionBound` and `FanInAgrees`, which relate
several executions or several tasks. `Kinds` says that every step is of one of a few kinds, such as
`StepDecides` (an execution has an outcome) or `StepQueues` (a repair put the task back), that
name only what the step does to statuses, budgets and places; everything after it looks at the
kinds. `Solo` is the invariant behind one turn at a time: at most one execution of a task may still decide
on it, and none while it is queued. It needs `Untouched`, that a parent nobody retried
is never queued and so never refuses its child's update, for a refusal sends an execution that
had let go of its task back into the error path. `Budget` gives each task what its life of the process
still grants (`Left`: its place on the queue, retries, repairs) and adds the executions
that have taken a repair and not yet queued it (`Repairing`): no step makes the sum
larger, and a start takes one from it. `FanIn` says that a parent shows the state of its children (`Shown`)
unless a child is `Unsettled`: it is queued or cancelled, or an execution of it is still to call
`updateParentState` or to end the process. `Strong` joins all of them.

**TaskNotifierProofs.** Type correctness, that no update is posted twice
(`NoRepeatedUpdate`), that a thread is given up only when it heard the end (`UnboundWasTold`), and
`FileFollows`. `IInv` adds `Accounted`: whoever may start a send of a task or is in
one has a change, or a restart, that the thread has not heard of (`Slack`); without it
the bound on the posts is not inductive. `Unknown` says that a task that was never
tracked is in no table, edit or file, which `Track` needs, and `BootIsQuiet` that
nothing is under way before the notifier is up. `publish` and the end of an edit get
one lemma each (`PublishEffect`, `EndsEffect`), and each action one over them. `Heard` says what is
sent, noted or given up of a task is what its thread heard, or it was overtaken; it speaks of the
first life of the process (`FirstLife`), since a restart forgets sends. For the file, while no edit
met another or failed, the only edit under way knows what the notifier
remembers, or reads it off a file that differs only in the edit's own task (`FileTrue`); `Owned`
adds that `publish` edits only while the task is in `inFlight`.

**BridgeSupervisorProofs.** Type correctness, `LabelsAreTrue` and `TaskBound`. That labels are true
is kept for every place a record may be in, memory, the saves under way and the file
(`StoresFit`), because an old save may be renamed over a newer one; with it goes that
every table names records of its own messages. The bound on tasks is not
inductive: a message may still become a task because the verifier would take it
for new, because the running pass holds a record of it, or because the table has one that a later pass
takes. `Accounted` adds these three to the tasks made (`Hopes`); a dispatch uses up one, and
only a trouble brings one back. `PassFits` says that the records a pass holds are of different
messages and have retries left. `StoresKept`, `ProceedStep` and `SettlesStep` treat the stores, the
rest of a pass and the end of a dispatch once for all the actions that share them.

**EngineTurnsProofs.** Type correctness and `NothingOlder`. A turn is `Past` when the session can show
nothing older any more; turns are taken in the order of their numbers, so the end of
a turn makes it past. A connection is told `sent` only after that, and asks for the
message only when it was told, whatever other ends it has heard.

**InboundEventsProofs.** Type correctness and `TakenOnce`. Any two deliveries of an event that passed the
guard, whether acted upon or waiting, passed it further apart than the window (`Spaced`),
because the guard is marked before the first await and remembers the latest.

**ChatSessionsProofs.** Type correctness and the four other invariants of the run.
`QueuesSound` says where the waiting calls are: those in the queues, each once and at
its own session, and those that have a turn; a queue is empty when its session is idle. That gives
`WaitersAreServed`. For one turn a message and window, `IdsSound` says that the calls of a message that are not
duplicates came in different windows, and that the message is marked as seen unless its window ended
after the last of them; `TurnsSound` that no turn was counted before a call
has one. `SocketsSound` is behind `SessionIsReachable`: while a socket of the key closes, the table has no
session, or one that came too early (`raced`); otherwise the file belongs to the socket, and the session has one
unless it is `mute`. `BusyIsSeen` is inductive with the types.

**PlatformProofs.** Type correctness of the eight components (`TypesCorrect`) and the property of each. Every
component has an invariant of its own; the lemmas named `...Steps` show that a step of the platform is a step of the
component or leaves it alone, so that the invariants are proved one by one.

* *Releases:* what a link or a call names stays installed (`LinksInstalled`); while nothing is `disturbed` there is
  one call at most, and what it has read of the links is still true (`CallKnows`).
* *Registry:* every table, also those in the files and in the saves, has one default at most; while saves have not
  overlapped and the file could be read, the one under way has the temporary file open and it holds its table.
* *Sweeps:* the task of an execution that is at work counts as running; when it has launched, its directory is
  recorded and there, a sweep that still looks spares it, and none has it among what it removes (`WorkersSound`,
  `Spared`); executions that began or were launched while a sweep was under way (`late`) are left out, and do lose what the
  sweep decided to remove. An idle sweep holds nothing (`IdleIsEmpty`).
* *Completion:* `RunKnows` says at each await what the execution knows, up to the reviews: there the pull
  request exists, and is of the target or its head matches the branch of this execution (`PrOfRun`), which is not to say that
  this execution opened it. `ReviewsRead` says that the reviews it read are those of the pull request it shows.
* *Agents:* the service runs only in a process that is up and initialised it, and a call that starts it
  holds a wanted entry (`ServiceSound`). For one escalation a task: one agent makes all scans and has seen
  every task that has a line (`OneAgent`), and no two scans are about to write the same task (`Reports`); all this
  while no two first starts of the service overlapped (`doubled`).
* *Names:* a socket that is in the table has its file unless a stop is about to take it from the table
  (`HaveFiles`), so that a link to a live session is never a dangling one. One command at most is between the table
  and the links, and all aliases but those it has in hand have the links they should have, or met a dangling link
  (`OneCommand` with `Follows`, `Met`, `Edits` and `Moves`). What a command holds is `Formed` also when commands overlap.
* *Turns and events:* the theorems of `EngineTurnsProofs` and `InboundEventsProofs`, by `INSTANCE`.

The proofs assume the named assumptions of the modules (`SizeAssumption`, `SessionAssumption`,
`BudgetAssumption`, `FanoutAssumption`, `BoundAssumption`, `KeyAssumption`), which TLC
evaluates on each instance. The modules that `Platform` instantiates declare none: `Platform` does
(`NameAssumption`: what stands for none is no name and no number; `BoundAssumption`: the bounds are numbers;
`SettingAssumption`: settings, policies and texts are what the configuration and a chat can hold). `EngineTurnsProofs` and
`InboundEventsProofs` state what they need as `Assumptions`, which `PlatformProofs` derives from those.

**Only model-checked.** Liveness (`PromisedIsSettled`, `QueuedSettles`, `QueuedIsSettled`, `UpdatesFlow`,
`CallsSettle`) and the fair part of the refinement `ImplementsDurableDelivery`: reasoning about fairness
and `ENABLED` is beyond the prover. Every invariant and every action property of the
passing runs is proved.

## 5. Where the code and its documents disagree

* **Worktrees are not isolated from an execution's predecessor** (`worktree`). A
  failed execution requeues its task, and its finally block removes the worktree
  afterwards, by path: an execution that was started meanwhile loses its directory.
* **A parent may stay blocked for good** (`parent_closes`). The parent's change is
  saved by a call nobody waits for; after a crash the children are done, the parent
  is blocked, and nothing looks at it again.
* **A repeated delivery stops the retries of a failed dispatch** (`bridge_retry`).
  Its record is relabelled duplicate, which the pump does not pick up.
* **The end of a task may never be posted** (`final_is_told`). The notifier notes the
  status after the send, not the one it sent.

`PROJECT.json` quotes the lines on both sides. Further things the models show,
which no document denies: with three tasks and a limit of two, the overlap of
executions also lets three executions run at once (the set of running ids loses
the entry of the second with the first); a bridge record saved as processing is never
picked up again after a restart; a queued child that is cancelled leaves its parent blocked.

## 6. Not modelled

In the orchestrator: the order in which overlapping saves reach the file; work item claims and
notes, which are single assignments; task assistance and memory hints; `TASK_RECOVER_ON_STARTUP=false`.
In the notifier: the extra saves of `initialize` are one step, and a task that vanished from the
orchestrator's file. In the bridge: several records saved with one time stamp are dispatched in the
order they were made. In the sessions: compaction of a long transcript, and the contents of logs and
contexts. Rendering, chunking and mapping of chat payloads, the parsing of HTTP requests and of
`gh` and `git` output, memory files, health, diagnostics, security checks and the CLI are input, output or
formatting around calls of the modelled components and keep no state of their own.
Components of `PROJECT.json` marked `not_modelled` carry their reason.

Behaviour that the models allow, no document denies and the properties therefore exclude or leave open:

* A message dropped from a full queue, or by an abort or a stop, leaves its caller waiting
  (`CallsSettle` counts it as lost). An operator's call over HTTP then never gets its answer.
* A session answers later messages through the callbacks of the first, into the first thread.
* A session made while the socket of its predecessor closes loses its own socket with it (`raced`).
* An attempt of a completion that fails leaves its turn behind; the next one sends the
  text again, so that it is worked on twice.
* When the socket of a completion breaks before its first answer, promises that nobody awaits yet are
  rejected with it (`failPending`, `engine/session.ts:144`), which ends the process as any unhandled rejection does;
  `EngineTurns` has the attempt fail and goes on.
* A turn's process that exits with 0 after its timeout or an abort counts as an answer.
* When tracking a task fails after it was submitted, the user is told that the dispatch failed while the task
  runs, and its thread gets no updates (`Tracked`).
* Two saves of the registry that overlap may leave a file that reads as empty (`tangled`); so does a start that
  cannot read the file, which saves an empty one over it. The outbox does the same, which its model leaves out.
* A session whose socket cannot be opened stays in the table; later calls use it, and it never gets a socket (`mute`).
* A message that is delivered again after its window is worked on again.
* Subscribers that came by way of the control socket are forgotten with the socket of the session they
  subscribed to, and never hear the end of its turn, although their connection lives.
* A commit, branch or pull request of an earlier execution counts for a later one, as long as the head of the pull request matches.
* An alias whose link is found dangling gets no new one until it is set again or its session's socket is opened again (`lost`).
* A submission whose save fails leaves its task queued in memory, and nothing pumps it until something else does:
  `QueuedSettles` is about executions without failing saves, repairs and requests.
* An agent that is disabled while a reconcile starts it goes on running (`overtaken`).
* An incident file that a crash left torn, and a manifest that is not JSON, are not modelled; nor are the update and rollback
  scripts under `bin/`, which move the links of `ReleaseManager`.
* A change request on a pull request that was superseded by a later review still counts until it is dismissed.
* Sweeps may remove the directory of an execution that starts while they look (`late`).

## 7. Plan

Order of the work, most important first; done items are marked.

1. `TransportOutbox` with `DurableDelivery`; invariants and step simulation proved. **Done.**
2. `TaskOrchestrator`; all invariants proved. **Done.**
3. `BridgeSupervisor`; all its invariants proved. **Done.**
4. `TaskNotifier`, `TaskNotifierProofs`; all its invariants proved. **Done.**
5. `ChatSessions`, with `EngineTurns`, `SessionAliases` and `InboundEvents` around it; all their invariants
   proved. **Done**; to state: a serial server that settles every request once,
   which the sessions implement while nothing overflows or is aborted.
6. `ReleaseManager`, `RepoRegistry`, both proved. **Done.**
7. `AgentLifecycle` with the watchdog, proved. **Done.**
8. `TaskCompletion`, `WorkerSweeps`, both proved. **Done.**
9. `TaskFile`: the saves of `persist` that overlap, composed with the tasks' versions:
   what a restart may find.
10. Properties for the hazards of `PROJECT.json` that have none: a queued child that is cancelled, a bridge
   record saved as processing, the bindings the notifier drops at a restart, the callbacks a session keeps.
