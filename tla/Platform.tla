------------------------------ MODULE Platform ------------------------------
(***************************************************************************)
(* The components that share no state with one another, side by side: a    *)
(* step of the platform is a step of one of them.  Where two of them have  *)
(* a variable of the same name, it has a longer name here.                 *)
(***************************************************************************)
EXTENDS Naturals

CONSTANTS
  Releases, NoRelease, Mode,                        \* of ReleaseManager
  Calls,                                            \* of ReleaseManager and RepoRegistry
  Ids,                                              \* of RepoRegistry
  Slots, Scans, MaxCalls, MaxCrashes,               \* of AgentLifecycle
  Tasks,                                            \* of AgentLifecycle and WorkerSweeps
  Sweeps, Maintenance, Retains,                     \* of WorkerSweeps
  MaxRuns, Policies, Settings, Objectable,          \* of TaskCompletion
  Keys, Aliases, Ops, None,                         \* of SessionAliases
  MaxAttempts, MaxConns, MaxTurns,                  \* of EngineTurns
  Events, Deliveries, Setups, Text, Window, SessionWindow, MaxTime, Never  \* of InboundEvents

VARIABLES
  tree, current, previous, releaseCalls, releaseUp, releaseDisturbed,
  entry, agentFile, agentCalls, served, agentUp, initialized, running, agent, agentSeen,
  scans, failing, lines, escalations, crashes, doubled, overtaken,
  repos, registryFile, tmp, exists, saves, acked, tangled,
  workerStatus, path, workerStep, dirs, live, sweeps, stopping, late, requested,
  settings, policy, status, escalated, cancelRequested, runs, step, branch, pr, commits,
  summary, output, context, hub, objections, standing, blind,
  table, aliasFile, links, sessions, sockets, files, ops, lost, disturbed,
  attempt, conns, at, heard, commands, replies, serving, subscribed, turns, waiting, turn,
  last, clearing, sent, answer,
  setup, now, guard, seen, deliveries, tasks, bound, taken, again

releases   == <<tree, current, previous, releaseCalls, releaseUp, releaseDisturbed>>
agents     == <<entry, agentFile, agentCalls, served, agentUp, initialized, running, agent, agentSeen,
                scans, failing, lines, escalations, crashes, doubled, overtaken>>
registry   == <<repos, registryFile, tmp, exists, saves, acked, tangled>>
workers    == <<workerStatus, path, workerStep, dirs, live, sweeps, stopping, late, requested>>
completion == <<settings, policy, status, escalated, cancelRequested, runs, step, branch, pr, commits,
                summary, output, context, hub, objections, standing, blind>>
names      == <<table, aliasFile, links, sessions, sockets, files, ops, lost, disturbed>>
engine     == <<attempt, conns, at, heard, commands, replies, serving, subscribed, turns, waiting, turn,
                last, clearing, sent, answer>>
inbound    == <<setup, now, guard, seen, deliveries, tasks, bound, taken, again>>
vars == <<releases, agents, registry, workers, completion, names, engine, inbound>>

R == INSTANCE ReleaseManager WITH
       calls <- releaseCalls, up <- releaseUp, disturbed <- releaseDisturbed
A == INSTANCE AgentLifecycle WITH
       file <- agentFile, calls <- agentCalls, up <- agentUp, seen <- agentSeen, escalated <- escalations
G == INSTANCE RepoRegistry WITH file <- registryFile
W == INSTANCE WorkerSweeps WITH status <- workerStatus, step <- workerStep
T == INSTANCE TaskCompletion
S == INSTANCE SessionAliases WITH file <- aliasFile
E == INSTANCE EngineTurns
I == INSTANCE InboundEvents

(* What is none is no name, no key and no time; the bounds are numbers; policies, settings *)
(* and texts are what the configuration and a chat can hold.                               *)
ASSUME NameAssumption ==
  /\ NoRelease \notin Releases /\ None \notin Keys \cup Aliases /\ Never \notin Nat
  /\ Ids \subseteq Nat /\ Maintenance \in Sweeps
ASSUME BoundAssumption ==
  /\ MaxCalls \in Nat /\ MaxCrashes \in Nat /\ MaxRuns \in Nat
  /\ MaxAttempts \in Nat \ {0} /\ MaxConns \in Nat /\ MaxTurns \in Nat
  /\ Window \in Nat /\ SessionWindow \in Nat /\ MaxTime \in Nat
ASSUME SettingAssumption ==
  /\ Settings \subseteq [commit : BOOLEAN, pr : BOOLEAN]
  /\ Policies \subseteq [verified : BOOLEAN, required : SUBSET T!Kinds, target : BOOLEAN]
  /\ Setups \subseteq [provider : {"legacy", "chat_sdk", "dual"}, shadow : BOOLEAN,
                       mode : {"session", "task", "hybrid"}, verified : BOOLEAN]
  /\ Text \in [Events -> [directive : {"task", "session", I!Unset}, body : {"talk", "command", "empty"},
                          intent : I!Intents, cue : BOOLEAN]]

Init == R!Init /\ A!Init /\ G!Init /\ W!Init /\ T!Init /\ S!Init /\ E!Init /\ I!Init

Releasing   == R!Next /\ UNCHANGED <<agents, registry, workers, completion, names, engine, inbound>>
Supervising == A!Next /\ UNCHANGED <<releases, registry, workers, completion, names, engine, inbound>>
Registering == G!Next /\ UNCHANGED <<releases, agents, workers, completion, names, engine, inbound>>
Sweeping    == W!Next /\ UNCHANGED <<releases, agents, registry, completion, names, engine, inbound>>
Completing  == T!Next /\ UNCHANGED <<releases, agents, registry, workers, names, engine, inbound>>
Naming      == S!Next /\ UNCHANGED <<releases, agents, registry, workers, completion, engine, inbound>>
Talking     == E!Next /\ UNCHANGED <<releases, agents, registry, workers, completion, names, inbound>>
Receiving   == I!Next /\ UNCHANGED <<releases, agents, registry, workers, completion, names, engine>>

Next == Releasing \/ Supervising \/ Registering \/ Sweeping \/ Completing \/ Naming \/ Talking \/ Receiving

Spec == Init /\ [][Next]_vars
------------------------------------------------------------------------------
(* Each component's property, stated in its module.                        *)

(* Both links name installed releases; rollback leads to another one. *)
RollbackLeadsElsewhere == R!RollbackLeadsElsewhere
(* The watchdog escalates a task once. *)
EscalatedOnce == A!EscalatedOnce
(* The watchdog runs only while it is wanted. *)
RunningIsWanted == A!RunningIsWanted
(* A restart finds the registry as it was saved. *)
RegistrySurvives == G!RegistrySurvives
(* No sweep takes the session or the directory from a worker. *)
SweepsSpareWorkers == W!SweepsSpareWorkers
(* A task that is done has what it requires, and its pull request counts for its branch. *)
DoneIsVerified == T!DoneIsVerified
(* The links lead from the aliases to their sessions. *)
AliasesFollow == S!AliasesFollow
(* A completion returns no answer older than its own turn. *)
NothingOlder == E!NothingOlder
(* An event is acted upon once within the window. *)
TakenOnce == I!TakenOnce
=============================================================================
