--------------------------- MODULE AgentLifecycle ---------------------------
(***************************************************************************)
(* The one agent an operator can manage, the watchdog: its desired state   *)
(* and the calls that change it (src/runtime/agent-manager.ts), the        *)
(* service (src/runtime/watchdog-service.ts), and the scans that report a  *)
(* task that needs a human (src/orchestration/sentry-agent.ts).            *)
(*                                                                         *)
(* Calls arrive over HTTP and may overlap; the first start of the service  *)
(* reads the incidents of earlier runs, and only that and the writing of   *)
(* files make a call wait.  An incident that cannot be written ends the    *)
(* process: nobody catches what a scan throws.                             *)
(***************************************************************************)
EXTENDS Naturals

CONSTANTS
  Slots,       \* bound: calls under way at a time
  Scans,       \* bound: scans under way at a time
  Tasks,
  MaxCalls,    \* bound: calls
  MaxCrashes   \* bound: ends of the process

VARIABLES
  entry,       \* AgentLifecycleManager.state for the watchdog
  file,        \* agents/state.json, as a restart would read it
  calls,       \* each call under way: its action, where it waits, and the entry it holds
  served,      \* calls so far
  up,          \* "booting" until the first reconcile is done, "serving", or "down"
  initialized, running, \* of WatchdogService
  agent,       \* WatchdogService.agent: the call that made it, or NoSlot
  seen,        \* SentryAgent.seen of the agent that each call made
  scans,       \* each scan: where it waits, its task, its agent, the tasks it still looks at
  failing,     \* tasks that are failed or blocked and need a human
  lines,       \* lines in the file of incidents, per task
  escalated,   \* history: escalations, per task
  crashes,
  doubled,     \* history: two initialisations overlapped
  overtaken    \* history: a reconcile started an agent nobody wanted any more

wishes == <<entry, file>>
service == <<initialized, running, agent>>
sentry == <<seen, scans, lines, escalated>>
vars == <<wishes, calls, served, up, service, sentry, failing, crashes, doubled, overtaken>>

NoSlot == "none"
Entry == SUBSET {"installed", "enabled", "autostart"}
Default == {"installed", "enabled", "autostart"}
Torn == Default     \* what a file that cannot be parsed stands for
Actions == {"install", "uninstall", "enable", "disable", "autostart_on", "autostart_off", "start", "stop"}

NoCall == [action |-> "none", at |-> "none", entry |-> Default]
NoScan == [at |-> "idle", task |-> NoSlot, by |-> NoSlot, left |-> {}]

TypeOK ==
  /\ entry \in Entry /\ file \in Entry
  /\ calls \in [Slots -> [action : Actions \cup {"reconcile", "none"},
                          at : {"none", "loading", "saving"}, entry : Entry]]
  /\ served \in 0..MaxCalls /\ up \in {"booting", "serving", "down"}
  /\ initialized \in BOOLEAN /\ running \in BOOLEAN
  /\ agent \in Slots \cup {NoSlot}
  /\ seen \in [Slots -> SUBSET Tasks]
  /\ scans \in [Scans -> {NoScan} \cup [at : {"appending", "escalating"}, task : Tasks,
                                        by : Slots, left : SUBSET Tasks]]
  /\ failing \in SUBSET Tasks
  /\ lines \in [Tasks -> Nat] /\ escalated \in [Tasks -> Nat]
  /\ crashes \in 0..MaxCrashes
  /\ doubled \in BOOLEAN /\ overtaken \in BOOLEAN

Init ==
  /\ entry = Default /\ file = Torn
  /\ calls = [c \in Slots |-> NoCall] /\ served = 0 /\ up = "down"
  /\ initialized = FALSE /\ running = FALSE /\ agent = NoSlot
  /\ seen = [c \in Slots |-> {}]
  /\ scans = [s \in Scans |-> NoScan]
  /\ failing = {}
  /\ lines = [t \in Tasks |-> 0] /\ escalated = [t \in Tasks |-> 0]
  /\ crashes = 0 /\ doubled = FALSE /\ overtaken = FALSE

------------------------------------------------------------------------------
(* The scans. *)

(* scan of agent a, from its start or from its last task on: the next task among left that *)
(* it has not seen.                                                                        *)
MarksNothing(t, a) == seen      \* Mutant: a task that is being reported is not marked
Marks(t, a) == [seen EXCEPT ![a] = @ \cup {t}]

Goes(s, a, left) ==
  LET new == left \ seen[a] IN
  IF new = {} THEN scans' = [scans EXCEPT ![s] = NoScan] /\ UNCHANGED seen
  ELSE \E t \in new :
         /\ scans' = [scans EXCEPT ![s] = [at |-> "appending", task |-> t, by |-> a, left |-> left \ {t}]]
         /\ seen' = Marks(t, a)

ScanBegins(s) ==
  /\ running /\ scans[s] = NoScan /\ failing \ seen[agent] # {}
  /\ Goes(s, agent, failing)
  /\ UNCHANGED <<wishes, calls, served, up, service, lines, escalated, failing, crashes, doubled, overtaken>>

(* appendIncident is done, and the escalation is called. *)
Appended(s) ==
  /\ scans[s].at = "appending"
  /\ lines' = [lines EXCEPT ![scans[s].task] = @ + 1]
  /\ escalated' = [escalated EXCEPT ![scans[s].task] = @ + 1]
  /\ scans' = [scans EXCEPT ![s].at = "escalating"]
  /\ UNCHANGED <<wishes, calls, served, up, service, seen, failing, crashes, doubled, overtaken>>

Escalated(s) ==
  /\ scans[s].at = "escalating"
  /\ Goes(s, scans[s].by, scans[s].left)
  /\ UNCHANGED <<wishes, calls, served, up, service, lines, escalated, failing, crashes, doubled, overtaken>>

TaskFails(t) ==
  /\ t \notin failing
  /\ failing' = failing \cup {t}
  /\ UNCHANGED <<wishes, calls, served, up, service, sentry, crashes, doubled, overtaken>>

------------------------------------------------------------------------------
(* The calls. *)

Changed(e, action) ==
  CASE action = "install" -> e \cup {"installed"}
    [] action = "uninstall" -> {}
    [] action = "enable" -> e \cup {"enabled"}
    [] action = "disable" -> e \ {"enabled", "autostart"}
    [] action = "autostart_on" -> Default
    [] action = "autostart_off" -> e \ {"autostart"}
    [] action = "start" -> e \cup {"installed", "enabled"}
    [] action = "stop" -> e

ShouldRun == entry = Default

Arrives(c) ==
  /\ up = "serving" /\ calls[c] = NoCall /\ served < MaxCalls
  /\ served' = served + 1

(* persist: the file is opened, which empties it, and written with the entry of this call. *)
Saves(c, action, e) ==
  /\ entry' = e /\ file' = Torn
  /\ calls' = [calls EXCEPT ![c] = [action |-> action, at |-> "saving", entry |-> e]]

(* WatchdogService.start, called by c for the first time: a new agent reads its incidents. *)
Loads(c, action, e) ==
  /\ calls' = [calls EXCEPT ![c] = [action |-> action, at |-> "loading", entry |-> e]]
  /\ agent' = c
  /\ doubled' = (doubled \/ \E d \in Slots : calls[d].at = "loading")
  /\ UNCHANGED <<wishes, initialized, running>>

(* apply, when nothing has to be waited for before the new entry is saved. *)
StopsNever(action) == FALSE         \* Mutant: disable and uninstall leave the agent alone
Stops(action) == action \in {"uninstall", "disable", "stop"}

Apply(c, action) ==
  /\ Arrives(c)
  /\ action = "start" => initialized
  /\ Saves(c, action, Changed(entry, action))
  /\ running' = IF action = "start" THEN TRUE ELSE running /\ ~Stops(action)
  /\ UNCHANGED <<up, initialized, agent, sentry, failing, crashes, doubled, overtaken>>

ApplyFirstStart(c) ==
  /\ Arrives(c) /\ ~initialized
  /\ Loads(c, "start", Changed(entry, "start"))
  /\ UNCHANGED <<up, sentry, failing, crashes, overtaken>>

(* reconcile: starts or stops the agent, and writes nothing. *)
Reconcile(c) ==
  /\ IF ShouldRun /\ ~running /\ ~initialized
     THEN Loads(c, "reconcile", entry)
     ELSE running' = ShouldRun /\ UNCHANGED <<wishes, calls, initialized, agent, doubled>>

ReconcileCall(c) ==
  /\ Arrives(c) /\ Reconcile(c)
  /\ UNCHANGED <<up, sentry, failing, crashes, overtaken>>

(* SentryAgent.initialize: the tasks that have a line in the file were reported. *)
Reported == {t \in Tasks : lines[t] > 0}

(* The incidents are read: the service runs the agent it has by now. *)
Loaded(c) ==
  /\ calls[c].at = "loading"
  /\ seen' = [seen EXCEPT ![c] = @ \cup Reported]
  /\ initialized' = TRUE /\ running' = TRUE
  /\ IF calls[c].action = "start"
     THEN Saves(c, "start", calls[c].entry) /\ UNCHANGED <<up, overtaken>>
     ELSE /\ calls' = [calls EXCEPT ![c] = NoCall]
          /\ up' = "serving"
          /\ overtaken' = (overtaken \/ ~ShouldRun)
          /\ UNCHANGED wishes
  /\ UNCHANGED <<served, agent, scans, lines, escalated, failing, crashes, doubled>>

(* The write is done, or fails and leaves part of the text; so do two that overlap. *)
SaveEnds(c) ==
  /\ calls[c].at = "saving"
  /\ calls' = [calls EXCEPT ![c] = NoCall]
  /\ \/ file' = calls[c].entry
     \/ file' = Torn
  /\ UNCHANGED <<entry, served, up, service, sentry, failing, crashes, doubled, overtaken>>

------------------------------------------------------------------------------
(* The process ends: an incident that was being written is in the file or not. *)
Crash ==
  /\ up # "down" /\ crashes < MaxCrashes
  /\ up' = "down" /\ crashes' = crashes + 1
  /\ calls' = [c \in Slots |-> NoCall]
  /\ initialized' = FALSE /\ running' = FALSE /\ agent' = NoSlot
  /\ seen' = [c \in Slots |-> {}]
  /\ scans' = [s \in Scans |-> NoScan]
  /\ \E written \in SUBSET {s \in Scans : scans[s].at = "appending"} :
       lines' = [t \in Tasks |->
         IF \E s \in written : scans[s].task = t THEN lines[t] + 1 ELSE lines[t]]
  /\ UNCHANGED <<wishes, served, escalated, failing, doubled, overtaken>>

(* initialize: the entry of the file, or the default; then the first reconcile, which ends *)
(* before the first call can arrive.                                                       *)
Boot(c) ==
  /\ up = "down"
  /\ entry' = file
  /\ IF file = Default
     THEN /\ calls' = [calls EXCEPT ![c] = [action |-> "reconcile", at |-> "loading", entry |-> file]]
          /\ agent' = c /\ up' = "booting"
     ELSE up' = "serving" /\ UNCHANGED <<calls, agent>>
  /\ UNCHANGED <<file, served, initialized, running, sentry, failing, crashes, doubled, overtaken>>

(* The entry cannot be written back: the process ends, and may leave part of the text. *)
BootFails ==
  /\ up = "down"
  /\ file' = Torn
  /\ UNCHANGED <<entry, calls, served, up, service, sentry, failing, crashes, doubled, overtaken>>

Next ==
  \/ \E s \in Scans : ScanBegins(s) \/ Appended(s) \/ Escalated(s)
  \/ \E t \in Tasks : TaskFails(t)
  \/ \E c \in Slots :
       \/ \E action \in Actions : Apply(c, action)
       \/ ApplyFirstStart(c) \/ ReconcileCall(c) \/ Loaded(c) \/ SaveEnds(c) \/ Boot(c)
  \/ Crash \/ BootFails

Spec == Init /\ [][Next]_vars
------------------------------------------------------------------------------
(* A task is escalated at most once and listed at most once, however scans overlap, the    *)
(* service is stopped and started, and the process ends; unless two first starts of the    *)
(* service overlapped (sentry-agent.ts scan, watchdog-service.ts initialize).              *)
EscalatedOnce == ~doubled => \A t \in Tasks : lines[t] <= 1 /\ escalated[t] <= lines[t]

(* The watchdog only runs while it is installed and enabled, unless it was disabled while  *)
(* a reconcile was starting it (agent-manager.ts apply, reconcile).                        *)
RunningIsWanted == running /\ ~overtaken => {"installed", "enabled"} \subseteq entry
=============================================================================
