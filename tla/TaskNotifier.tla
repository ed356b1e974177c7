----------------------------- MODULE TaskNotifier -----------------------------
(***************************************************************************)
(* The notifier that posts the progress of a task to the chat thread it    *)
(* came from (src/control/task-update-notifier.ts), with the file of its   *)
(* bindings (src/control/store.ts): lifecycle events and polls that ask    *)
(* for the same update, statuses that change while an update is sent, and  *)
(* edits of the file that read it, change it and write it back in place,   *)
(* each while others do the same.                                          *)
(*                                                                         *)
(* The tasks are those of the orchestrator, seen through their statuses.   *)
(* There is no clock: the interval between polls may be shorter than a     *)
(* send takes, so polls overlap and one may reach any task at any time.    *)
(***************************************************************************)
EXTENDS Naturals, FiniteSets

CONSTANTS
  Tasks,
  MaxChanges,  \* bound: changes of the status of one task
  MaxTroubles  \* bound: failed sends, failed edits and ends of the process, together

ASSUME BoundAssumption == MaxChanges \in Nat /\ MaxTroubles \in Nat

VARIABLES
  process,    \* "down", "starting" and "pruned" (initialize), "up", "stopping"
  sender,     \* the transport has registered its sender
  status,     \* the status of each task, "absent" before it is submitted
  bindings,   \* this.bindings: the status a thread was last told, "none", or "unbound"
  publishing, \* where publish waits for a task in inFlight, and what it sends
  edits,      \* edits of the file under way: by publish and by track, per task
  file,       \* the bindings in the file, as last written in full
  written,    \* "good", or what is there cannot be parsed: "empty", "mixed"
  tracked,    \* history: tasks that were bound to a thread
  told,       \* history: the status a thread heard last
  tellings,   \* history: updates posted per task
  overtaken,  \* history: tasks whose status changed during a send
  collided,   \* history: edits of the file overlapped
  changes, sendFaults, fileFaults, crashes

memoryVars == <<bindings, publishing, edits>>
fileVars == <<file, written>>
historyVars == <<tracked, told, tellings, overtaken, collided>>
countVars == <<changes, sendFaults, fileFaults, crashes>>
vars == <<process, sender, status, memoryVars, fileVars, historyVars, countVars>>

Statuses == {"queued", "running", "blocked", "done", "failed", "cancelled"}
Terminal == {"done", "failed", "cancelled"}
Tracked == Statuses \ {"queued"}
Told == Statuses \cup {"none"}
Tables == [Tasks -> Told \cup {"unbound"}]

Nothing == [t \in Tasks |-> "unbound"]

Publishings == [at : {"idle", "sending", "saving", "removing"}, text : Told]
Idle == [at |-> "idle", text |-> "none"]

(* An edit reads the file, truncates it, and writes it. *)
Editors == {"publish", "track"} \X Tasks
Edits == [at : {"none", "reading", "opening", "writing"}, of : Tasks,
          to : Told \cup {"unbound"}, table : Tables]

NoEdit(e) == [at |-> "none", of |-> e[2], to |-> "none", table |-> Nothing]

TypeOK ==
  /\ process \in {"down", "starting", "pruned", "up", "stopping"}
  /\ sender \in BOOLEAN
  /\ status \in [Tasks -> Statuses \cup {"absent"}]
  /\ bindings \in Tables
  /\ publishing \in [Tasks -> Publishings]
  /\ \A t \in Tasks : publishing[t].at \in {"sending", "saving"} => bindings[t] # "unbound"
  /\ edits \in [Editors -> Edits]
  /\ file \in Tables
  /\ written \in {"good", "empty", "mixed"}
  /\ tracked \in SUBSET Tasks
  /\ told \in [Tasks -> Told]
  /\ tellings \in [Tasks -> Nat]
  /\ overtaken \in SUBSET Tasks
  /\ collided \in BOOLEAN
  /\ changes \in [Tasks -> 0..MaxChanges]
  /\ sendFaults \in Nat /\ fileFaults \in Nat /\ crashes \in Nat

Init ==
  /\ process = "down"
  /\ sender = FALSE
  /\ status = [t \in Tasks |-> "absent"]
  /\ bindings = Nothing
  /\ publishing = [t \in Tasks |-> Idle]
  /\ edits = [e \in Editors |-> NoEdit(e)]
  /\ file = Nothing /\ written = "good"
  /\ tracked = {}
  /\ told = [t \in Tasks |-> "none"]
  /\ tellings = [t \in Tasks |-> 0]
  /\ overtaken = {} /\ collided = FALSE
  /\ changes = [t \in Tasks |-> 0]
  /\ sendFaults = 0 /\ fileFaults = 0 /\ crashes = 0

MoreTrouble == sendFaults + fileFaults + crashes < MaxTroubles

------------------------------------------------------------------------------
(* The file. *)

(* readTaskBindings: a file that cannot be parsed reads as no bindings. *)
InFile == IF written = "good" THEN file ELSE Nothing

Editing(e) == edits[e].at # "none"

(* The edit of a binding is under way; that it meets another is remembered. *)
EditBegins(e, to) ==
  /\ edits' = [edits EXCEPT ![e] = [NoEdit(e) EXCEPT !.at = "reading", !.to = to]]
  /\ collided' = (collided \/ \E other \in Editors \ {e} : Editing(other))

RemovesNothing(e) == edits[e].to = "unbound" /\ InFile[e[2]] = "unbound"

EditReads(e) ==
  /\ edits[e].at = "reading" /\ ~RemovesNothing(e)
  /\ edits' = [edits EXCEPT ![e].at = "opening", ![e].table = [InFile EXCEPT ![e[2]] = edits[e].to]]
  /\ UNCHANGED <<process, sender, status, bindings, publishing, fileVars, historyVars, countVars>>

(* writeFile truncates the file before it writes. *)
EditOpens(e) ==
  /\ edits[e].at = "opening"
  /\ written' = "empty"
  /\ edits' = [edits EXCEPT ![e].at = "writing"]
  /\ UNCHANGED <<process, sender, status, bindings, publishing, file, historyVars, countVars>>

(* Mutants: a task that is over is unbound in memory only; it stays in inFlight as well. *)
EditEndsUnsaved(e) ==
  LET t == e[2]
      over == e[1] = "publish" /\ publishing[t].at = "saving" /\ status[t] \in Terminal
  IN /\ bindings' = IF over THEN [bindings EXCEPT ![t] = "unbound"] ELSE bindings
     /\ publishing' = IF e[1] = "publish" THEN [publishing EXCEPT ![t] = Idle] ELSE publishing
     /\ edits' = [edits EXCEPT ![e] = NoEdit(e)]
     /\ UNCHANGED collided
EditEndsHeld(e) ==
  LET t == e[2]
      over == e[1] = "publish" /\ publishing[t].at = "saving" /\ status[t] \in Terminal
  IN /\ bindings' = IF over THEN [bindings EXCEPT ![t] = "unbound"] ELSE bindings
     /\ edits' = [edits EXCEPT ![e] = NoEdit(e)]
     /\ UNCHANGED <<publishing, collided>>

(* What publish does when its edit has ended: a bound task that is over is unbound. *)
EditEnds(e) ==
  LET t == e[2] IN
  IF e[1] = "publish" /\ publishing[t].at = "saving" /\ status[t] \in Terminal
  THEN /\ bindings' = [bindings EXCEPT ![t] = "unbound"]
       /\ publishing' = [publishing EXCEPT ![t].at = "removing"]
       /\ EditBegins(e, "unbound")
  ELSE /\ edits' = [edits EXCEPT ![e] = NoEdit(e)]
       /\ publishing' = IF e[1] = "publish" THEN [publishing EXCEPT ![t] = Idle] ELSE publishing
       /\ UNCHANGED <<bindings, collided>>

editFrame == <<process, sender, status, tracked, told, tellings, overtaken, changes, sendFaults, crashes>>

(* The file may hold what another edit wrote after this one truncated it: if that was longer, its tail stays. *)
EditWrites(e) ==
  /\ edits[e].at = "writing"
  /\ file' = edits[e].table
  /\ written' \in (IF written = "empty" THEN {"good"} ELSE {"good", "mixed"})
  /\ EditEnds(e)
  /\ UNCHANGED <<editFrame, fileFaults>>

(* removeTaskBinding writes nothing when the binding was not there. *)
NothingToRemove(e) ==
  /\ edits[e].at = "reading" /\ RemovesNothing(e)
  /\ EditEnds(e)
  /\ UNCHANGED <<editFrame, fileVars, fileFaults>>

(* The directory or the file cannot be written.  publish gives up until it is called *)
(* again; track gives its caller the error.                                          *)
EditFails(e) ==
  /\ edits[e].at \in {"opening", "writing"}
  /\ MoreTrouble
  /\ fileFaults' = fileFaults + 1
  /\ edits' = [edits EXCEPT ![e] = NoEdit(e)]
  /\ publishing' = IF e[1] = "publish" THEN [publishing EXCEPT ![e[2]] = Idle] ELSE publishing
  /\ UNCHANGED <<editFrame, bindings, collided, fileVars>>

------------------------------------------------------------------------------
(* publish. *)

Publishable(t) ==
  /\ process = "up"
  /\ publishing[t].at = "idle"
  /\ bindings[t] # "unbound"

(* Mutant: any task that is over is unbound without a word. *)
OverAny(t, now) == now \in Terminal

(* The last word on the task has been said. *)
Over(t, now) == now \in Terminal /\ bindings[t] = now

(* publish up to its first await, when the status of t is now. *)
Publish(t, now) ==
  \/ /\ Publishable(t) /\ Over(t, now)
     /\ bindings' = [bindings EXCEPT ![t] = "unbound"]
     /\ publishing' = [publishing EXCEPT ![t].at = "removing"]
     /\ EditBegins(<<"publish", t>>, "unbound")
  \/ /\ Publishable(t) /\ now \in Tracked /\ bindings[t] # now /\ ~Over(t, now) /\ sender
     /\ publishing' = [publishing EXCEPT ![t] = [at |-> "sending", text |-> now]]
     /\ UNCHANGED <<bindings, edits, collided>>

(* An event or a poll has nothing to publish. *)
NothingToPublish(t, now) ==
  /\ Publishable(t) => /\ ~Over(t, now)
                        /\ now \in Tracked /\ sender => bindings[t] = now
  /\ UNCHANGED <<bindings, publishing, edits, collided>>

(* A poll reaches t. *)
Poll(t) ==
  /\ Publish(t, status[t])
  /\ UNCHANGED <<process, sender, status, fileVars, tracked, told, tellings, overtaken, countVars>>

(* Mutant: what was sent before is forgotten. *)
SendSucceedsUnnoted(t) ==
  /\ publishing[t].at = "sending"
  /\ told' = [told EXCEPT ![t] = publishing[t].text]
  /\ tellings' = [tellings EXCEPT ![t] = @ + 1]
  /\ publishing' = [publishing EXCEPT ![t] = [at |-> "saving", text |-> "none"]]
  /\ EditBegins(<<"publish", t>>, status[t])
  /\ UNCHANGED <<process, sender, status, bindings, fileVars, tracked, overtaken, countVars>>

(* The sender has taken the update; what is noted is the status of now. *)
SendSucceeds(t) ==
  /\ publishing[t].at = "sending"
  /\ told' = [told EXCEPT ![t] = publishing[t].text]
  /\ tellings' = [tellings EXCEPT ![t] = @ + 1]
  /\ bindings' = [bindings EXCEPT ![t] = status[t]]
  /\ publishing' = [publishing EXCEPT ![t] = [at |-> "saving", text |-> "none"]]
  /\ EditBegins(<<"publish", t>>, status[t])
  /\ UNCHANGED <<process, sender, status, fileVars, tracked, overtaken, countVars>>

(* Mutant: a failure is noted like a success. *)
SendFailsNoted(t) ==
  /\ publishing[t].at = "sending"
  /\ MoreTrouble
  /\ sendFaults' = sendFaults + 1
  /\ bindings' = [bindings EXCEPT ![t] = status[t]]
  /\ publishing' = [publishing EXCEPT ![t] = Idle]
  /\ UNCHANGED <<process, sender, status, edits, fileVars, historyVars, changes, fileFaults, crashes>>

SendFails(t) ==
  /\ publishing[t].at = "sending"
  /\ MoreTrouble
  /\ sendFaults' = sendFaults + 1
  /\ publishing' = [publishing EXCEPT ![t] = Idle]
  /\ UNCHANGED <<process, sender, status, bindings, edits, fileVars, historyVars,
                 changes, fileFaults, crashes>>

------------------------------------------------------------------------------
(* The tasks, seen from outside. *)

AllowedTransitions ==
  [queued    |-> {"running", "cancelled"},
   running   |-> {"queued", "done", "failed", "blocked", "cancelled"},
   blocked   |-> {"queued", "failed", "done"},
   done      |-> {"queued", "blocked", "failed"},
   failed    |-> {"queued", "blocked", "done"},
   cancelled |-> {"queued"},
   absent    |-> {}]

(* A message from a chat makes a task. *)
Submit(t) ==
  /\ process = "up" /\ sender
  /\ status[t] = "absent"
  /\ status' = [status EXCEPT ![t] = "queued"]
  /\ UNCHANGED <<process, sender, memoryVars, fileVars, historyVars, countVars>>

(* track, once the submission is answered. *)
Track(t) ==
  /\ process = "up"
  /\ status[t] # "absent" /\ t \notin tracked
  /\ tracked' = tracked \cup {t}
  /\ bindings' = [bindings EXCEPT ![t] = "none"]
  /\ EditBegins(<<"track", t>>, "none")
  /\ UNCHANGED <<process, sender, status, publishing, fileVars, told, tellings, overtaken, countVars>>

(* transitionTask tells its listeners at once; the notifier listens while it is up. *)
Move(t, to) ==
  /\ process # "down"
  /\ changes[t] < MaxChanges
  /\ to \in AllowedTransitions[status[t]]
  /\ changes' = [changes EXCEPT ![t] = @ + 1]
  /\ status' = [status EXCEPT ![t] = to]
  /\ overtaken' = IF publishing[t].at \in {"sending", "saving"} THEN overtaken \cup {t} ELSE overtaken
  /\ Publish(t, to) \/ NothingToPublish(t, to)
  /\ UNCHANGED <<process, sender, fileVars, tracked, told, tellings, sendFaults, fileFaults, crashes>>

------------------------------------------------------------------------------
(* The process. *)

(* The orchestrator has loaded its tasks, and queued those that were running. *)
Starts ==
  /\ process = "down"
  /\ process' = "starting"
  /\ status' = [t \in Tasks |-> IF status[t] = "running" THEN "queued" ELSE status[t]]
  /\ UNCHANGED <<sender, memoryVars, fileVars, historyVars, countVars>>

(* initialize first prunes the bindings of tasks that are over; the file is truncated. *)
Prunes ==
  LET pruned == [t \in Tasks |-> IF status[t] \in Terminal \cup {"absent"} THEN "unbound" ELSE InFile[t]]
  IN /\ process = "starting"
     /\ process' = "pruned"
     /\ bindings' = pruned
     /\ IF pruned = InFile THEN UNCHANGED fileVars
        ELSE file' = pruned /\ written' = "empty"
     /\ UNCHANGED <<sender, status, publishing, edits, historyVars, countVars>>

(* Then it writes the rest, forgets a status that is not the task's, and subscribes. *)
Initialize ==
  LET reset == [t \in Tasks |-> IF bindings[t] \in {"unbound", status[t]} THEN bindings[t] ELSE "none"]
  IN /\ process = "pruned"
     /\ process' = "up"
     /\ bindings' = reset
     /\ file' = reset
     /\ written' = "good"
     /\ UNCHANGED <<sender, status, publishing, edits, historyVars, countVars>>

TransportStarts ==
  /\ process = "up" /\ ~sender
  /\ sender' = TRUE
  /\ UNCHANGED <<process, status, memoryVars, fileVars, historyVars, countVars>>

Stop ==
  /\ process = "up"
  /\ MoreTrouble
  /\ process' = "stopping"
  /\ UNCHANGED <<sender, status, memoryVars, fileVars, historyVars, countVars>>

(* The process ends: memory goes, the file stays as it is. *)
Crash ==
  /\ process # "down"
  /\ MoreTrouble
  /\ process' = "down"
  /\ crashes' = crashes + 1
  /\ sender' = FALSE
  /\ bindings' = Nothing
  /\ publishing' = [t \in Tasks |-> Idle]
  /\ edits' = [e \in Editors |-> NoEdit(e)]
  /\ UNCHANGED <<status, fileVars, historyVars, changes, sendFaults, fileFaults>>

------------------------------------------------------------------------------
Next ==
  \/ Starts \/ Prunes \/ Initialize \/ TransportStarts \/ Stop \/ Crash
  \/ \E t \in Tasks : Submit(t) \/ Track(t) \/ (\E to \in Statuses : Move(t, to))
  \/ \E t \in Tasks : Poll(t) \/ SendSucceeds(t) \/ SendFails(t)
  \/ \E e \in Editors :
       EditReads(e) \/ EditOpens(e) \/ EditWrites(e) \/ NothingToRemove(e) \/ EditFails(e)

Spec == Init /\ [][Next]_vars

(* The service manager restarts the process, the timer polls, sends and edits answer. *)
Fairness ==
  /\ WF_vars(Starts) /\ WF_vars(Prunes) /\ WF_vars(Initialize) /\ WF_vars(TransportStarts)
  /\ \A t \in Tasks : WF_vars(Poll(t)) /\ WF_vars(SendSucceeds(t) \/ SendFails(t))
  /\ \A e \in Editors :
       WF_vars(EditReads(e) \/ EditOpens(e) \/ EditWrites(e) \/ NothingToRemove(e) \/ EditFails(e))

FairSpec == Spec /\ Fairness

------------------------------------------------------------------------------
(* Properties. *)

(* Events and polls that race for the same update post it once: a thread gets
   no more updates than its task had changes, and one more per restart, which
   may forget the last. *)
NoRepeatedUpdate == \A t \in Tasks : tellings[t] <= changes[t] + crashes

(* In a life of the process, a thread is given up only after it heard how its
   task ended, unless the task changed while an update was under way. *)
UnboundWasTold ==
  process = "up" /\ crashes = 0 =>
    \A t \in tracked \ overtaken : bindings[t] = "unbound" => told[t] \in Terminal

(* When all edits of the file have ended and none met another or failed, the
   file holds what the notifier remembers: a restart takes it up from there. *)
FileFollows ==
  process = "up" /\ ~collided /\ fileFaults = 0 /\ (\A e \in Editors : ~Editing(e)) =>
    InFile = bindings

(* Every status a tracked task stays in reaches its thread, whatever event was
   dropped because the task was in flight, not yet bound or without a sender,
   and whatever send or edit failed; a restart or an overtaken update is excluded. *)
UpdatesFlow ==
  \A t \in Tasks : \A s \in Tracked :
    (bindings[t] # "unbound" /\ status[t] = s) ~>
      (told[t] = s \/ status[t] # s \/ t \in overtaken \/ process = "stopping" \/ crashes > 0)

------------------------------------------------------------------------------
(* control/daemon.ts answers a message that made a task with "I will post
   progress and final artifacts in this thread". *)
FinalIsTold ==
  process = "up" /\ crashes = 0 =>
    \A t \in tracked : bindings[t] = "unbound" => told[t] \in Terminal

==============================================================================
