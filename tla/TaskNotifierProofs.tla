-------------------------- MODULE TaskNotifierProofs --------------------------
(***************************************************************************)
(* Theorems of TaskNotifier for any tasks and bounds: its types, that no   *)
(* update is posted twice, that a thread is told how its task ended before *)
(* it is given up, and that the file follows what the notifier remembers.  *)
(***************************************************************************)
EXTENDS TaskNotifier, TLAPS

(* There is a change, or a restart, that t's thread has not heard of yet. *)
Slack(t) == tellings[t] + 1 <= changes[t] + crashes

(* Whoever may start or is in a send of t has such a change to tell. *)
Accounted(t) ==
  /\ tellings[t] <= changes[t] + crashes
  /\ status[t] \notin {"absent", "queued"} => changes[t] >= 1
  /\ publishing[t].at = "sending" => Slack(t)
  /\ bindings[t] # "unbound" /\ bindings[t] # status[t] /\ status[t] \in Tracked => Slack(t)
  /\ process \notin {"up", "stopping"} => Slack(t) \/ tellings[t] = 0

(* A task that was never bound to a thread is nowhere. *)
Unknown(t) ==
  /\ t \notin tracked =>
       /\ tellings[t] = 0
       /\ bindings[t] = "unbound" /\ file[t] = "unbound"
       /\ \A e \in Editors : edits[e].table[t] = "unbound"
  /\ t \in tracked => status[t] # "absent"
  /\ \A e \in Editors : e[2] = t /\ Editing(e) => t \in tracked

(* Nothing is under way before the notifier is initialized. *)
BootIsQuiet ==
  process \notin {"up", "stopping"} =>
    /\ \A t \in Tasks : publishing[t] = Idle
    /\ \A e \in Editors : ~Editing(e)

IInv ==
  /\ TypeOK
  /\ BootIsQuiet
  /\ \A t \in Tasks : Accounted(t) /\ Unknown(t)

------------------------------------------------------------------------------
LEMMA FileType == ASSUME TypeOK PROVE InFile \in Tables
BY DEF TypeOK, InFile, Nothing, Tables

LEMMA EditType ==
  ASSUME NEW e \in Editors, NEW to \in Told \cup {"unbound"}
  PROVE  /\ NoEdit(e) \in Edits
         /\ [NoEdit(e) EXCEPT !.at = "reading", !.to = to] \in Edits
         /\ [NoEdit(e) EXCEPT !.at = "reading", !.to = to].table = Nothing
         /\ [NoEdit(e) EXCEPT !.at = "reading", !.to = to].at = "reading"
         /\ [NoEdit(e) EXCEPT !.at = "reading", !.to = to].to = to
         /\ NoEdit(e).table = Nothing /\ NoEdit(e).at = "none"
<1>1. Nothing \in Tables /\ e[2] \in Tasks
  BY DEF Nothing, Tables, Editors
<1> QED
  BY <1>1 DEF NoEdit, Edits, Told

LEMMA InitIInv == ASSUME Init PROVE IInv
<1>1. TypeOK
  <2>1. \A e \in Editors : NoEdit(e) \in Edits
    BY EditType DEF Told
  <2>2. edits \in [Editors -> Edits]
    BY <2>1 DEF Init
  <2>3. Nothing \in Tables /\ Idle \in Publishings /\ "none" \in Told
    BY DEF Nothing, Tables, Publishings, Idle, Told
  <2>4. publishing \in [Tasks -> Publishings] /\ \A t \in Tasks : publishing[t].at = "idle"
    BY <2>3 DEF Init, Idle
  <2>5. changes \in [Tasks -> 0..MaxChanges]
    BY BoundAssumption DEF Init
  <2> QED
    BY <2>2, <2>3, <2>4, <2>5 DEF Init, TypeOK
<1>2. \A t \in Tasks : Accounted(t)
  BY DEF Init, Accounted, Idle, Nothing, Slack
<1>3. \A t \in Tasks : Unknown(t)
  BY DEF Init, Unknown, NoEdit, Nothing, Editing
<1>4. BootIsQuiet
  BY DEF Init, BootIsQuiet, NoEdit, Editing
<1> QED
  BY <1>1, <1>2, <1>3, <1>4 DEF IInv

(* An edit that begins leaves the others alone, and has read nothing yet. *)
LEMMA BeginsEffect ==
  ASSUME IInv, NEW e \in Editors, NEW to \in Told \cup {"unbound"}, EditBegins(e, to)
  PROVE  /\ edits' \in [Editors -> Edits]
         /\ collided' \in BOOLEAN
         /\ \A d \in Editors : d # e => edits'[d] = edits[d]
         /\ edits'[e].table = Nothing
BY EditType DEF IInv, TypeOK, EditBegins

(* The actions of the process. *)
LEMMA StartsInv == ASSUME IInv, Starts PROVE IInv'
<1> USE DEF memoryVars, fileVars, historyVars, countVars
<1>1. TypeOK'
  BY DEF IInv, TypeOK, Starts, Statuses
<1>2. BootIsQuiet'
  BY DEF IInv, BootIsQuiet, Starts, Editing
<1>3. ASSUME NEW t \in Tasks PROVE Accounted(t)' /\ Unknown(t)'
  <2>1. Accounted(t)'
    BY DEF IInv, TypeOK, Accounted, Starts, Slack, Tracked, Statuses
  <2>2. Unknown(t)'
    BY DEF IInv, TypeOK, Unknown, Starts, Editing
  <2> QED BY <2>1, <2>2
<1> QED BY <1>1, <1>2, <1>3 DEF IInv

LEMMA PrunesInv == ASSUME IInv, Prunes PROVE IInv'
<1> USE DEF memoryVars, fileVars, historyVars, countVars
<1> DEFINE pruned == [t \in Tasks |-> IF status[t] \in Terminal \cup {"absent"} THEN "unbound" ELSE InFile[t]]
<1>1. InFile \in Tables /\ pruned \in Tables
  BY FileType DEF IInv, Tables
<1>2. bindings' = pruned /\ file' \in {file, pruned} /\ process = "starting" /\ process' = "pruned"
  BY DEF Prunes
<1>3. TypeOK'
  BY <1>1, <1>2 DEF IInv, TypeOK, Prunes, BootIsQuiet, Idle
<1>4. BootIsQuiet'
  BY <1>2 DEF IInv, BootIsQuiet, Prunes, Editing
<1>5. ASSUME NEW t \in Tasks PROVE Accounted(t)' /\ Unknown(t)'
  <2>1. Slack(t) \/ tellings[t] = 0
    BY <1>2 DEF IInv, Accounted
  <2>2. status[t] \in Tracked => changes[t] >= 1
    BY DEF IInv, Accounted, Tracked, Statuses
  <2>3. Accounted(t)'
    BY <1>2, <2>1, <2>2 DEF IInv, TypeOK, Accounted, Prunes, Slack, BootIsQuiet, Idle
  <2>4. t \notin tracked => pruned[t] = "unbound" /\ file[t] = "unbound"
    BY DEF IInv, Unknown, InFile, Nothing
  <2>5. Unknown(t)'
    BY <1>2, <2>4 DEF IInv, Unknown, Prunes, Editing
  <2> QED BY <2>3, <2>5
<1> QED BY <1>3, <1>4, <1>5 DEF IInv

LEMMA InitializeInv == ASSUME IInv, Initialize PROVE IInv'
<1> USE DEF memoryVars, fileVars, historyVars, countVars
<1> DEFINE reset == [t \in Tasks |-> IF bindings[t] \in {"unbound", status[t]} THEN bindings[t] ELSE "none"]
<1>1. reset \in Tables
  BY DEF IInv, TypeOK, Tables, Told
<1>2. bindings' = reset /\ file' = reset /\ process = "pruned" /\ process' = "up"
  BY DEF Initialize
<1>3. TypeOK'
  BY <1>1, <1>2 DEF IInv, TypeOK, Initialize, BootIsQuiet, Idle
<1>4. BootIsQuiet'
  BY <1>2 DEF BootIsQuiet
<1>5. ASSUME NEW t \in Tasks PROVE Accounted(t)' /\ Unknown(t)'
  <2>1. Slack(t) \/ tellings[t] = 0
    BY <1>2 DEF IInv, Accounted
  <2>2. status[t] \in Tracked => changes[t] >= 1
    BY DEF IInv, Accounted, Tracked, Statuses
  <2>3. Accounted(t)'
    BY <1>2, <2>1, <2>2 DEF IInv, TypeOK, Accounted, Initialize, Slack, BootIsQuiet, Idle
  <2>4. Unknown(t)'
    BY <1>2 DEF IInv, Unknown, Initialize, Editing
  <2> QED BY <2>3, <2>4
<1> QED BY <1>3, <1>4, <1>5 DEF IInv

LEMMA CrashInv == ASSUME IInv, Crash PROVE IInv'
<1> USE DEF fileVars, historyVars
<1>1. TypeOK'
  <2>1. \A e \in Editors : NoEdit(e) \in Edits
    BY EditType DEF Told
  <2>2. edits' \in [Editors -> Edits]
    BY <2>1 DEF Crash
  <2>3. Nothing \in Tables /\ publishing' \in [Tasks -> Publishings] /\ \A t \in Tasks : publishing'[t].at = "idle"
    BY DEF Crash, Nothing, Tables, Publishings, Idle, Told
  <2>4. bindings' \in Tables /\ crashes' \in Nat /\ process' = "down" /\ sender' = FALSE
    BY <2>3 DEF IInv, TypeOK, Crash
  <2>5. UNCHANGED <<status, file, written, tracked, told, tellings, overtaken, collided, changes, sendFaults, fileFaults>>
    BY DEF Crash
  <2> QED BY <2>2, <2>3, <2>4, <2>5 DEF IInv, TypeOK
<1>2. BootIsQuiet'
  BY DEF Crash, BootIsQuiet, Editing, NoEdit
<1>3. ASSUME NEW t \in Tasks PROVE Accounted(t)' /\ Unknown(t)'
  <2>1. Slack(t)'
    BY DEF IInv, TypeOK, Accounted, Crash, Slack
  <2>2. Accounted(t)'
    BY <2>1 DEF IInv, TypeOK, Accounted, Crash, Slack, Nothing, Idle
  <2>3. Unknown(t)'
    BY DEF IInv, Unknown, Crash, Nothing, NoEdit, Editing
  <2> QED BY <2>2, <2>3
<1> QED BY <1>1, <1>2, <1>3 DEF IInv

LEMMA ProcessInv == ASSUME IInv, Stop \/ TransportStarts PROVE IInv'
<1> USE DEF memoryVars, fileVars, historyVars, countVars
<1>1. TypeOK' /\ BootIsQuiet'
  BY DEF IInv, TypeOK, BootIsQuiet, Stop, TransportStarts, Editing
<1>2. ASSUME NEW t \in Tasks PROVE Accounted(t)' /\ Unknown(t)'
  BY DEF IInv, Accounted, Slack, Unknown, Stop, TransportStarts, Editing
<1> QED BY <1>1, <1>2 DEF IInv

------------------------------------------------------------------------------
(* publish up to its first await changes what the notifier knows of one bound task. *)
LEMMA PublishEffect ==
  ASSUME IInv, NEW t \in Tasks, NEW now, Publish(t, now) \/ NothingToPublish(t, now)
  PROVE  /\ bindings' \in Tables /\ publishing' \in [Tasks -> Publishings]
         /\ edits' \in [Editors -> Edits] /\ collided' \in BOOLEAN
         /\ \A u \in Tasks : publishing'[u].at \in {"sending", "saving"} => bindings'[u] # "unbound"
         /\ \A u \in Tasks \ {t} : bindings'[u] = bindings[u] /\ publishing'[u] = publishing[u]
         /\ bindings'[t] \in {bindings[t], "unbound"}
         /\ publishing'[t].at = "sending" =>
              publishing[t].at = "sending" \/ (now \in Tracked /\ bindings[t] \notin {now, "unbound"})
         /\ \A e \in Editors : edits'[e] = edits[e]
                             \/ (e[2] = t /\ t \in tracked /\ edits'[e].table = Nothing)
         /\ process # "up" => UNCHANGED <<bindings, publishing, edits, collided>>
<1> DEFINE mine == <<"publish", t>>
<1>1. CASE NothingToPublish(t, now)
  <2>1. bindings' = bindings /\ publishing' = publishing /\ edits' = edits /\ collided' = collided
    BY <1>1 DEF NothingToPublish
  <2>2. /\ bindings \in Tables /\ publishing \in [Tasks -> Publishings]
        /\ edits \in [Editors -> Edits] /\ collided \in BOOLEAN
        /\ \A u \in Tasks : publishing[u].at \in {"sending", "saving"} => bindings[u] # "unbound"
    BY DEF IInv, TypeOK
  <2> QED
    BY <2>1, <2>2
<1>2. CASE /\ Publishable(t) /\ Over(t, now)
           /\ bindings' = [bindings EXCEPT ![t] = "unbound"]
           /\ publishing' = [publishing EXCEPT ![t].at = "removing"]
           /\ EditBegins(mine, "unbound")
  <2>1. mine \in Editors /\ mine[2] = t
    BY DEF Editors
  <2>2. /\ edits' \in [Editors -> Edits] /\ collided' \in BOOLEAN
        /\ \A d \in Editors : d # mine => edits'[d] = edits[d]
        /\ edits'[mine].table = Nothing
    BY <1>2, <2>1, BeginsEffect
  <2>3. t \in tracked /\ process = "up"
    BY <1>2 DEF IInv, Unknown, Publishable
  <2>4. bindings' \in Tables /\ publishing' \in [Tasks -> Publishings]
    BY <1>2 DEF IInv, TypeOK, Tables, Publishings
  <2>5. publishing'[t].at = "removing" /\ bindings'[t] = "unbound"
    BY <1>2 DEF IInv, TypeOK, Tables, Publishings
  <2>6. \A u \in Tasks \ {t} : bindings'[u] = bindings[u] /\ publishing'[u] = publishing[u]
    BY <1>2 DEF IInv, TypeOK, Tables
  <2>7. \A u \in Tasks : publishing'[u].at \in {"sending", "saving"} => bindings'[u] # "unbound"
    BY <2>5, <2>6 DEF IInv, TypeOK
  <2>8. \A e \in Editors : edits'[e] = edits[e] \/ (e[2] = t /\ t \in tracked /\ edits'[e].table = Nothing)
    BY <2>1, <2>2, <2>3
  <2> HIDE DEF mine
  <2> QED
    BY <2>2, <2>3, <2>4, <2>5, <2>6, <2>7, <2>8
<1>3. CASE /\ Publishable(t) /\ now \in Tracked /\ bindings[t] # now /\ ~Over(t, now) /\ sender
           /\ publishing' = [publishing EXCEPT ![t] = [at |-> "sending", text |-> now]]
           /\ UNCHANGED <<bindings, edits, collided>>
  <2>1. publishing' \in [Tasks -> Publishings]
    BY <1>3 DEF IInv, TypeOK, Publishings, Tracked, Told
  <2>2. publishing'[t].at = "sending" /\ bindings[t] \notin {now, "unbound"} /\ process = "up"
    BY <1>3 DEF IInv, TypeOK, Publishable
  <2>3. \A u \in Tasks \ {t} : bindings'[u] = bindings[u] /\ publishing'[u] = publishing[u]
    BY <1>3 DEF IInv, TypeOK
  <2>4. bindings' = bindings /\ edits' = edits /\ collided' = collided /\ now \in Tracked
    BY <1>3
  <2>5. /\ bindings \in Tables /\ edits \in [Editors -> Edits] /\ collided \in BOOLEAN
        /\ \A u \in Tasks : publishing[u].at \in {"sending", "saving"} => bindings[u] # "unbound"
    BY DEF IInv, TypeOK
  <2> QED
    BY <2>1, <2>2, <2>3, <2>4, <2>5
<1> QED
  BY <1>1, <1>2, <1>3 DEF Publish

LEMMA SubmitInv == ASSUME IInv, NEW t \in Tasks, Submit(t) PROVE IInv'
<1> USE DEF memoryVars, fileVars, historyVars, countVars
<1>1. TypeOK'
  BY DEF IInv, TypeOK, Submit, Statuses
<1>2. BootIsQuiet'
  BY DEF IInv, BootIsQuiet, Submit, Editing
<1>3. ASSUME NEW u \in Tasks PROVE Accounted(u)' /\ Unknown(u)'
  <2>1. Accounted(u)'
    BY DEF IInv, TypeOK, Accounted, Submit, Slack, Tracked
  <2>2. Unknown(u)'
    BY DEF IInv, TypeOK, Unknown, Submit, Editing
  <2> QED BY <2>1, <2>2
<1> QED BY <1>1, <1>2, <1>3 DEF IInv

LEMMA TrackInv == ASSUME IInv, NEW t \in Tasks, Track(t) PROVE IInv'
<1> USE DEF fileVars, countVars
<1> DEFINE mine == <<"track", t>>
<1>1. mine \in Editors /\ mine[2] = t /\ "none" \in Told
  BY DEF Editors, Told
<1>2. /\ edits' \in [Editors -> Edits] /\ collided' \in BOOLEAN
      /\ \A d \in Editors : d # mine => edits'[d] = edits[d]
      /\ edits'[mine].table = Nothing
  BY <1>1, BeginsEffect DEF Track
<1>3. bindings' \in Tables /\ bindings'[t] = "none" /\ \A u \in Tasks \ {t} : bindings'[u] = bindings[u]
  BY <1>1 DEF IInv, TypeOK, Track, Tables
<1>4. TypeOK'
  BY <1>2, <1>3 DEF IInv, TypeOK, Track
<1>5. BootIsQuiet'
  BY DEF BootIsQuiet, Track
<1>6. ASSUME NEW u \in Tasks PROVE Accounted(u)' /\ Unknown(u)'
  <2>1. Slack(t) \/ status[t] \notin Tracked
    BY DEF IInv, TypeOK, Accounted, Unknown, Track, Slack, Tracked, Statuses
  <2>2. Accounted(u)'
    BY <1>3, <2>1 DEF IInv, Accounted, Track, Slack
  <2>3. Unknown(u)'
    <3>1. u \notin tracked' => u # t /\ u \notin tracked
      BY DEF Track
    <3>2. u \notin tracked' => \A e \in Editors : edits'[e].table[u] = "unbound"
      BY <1>1, <1>2, <3>1 DEF IInv, Unknown, Nothing
    <3>3. u \in tracked' => status'[u] # "absent"
      BY DEF IInv, Unknown, Track
    <3>4. \A e \in Editors : e[2] = u /\ Editing(e)' => u \in tracked'
      BY <1>1, <1>2 DEF IInv, Unknown, Editing, Track
    <3> QED BY <1>3, <3>1, <3>2, <3>3, <3>4 DEF IInv, Unknown, Track
  <2> QED BY <2>2, <2>3
<1> QED BY <1>4, <1>5, <1>6 DEF IInv

LEMMA MoveInv == ASSUME IInv, NEW t \in Tasks, NEW to \in Statuses, Move(t, to) PROVE IInv'
<1> USE DEF fileVars
<1>1. Publish(t, to) \/ NothingToPublish(t, to)
  BY DEF Move
<1>2. /\ process' = process /\ sender' = sender /\ file' = file /\ written' = written
      /\ tracked' = tracked /\ told' = told /\ tellings' = tellings /\ sendFaults' = sendFaults
      /\ fileFaults' = fileFaults /\ crashes' = crashes
  BY DEF Move
<1>3. /\ changes' \in [Tasks -> 0..MaxChanges] /\ changes'[t] = changes[t] + 1
      /\ status' \in [Tasks -> Statuses \cup {"absent"}] /\ status'[t] = to /\ status[t] # "absent"
      /\ \A u \in Tasks \ {t} : changes'[u] = changes[u] /\ status'[u] = status[u]
      /\ overtaken' \in SUBSET Tasks
  <2>1. changes[t] + 1 \in 0..MaxChanges
    BY BoundAssumption DEF IInv, TypeOK, Move
  <2>2. status[t] # "absent"
    BY DEF Move, AllowedTransitions
  <2> QED BY <2>1, <2>2 DEF IInv, TypeOK, Move
<1>4. TypeOK'
  BY <1>1, <1>2, <1>3, PublishEffect DEF IInv, TypeOK
<1>5. BootIsQuiet'
  BY <1>1, <1>2, PublishEffect DEF IInv, BootIsQuiet, Editing
<1>6. ASSUME NEW u \in Tasks PROVE Accounted(u)' /\ Unknown(u)'
  <2>1. Accounted(u)'
    <3>1. CASE u = t
      BY <1>2, <1>3, <3>1 DEF IInv, TypeOK, Accounted, Slack
    <3>2. CASE u # t
      BY <1>1, <1>2, <1>3, <3>2, PublishEffect DEF IInv, Accounted, Slack
    <3> QED BY <3>1, <3>2
  <2>2. Unknown(u)'
    <3>1. Unknown(u)
      BY DEF IInv
    <3>2. \A e \in Editors : edits'[e] = edits[e]
                           \/ (e[2] = t /\ t \in tracked /\ edits'[e].table = Nothing)
      BY <1>1, PublishEffect
    <3>3. u \notin tracked => \A e \in Editors : edits'[e].table[u] = "unbound"
      BY <3>1, <3>2 DEF Unknown, Nothing
    <3>4. u \notin tracked => bindings'[u] = "unbound"
      BY <1>1, <3>1, PublishEffect DEF Unknown
    <3>5. \A e \in Editors : e[2] = u /\ Editing(e)' => u \in tracked
      BY <3>1, <3>2 DEF Unknown, Editing
    <3>6. u \in tracked => status'[u] # "absent"
      BY <1>3, <3>1 DEF Unknown, Statuses
    <3> QED BY <1>2, <3>1, <3>3, <3>4, <3>5, <3>6 DEF Unknown
  <2> QED BY <2>1, <2>2
<1> QED BY <1>4, <1>5, <1>6 DEF IInv

LEMMA PollInv == ASSUME IInv, NEW t \in Tasks, Poll(t) PROVE IInv'
<1> USE DEF fileVars, countVars
<1>1. Publish(t, status[t])
  BY DEF Poll
<1>2. TypeOK'
  BY <1>1, PublishEffect DEF IInv, TypeOK, Poll
<1>3. BootIsQuiet'
  BY <1>1, PublishEffect DEF IInv, BootIsQuiet, Editing, Poll
<1>4. ASSUME NEW u \in Tasks PROVE Accounted(u)' /\ Unknown(u)'
  <2>1. publishing'[u].at = "sending" => Slack(u)
    BY <1>1, PublishEffect DEF IInv, Accounted
  <2>2. Accounted(u)'
    BY <1>1, <2>1, PublishEffect DEF IInv, Accounted, Slack, Poll
  <2>3. Unknown(u)'
    BY <1>1, PublishEffect DEF IInv, Unknown, Editing, Nothing, Poll
  <2> QED BY <2>2, <2>3
<1> QED BY <1>2, <1>3, <1>4 DEF IInv

LEMMA SendSucceedsInv == ASSUME IInv, NEW t \in Tasks, SendSucceeds(t) PROVE IInv'
<1> USE DEF fileVars, countVars
<1> DEFINE mine == <<"publish", t>>
<1>1. bindings[t] # "unbound" /\ t \in tracked /\ status[t] \in Statuses /\ publishing[t].at = "sending"
  BY DEF IInv, TypeOK, Unknown, SendSucceeds
<1>2. mine \in Editors /\ mine[2] = t /\ status[t] \in Told
  BY <1>1 DEF Editors, Told
<1>3. /\ edits' \in [Editors -> Edits] /\ collided' \in BOOLEAN
      /\ \A d \in Editors : d # mine => edits'[d] = edits[d]
      /\ edits'[mine].table = Nothing
  BY <1>2, BeginsEffect DEF SendSucceeds
<1>4. bindings' \in Tables /\ bindings'[t] = status[t] /\ \A u \in Tasks \ {t} : bindings'[u] = bindings[u]
  BY <1>2 DEF IInv, TypeOK, SendSucceeds, Tables
<1>5. /\ publishing' \in [Tasks -> Publishings] /\ publishing'[t].at = "saving"
      /\ \A u \in Tasks \ {t} : publishing'[u] = publishing[u]
  BY DEF IInv, TypeOK, SendSucceeds, Publishings, Told
<1>6. /\ told' \in [Tasks -> Told] /\ tellings' \in [Tasks -> Nat] /\ tellings'[t] = tellings[t] + 1
      /\ \A u \in Tasks \ {t} : tellings'[u] = tellings[u]
  BY DEF IInv, TypeOK, SendSucceeds, Publishings
<1>7. UNCHANGED <<process, sender, status, file, written, tracked, overtaken, changes, sendFaults, fileFaults, crashes>>
  BY DEF SendSucceeds
<1>8. TypeOK'
  <2>1. \A u \in Tasks : publishing'[u].at \in {"sending", "saving"} => bindings'[u] # "unbound"
    BY <1>1, <1>4, <1>5 DEF IInv, TypeOK, Statuses
  <2> QED BY <2>1, <1>3, <1>4, <1>5, <1>6, <1>7 DEF IInv, TypeOK
<1>9. process \in {"up", "stopping"}
  BY <1>1 DEF IInv, BootIsQuiet, Idle
<1>10. ASSUME NEW u \in Tasks PROVE Accounted(u)' /\ Unknown(u)'
  <2>1. CASE u = t
    <3>1. Slack(t) /\ (status[t] \notin {"absent", "queued"} => changes[t] >= 1)
      BY <1>1 DEF IInv, Accounted
    <3>2. Accounted(t)'
      BY <1>4, <1>5, <1>6, <1>7, <1>9, <3>1 DEF Accounted, Slack
    <3>3. Unknown(t)'
      BY <1>1, <1>7 DEF Unknown, Statuses
    <3> QED BY <2>1, <3>2, <3>3
  <2>2. CASE u # t
    <3>1. Accounted(u) /\ Unknown(u)
      BY DEF IInv
    <3>2. Accounted(u)'
      BY <1>4, <1>5, <1>6, <1>7, <2>2, <3>1 DEF Accounted, Slack
    <3>3. Unknown(u)'
      BY <1>2, <1>3, <1>4, <1>6, <1>7, <2>2, <3>1 DEF Unknown, Editing, Nothing
    <3> QED BY <3>2, <3>3
  <2> QED BY <2>1, <2>2
<1> QED BY <1>8, <1>9, <1>7, <1>10 DEF IInv, BootIsQuiet

LEMMA SendFailsInv == ASSUME IInv, NEW t \in Tasks, SendFails(t) PROVE IInv'
<1> USE DEF fileVars, historyVars
<1>1. /\ publishing' \in [Tasks -> Publishings] /\ publishing'[t] = Idle
      /\ \A u \in Tasks \ {t} : publishing'[u] = publishing[u]
  BY DEF IInv, TypeOK, SendFails, Publishings, Idle, Told
<1>2. TypeOK'
  BY <1>1 DEF IInv, TypeOK, SendFails, Idle
<1>3. BootIsQuiet'
  BY <1>1 DEF IInv, BootIsQuiet, SendFails, Editing
<1>4. ASSUME NEW u \in Tasks PROVE Accounted(u)' /\ Unknown(u)'
  <2>1. Accounted(u)'
    BY <1>1 DEF IInv, Accounted, SendFails, Slack, Idle
  <2>2. Unknown(u)'
    BY DEF IInv, Unknown, SendFails, Editing
  <2> QED BY <2>1, <2>2
<1> QED BY <1>2, <1>3, <1>4 DEF IInv

------------------------------------------------------------------------------
(* The steps of an edit; an edit that is under way is one of a bound task. *)
LEMMA EditReadsInv == ASSUME IInv, NEW e \in Editors, EditReads(e) PROVE IInv'
<1> USE DEF fileVars, historyVars, countVars
<1> DEFINE read == [InFile EXCEPT ![e[2]] = edits[e].to]
<1>1. e[2] \in Tasks /\ e[2] \in tracked
  BY DEF IInv, Unknown, EditReads, Editing, Editors
<1>2. read \in Tables
  BY <1>1, FileType DEF IInv, TypeOK, Edits, Tables
<1>3. /\ edits' \in [Editors -> Edits] /\ edits'[e].table = read
      /\ \A d \in Editors \ {e} : edits'[d] = edits[d]
  BY <1>2 DEF IInv, TypeOK, Edits, EditReads
<1>4. TypeOK'
  BY <1>3 DEF IInv, TypeOK, EditReads
<1>5. BootIsQuiet'
  BY DEF IInv, BootIsQuiet, EditReads, Editing
<1>6. ASSUME NEW u \in Tasks PROVE Accounted(u)' /\ Unknown(u)'
  <2>1. Accounted(u)'
    BY DEF IInv, Accounted, EditReads, Slack
  <2>2. u \notin tracked => read[u] = "unbound"
    BY <1>1 DEF IInv, TypeOK, Unknown, InFile, Nothing, Tables
  <2>3. Unknown(u)'
    BY <1>1, <1>3, <2>2 DEF IInv, Unknown, EditReads, Editing
  <2> QED BY <2>1, <2>3
<1> QED BY <1>4, <1>5, <1>6 DEF IInv

LEMMA EditOpensInv == ASSUME IInv, NEW e \in Editors, EditOpens(e) PROVE IInv'
<1> USE DEF historyVars, countVars
<1>1. /\ edits' \in [Editors -> Edits] /\ \A d \in Editors : edits'[d].table = edits[d].table
      /\ \A d \in Editors \ {e} : edits'[d] = edits[d]
  BY DEF IInv, TypeOK, Edits, EditOpens
<1>2. TypeOK'
  BY <1>1 DEF IInv, TypeOK, EditOpens
<1>3. BootIsQuiet'
  BY DEF IInv, BootIsQuiet, EditOpens, Editing
<1>4. ASSUME NEW u \in Tasks PROVE Accounted(u)' /\ Unknown(u)'
  <2>1. Accounted(u)'
    BY DEF IInv, Accounted, EditOpens, Slack
  <2>2. Unknown(u)'
    BY <1>1 DEF IInv, Unknown, EditOpens, Editing
  <2> QED BY <2>1, <2>2
<1> QED BY <1>2, <1>3, <1>4 DEF IInv

(* What publish does after its edit touches only a bound task. *)
LEMMA EndsEffect ==
  ASSUME IInv, NEW e \in Editors, Editing(e),
         EditEnds(e) \/ (/\ edits' = [edits EXCEPT ![e] = NoEdit(e)]
                         /\ publishing' = IF e[1] = "publish" THEN [publishing EXCEPT ![e[2]] = Idle]
                                          ELSE publishing
                         /\ UNCHANGED <<bindings, collided>>)
  PROVE  /\ bindings' \in Tables /\ publishing' \in [Tasks -> Publishings]
         /\ edits' \in [Editors -> Edits] /\ collided' \in BOOLEAN
         /\ \A u \in Tasks : publishing'[u].at \in {"sending", "saving"} => bindings'[u] # "unbound"
         /\ \A u \in Tasks : bindings'[u] \in {bindings[u], "unbound"}
         /\ \A u \in Tasks : publishing'[u].at = "sending" => publishing[u].at = "sending"
         /\ \A d \in Editors : edits'[d] = edits[d]
                             \/ (edits'[d].table = Nothing /\ (~Editing(d)' \/ d[2] \in tracked))
         /\ process \in {"up", "stopping"}
<1> DEFINE t == e[2]
<1>1. t \in Tasks /\ t \in tracked /\ process \in {"up", "stopping"}
  BY DEF IInv, Unknown, Editors, BootIsQuiet
<1>2. CASE /\ edits' = [edits EXCEPT ![e] = NoEdit(e)]
           /\ publishing' = IF e[1] = "publish" THEN [publishing EXCEPT ![t] = Idle] ELSE publishing
           /\ UNCHANGED <<bindings, collided>>
  <2>1. NoEdit(e) \in Edits /\ NoEdit(e).table = Nothing /\ NoEdit(e).at = "none"
    BY EditType DEF Told
  <2>2. /\ edits' \in [Editors -> Edits]
        /\ \A d \in Editors : edits'[d] = edits[d] \/ (edits'[d].table = Nothing /\ ~Editing(d)')
    BY <1>2, <2>1 DEF IInv, TypeOK, Editing
  <2>3. Idle \in Publishings /\ Idle.at = "idle"
    BY DEF Idle, Publishings, Told
  <2>4. /\ publishing' \in [Tasks -> Publishings]
        /\ \A u \in Tasks : publishing'[u] \in {publishing[u], Idle}
    BY <1>1, <1>2, <2>3 DEF IInv, TypeOK
  <2>5. bindings' = bindings /\ collided' = collided
    BY <1>2
  <2>6. /\ bindings \in Tables /\ collided \in BOOLEAN
        /\ \A u \in Tasks : publishing[u].at \in {"sending", "saving"} => bindings[u] # "unbound"
    BY DEF IInv, TypeOK
  <2> QED
    BY <1>1, <2>2, <2>3, <2>4, <2>5, <2>6
<1>3. CASE /\ bindings' = [bindings EXCEPT ![t] = "unbound"]
           /\ publishing' = [publishing EXCEPT ![t].at = "removing"]
           /\ EditBegins(e, "unbound")
  <2>1. /\ edits' \in [Editors -> Edits] /\ collided' \in BOOLEAN
        /\ \A d \in Editors : d # e => edits'[d] = edits[d]
        /\ edits'[e].table = Nothing
    BY <1>3, BeginsEffect
  <2>2. /\ bindings' \in Tables /\ bindings'[t] = "unbound"
        /\ \A u \in Tasks \ {t} : bindings'[u] = bindings[u]
    BY <1>1, <1>3 DEF IInv, TypeOK, Tables
  <2>3. /\ publishing' \in [Tasks -> Publishings] /\ publishing'[t].at = "removing"
        /\ \A u \in Tasks \ {t} : publishing'[u] = publishing[u]
    BY <1>1, <1>3 DEF IInv, TypeOK, Publishings
  <2>4. \A u \in Tasks : publishing[u].at \in {"sending", "saving"} => bindings[u] # "unbound"
    BY DEF IInv, TypeOK
  <2> QED
    BY <1>1, <2>1, <2>2, <2>3, <2>4
<1> QED
  BY <1>2, <1>3 DEF EditEnds

(* The end of an edit, whatever it left in the file. *)
LEMMA EditEndsInv ==
  ASSUME IInv, NEW e \in Editors, EditWrites(e) \/ NothingToRemove(e) \/ EditFails(e)
  PROVE  IInv'
<1> USE DEF editFrame, fileVars
<1>1. /\ Editing(e)
      /\ EditEnds(e) \/ (/\ edits' = [edits EXCEPT ![e] = NoEdit(e)]
                         /\ publishing' = IF e[1] = "publish" THEN [publishing EXCEPT ![e[2]] = Idle]
                                          ELSE publishing
                         /\ UNCHANGED <<bindings, collided>>)
  BY DEF EditWrites, NothingToRemove, EditFails, Editing
<1>2. /\ file' \in {file, edits[e].table}
      /\ written' \in {"good", "mixed", written} /\ fileFaults' \in {fileFaults, fileFaults + 1}
      /\ UNCHANGED <<process, sender, status, tracked, told, tellings, overtaken, changes, sendFaults, crashes>>
  BY DEF EditWrites, NothingToRemove, EditFails
<1>3. TypeOK'
  <2>1. edits[e].table \in Tables
    BY DEF IInv, TypeOK, Edits
  <2> QED BY <1>1, <1>2, <2>1, EndsEffect DEF IInv, TypeOK
<1>4. BootIsQuiet'
  BY <1>1, <1>2, EndsEffect DEF BootIsQuiet
<1>5. ASSUME NEW u \in Tasks PROVE Accounted(u)' /\ Unknown(u)'
  <2>1. Accounted(u) /\ Unknown(u)
    BY DEF IInv
  <2>2. Accounted(u)'
    BY <1>1, <1>2, <2>1, EndsEffect DEF Accounted, Slack
  <2>3. Unknown(u)'
    BY <1>1, <1>2, <2>1, EndsEffect DEF Unknown, Editing, Nothing
  <2> QED BY <2>2, <2>3
<1> QED BY <1>3, <1>4, <1>5 DEF IInv

------------------------------------------------------------------------------
LEMMA NextIInv == ASSUME IInv, [Next]_vars PROVE IInv'
<1>1. CASE Next
  BY <1>1, StartsInv, PrunesInv, InitializeInv, CrashInv, ProcessInv, SubmitInv, TrackInv, MoveInv,
     PollInv, SendSucceedsInv, SendFailsInv, EditReadsInv, EditOpensInv, EditEndsInv
  DEF Next
<1>2. CASE UNCHANGED vars
  BY <1>2 DEF vars, memoryVars, fileVars, historyVars, countVars, IInv, TypeOK, BootIsQuiet,
     Accounted, Unknown, Slack, Editing
<1> QED BY <1>1, <1>2

(* The notifier's tables and its file stay well typed, and whoever is sending
   or saving an update of a task has it bound: publish and its callers race
   for inFlight (task-update-notifier.ts). *)
THEOREM TypeCorrect == Spec => []TypeOK
<1>1. IInv => TypeOK
  BY DEF IInv
<1> QED BY <1>1, InitIInv, NextIInv, PTL DEF Spec

(* A thread is told no more often than its task changed and the process ended:
   events, polls, failed sends and failed or overlapping edits of the file
   never make publish post the same update again. *)
THEOREM NoRepeats == Spec => []NoRepeatedUpdate
<1>1. IInv => NoRepeatedUpdate
  BY DEF IInv, Accounted, NoRepeatedUpdate
<1> QED BY <1>1, InitIInv, NextIInv, PTL DEF Spec

------------------------------------------------------------------------------
(* What the threads have heard, in the first life of the process. *)

(* Whatever is sent, noted or given up of t is what its thread heard, unless t changed meanwhile. *)
Heard(t) ==
  t \in tracked \ overtaken =>
    /\ bindings[t] = "unbound" => told[t] \in Terminal
    /\ bindings[t] \in Terminal => told[t] = bindings[t]
    /\ publishing[t].at = "sending" => publishing[t].text = status[t]
    /\ publishing[t].at = "saving" => bindings[t] = status[t]

FirstLife ==
  crashes = 0 =>
    /\ process \notin {"up", "stopping"} => tracked = {}
    /\ \A t \in Tasks : Heard(t)

(* A step that concerns no thread. *)
LEMMA HeardKept ==
  ASSUME FirstLife, NEW t \in Tasks, crashes = 0,
         t \in tracked' \ overtaken' => t \in tracked \ overtaken,
         UNCHANGED told, bindings'[t] = bindings[t] \/ (bindings'[t] = "unbound" /\ bindings[t] \in Terminal),
         publishing'[t].at = "sending" =>
           \/ publishing'[t] = publishing[t] /\ (t \in overtaken' \/ status'[t] = status[t])
           \/ publishing'[t].text = status'[t],
         publishing'[t].at = "saving" => 
           publishing[t].at = "saving" /\ bindings'[t] = bindings[t] /\ (t \in overtaken' \/ status'[t] = status[t])
  PROVE  Heard(t)'
BY DEF FirstLife, Heard, Terminal

LEMMA PublishHeard ==
  ASSUME IInv, FirstLife, crashes = 0, NEW t \in Tasks, NEW now \in Statuses,
         Publish(t, now) \/ NothingToPublish(t, now),
         UNCHANGED <<tracked, told>>, overtaken' \in SUBSET Tasks, overtaken \subseteq overtaken',
         \A u \in Tasks \ {t} : status'[u] = status[u], status'[t] = now,
         status[t] = now \/ publishing[t].at \notin {"sending", "saving"} \/ t \in overtaken'
  PROVE  \A u \in Tasks : Heard(u)'
<1> SUFFICES ASSUME NEW u \in Tasks PROVE Heard(u)'
  OBVIOUS
<1>1. CASE u # t
  BY <1>1, PublishEffect, HeardKept
<1>2. CASE u = t
  <2>1. \/ bindings'[t] = bindings[t] /\ publishing'[t] = publishing[t]
        \/ /\ bindings[t] = now /\ now \in Terminal /\ bindings'[t] = "unbound" /\ publishing'[t].at = "removing"
        \/ bindings'[t] = bindings[t] /\ publishing'[t] = [at |-> "sending", text |-> now]
    BY DEF IInv, TypeOK, Tables, Publishings, Publish, NothingToPublish, Over
  <2>2. CASE bindings'[t] = bindings[t] /\ publishing'[t] = publishing[t]
    BY <1>2, <2>2, HeardKept
  <2>3. CASE bindings[t] = now /\ now \in Terminal /\ bindings'[t] = "unbound" /\ publishing'[t].at = "removing"
    BY <1>2, <2>3, HeardKept
  <2>4. CASE bindings'[t] = bindings[t] /\ publishing'[t] = [at |-> "sending", text |-> now]
    <3>1. publishing'[t].at = "sending" /\ publishing'[t].text = now
      BY <2>4
    <3> QED BY <1>2, <2>4, <3>1, HeardKept
  <2> QED BY <2>1, <2>2, <2>3, <2>4
<1> QED BY <1>1, <1>2

LEMMA NextFirstLife == ASSUME IInv, FirstLife, [Next]_vars PROVE FirstLife'
<1> SUFFICES ASSUME crashes' = 0
             PROVE  /\ process' \notin {"up", "stopping"} => tracked' = {}
                    /\ \A t \in Tasks : Heard(t)'
  BY DEF FirstLife
<1> USE DEF fileVars, memoryVars, historyVars, countVars, editFrame
<1>1. CASE Starts \/ Prunes \/ Initialize
  <2>1. tracked' = {} /\ UNCHANGED crashes
    BY <1>1 DEF Starts, Prunes, Initialize, FirstLife
  <2> QED BY <2>1 DEF Heard
<1>2. CASE Crash
  BY <1>2 DEF Crash, IInv, TypeOK
<1>3. CASE Stop \/ TransportStarts
  BY <1>3 DEF Stop, TransportStarts, FirstLife, Heard
<1>4. ASSUME NEW t \in Tasks, Submit(t) PROVE FirstLife'
  <2>1. \A u \in Tasks \ {t} : status'[u] = status[u]
    BY <1>4 DEF Submit, IInv, TypeOK
  <2>2. t \notin tracked
    BY <1>4 DEF Submit, IInv, Unknown
  <2>3. UNCHANGED <<process, crashes, tracked, overtaken, told, bindings, publishing>>
    BY <1>4 DEF Submit
  <2> QED BY <2>1, <2>2, <2>3 DEF FirstLife, Heard
<1>5. ASSUME NEW t \in Tasks, Track(t) PROVE FirstLife'
  <2>1. bindings'[t] = "none" /\ \A u \in Tasks \ {t} : bindings'[u] = bindings[u]
    BY <1>5 DEF Track, IInv, TypeOK, Tables
  <2>2. publishing[t].at \notin {"sending", "saving"}
    BY <1>5 DEF Track, IInv, TypeOK, Unknown
  <2>3. process = "up" /\ tracked' = tracked \cup {t} /\ UNCHANGED <<process, crashes, overtaken, told, status, publishing>>
    BY <1>5 DEF Track
  <2> QED BY <2>1, <2>2, <2>3 DEF FirstLife, Heard, Terminal
<1>6. ASSUME NEW t \in Tasks, NEW to \in Statuses, Move(t, to) PROVE FirstLife'
  <2>1. /\ UNCHANGED <<process, crashes, tracked, told>>
        /\ status'[t] = to /\ \A u \in Tasks \ {t} : status'[u] = status[u]
        /\ overtaken \subseteq overtaken' /\ overtaken' \in SUBSET Tasks
        /\ publishing[t].at \in {"sending", "saving"} => t \in overtaken'
        /\ Publish(t, to) \/ NothingToPublish(t, to)
    BY <1>6 DEF Move, IInv, TypeOK
  <2>2. crashes = 0
    BY <2>1
  <2>3. \A u \in Tasks : Heard(u)'
    BY <2>1, <2>2, PublishHeard
  <2> QED BY <2>1, <2>3 DEF FirstLife
<1>7. ASSUME NEW t \in Tasks, Poll(t) PROVE FirstLife'
  <2>1. /\ UNCHANGED <<process, crashes, tracked, told, status, overtaken>>
        /\ Publish(t, status[t])
    BY <1>7 DEF Poll
  <2>2. crashes = 0 /\ overtaken \in SUBSET Tasks
    BY <2>1 DEF IInv, TypeOK
  <2>3. status[t] \in Statuses
    <3>1. bindings[t] # "unbound" => t \in tracked
      BY DEF IInv, Unknown
    <3>2. bindings[t] # "unbound"
      BY <2>1 DEF Publish, Publishable
    <3> QED BY <3>1, <3>2 DEF IInv, TypeOK, Unknown
  <2>4. \A u \in Tasks : Heard(u)'
    BY <2>1, <2>2, <2>3, PublishHeard
  <2> QED BY <2>1, <2>4 DEF FirstLife
<1>8. ASSUME NEW t \in Tasks, SendSucceeds(t) PROVE FirstLife'
  <2>1. /\ UNCHANGED <<process, crashes, tracked, status, overtaken>> /\ publishing[t].at = "sending"
        /\ told'[t] = publishing[t].text /\ \A u \in Tasks \ {t} : told'[u] = told[u]
        /\ bindings'[t] = status[t] /\ \A u \in Tasks \ {t} : bindings'[u] = bindings[u]
        /\ publishing'[t].at = "saving" /\ \A u \in Tasks \ {t} : publishing'[u] = publishing[u]
    BY <1>8 DEF SendSucceeds, IInv, TypeOK, Tables, Publishings
  <2>2. status[t] # "unbound"
    BY DEF IInv, TypeOK, Statuses
  <2> QED BY <2>1, <2>2 DEF FirstLife, Heard
<1>9. ASSUME NEW t \in Tasks, SendFails(t) PROVE FirstLife'
  <2>1. /\ UNCHANGED <<process, crashes, tracked, told, status, overtaken, bindings>>
        /\ publishing'[t].at = "idle" /\ \A u \in Tasks \ {t} : publishing'[u] = publishing[u]
    BY <1>9 DEF SendFails, IInv, TypeOK, Idle
  <2> QED BY <2>1 DEF FirstLife, Heard
<1>10. ASSUME NEW e \in Editors, EditReads(e) \/ EditOpens(e) PROVE FirstLife'
  BY <1>10 DEF EditReads, EditOpens, FirstLife, Heard
<1>11. ASSUME NEW e \in Editors, EditWrites(e) \/ NothingToRemove(e) \/ EditFails(e) PROVE FirstLife'
  <2> DEFINE t == e[2]
  <2>1. UNCHANGED <<process, crashes, tracked, told, status, overtaken>> /\ t \in Tasks
    BY <1>11 DEF EditWrites, NothingToRemove, EditFails, Editors
  <2>2. /\ \A u \in Tasks \ {t} : bindings'[u] = bindings[u] /\ publishing'[u] = publishing[u]
        /\ \/ bindings'[t] = bindings[t] /\ (publishing'[t] = publishing[t] \/ publishing'[t] = Idle)
           \/ /\ publishing[t].at = "saving" /\ status[t] \in Terminal
              /\ bindings'[t] = "unbound" /\ publishing'[t].at = "removing"
    BY <1>11, <2>1 DEF EditWrites, NothingToRemove, EditFails, EditEnds, IInv, TypeOK, Tables, Publishings
  <2> HIDE DEF t
  <2>3. Idle.at = "idle"
    BY DEF Idle
  <2>4. ASSUME NEW u \in Tasks, crashes = 0 PROVE Heard(u)'
    <3>1. CASE u # t
      BY <2>1, <2>2, <2>4, <3>1, HeardKept
    <3>2. CASE u = t
      <4>1. CASE bindings'[t] = bindings[t] /\ publishing'[t] = publishing[t]
        BY <2>1, <2>4, <3>2, <4>1, HeardKept
      <4>2. CASE bindings'[t] = bindings[t] /\ publishing'[t] = Idle
        BY <2>1, <2>3, <2>4, <3>2, <4>2, HeardKept
      <4>3. CASE /\ publishing[t].at = "saving" /\ status[t] \in Terminal
                 /\ bindings'[t] = "unbound" /\ publishing'[t].at = "removing"
        BY <2>1, <2>4, <3>2, <4>3 DEF FirstLife, Heard, Terminal
      <4> QED BY <2>2, <4>1, <4>2, <4>3
    <3> QED BY <3>1, <3>2
  <2> QED BY <2>1, <2>4 DEF FirstLife
<1>12. CASE UNCHANGED vars
  BY <1>12 DEF vars, FirstLife, Heard
<1> QED
  BY <1>1, <1>2, <1>3, <1>4, <1>5, <1>6, <1>7, <1>8, <1>9, <1>10, <1>11, <1>12 DEF Next, FirstLife

(* A thread is given up in the first life of the process only after it heard how its task
   ended, unless the task changed while an update was under way: publish, and the binding it
   removes (task-update-notifier.ts). *)
THEOREM ToldBeforeUnbound == Spec => []UnboundWasTold
<1>1. Init => IInv /\ FirstLife
  BY InitIInv DEF Init, FirstLife, Heard
<1>2. IInv /\ FirstLife /\ [Next]_vars => (IInv /\ FirstLife)'
  BY NextIInv, NextFirstLife
<1>3. IInv /\ FirstLife => UnboundWasTold
  BY DEF FirstLife, Heard, UnboundWasTold, IInv, TypeOK
<1> QED BY <1>1, <1>2, <1>3, PTL DEF Spec

------------------------------------------------------------------------------
(* What the file holds, while no edit has met another or failed. *)

(* publish edits the file of a task only while it holds the task in inFlight. *)
Owned == \A t \in Tasks : publishing[t].at \in {"idle", "sending"} => ~Editing(<<"publish", t>>)

(* The only edit under way knows what the notifier remembers, or reads it off the file. *)
Alone(e) ==
  /\ \A d \in Editors : Editing(d) => d = e
  /\ edits[e].at = "reading" =>
       /\ written = "good" /\ edits[e].to = bindings[e[2]]
       /\ \A u \in Tasks \ {e[2]} : file[u] = bindings[u]
  /\ edits[e].at = "opening" => written = "good" /\ edits[e].table = bindings
  /\ edits[e].at = "writing" => written = "empty" /\ edits[e].table = bindings

FileTrue ==
  ~collided /\ fileFaults = 0 /\ process \in {"up", "stopping"} =>
    /\ \A e \in Editors : Editing(e) => Alone(e)
    /\ (\A e \in Editors : ~Editing(e)) => written = "good" /\ file = bindings

(* An edit that begins while no other is under way is alone. *)
LEMMA BeginsAlone ==
  ASSUME IInv, NEW e \in Editors, NEW to \in Told \cup {"unbound"}, EditBegins(e, to), ~collided',
         written' = "good", bindings'[e[2]] = to, \A u \in Tasks \ {e[2]} : file'[u] = bindings'[u]
  PROVE  /\ Editing(e)'
         /\ \A d \in Editors : Editing(d)' => Alone(d)'
<1>1. edits' = [edits EXCEPT ![e] = [NoEdit(e) EXCEPT !.at = "reading", !.to = to]]
  BY DEF EditBegins
<1>2. edits'[e].at = "reading" /\ edits'[e].to = to
  <2>1. edits'[e] = [NoEdit(e) EXCEPT !.at = "reading", !.to = to]
    BY <1>1 DEF IInv, TypeOK
  <2> QED BY <2>1 DEF NoEdit
<1>3. \A d \in Editors \ {e} : ~Editing(d) /\ edits'[d] = edits[d]
  BY <1>1 DEF EditBegins, IInv, TypeOK
<1> QED BY <1>2, <1>3 DEF Editing, Alone

(* publish up to its first await keeps the file and the edit of it in step. *)
LEMMA PublishTrue ==
  ASSUME IInv, Owned, FileTrue, NEW t \in Tasks, NEW now, Publish(t, now) \/ NothingToPublish(t, now),
         UNCHANGED <<process, file, written, fileFaults>>
  PROVE  Owned' /\ FileTrue'
<1> DEFINE mine == <<"publish", t>>
<1>1. mine \in Editors /\ mine[2] = t /\ \A u \in Tasks \ {t} : <<"publish", u>> # mine
  BY DEF Editors
<1>2. CASE /\ Publishable(t) /\ Over(t, now)
           /\ bindings' = [bindings EXCEPT ![t] = "unbound"]
           /\ publishing' = [publishing EXCEPT ![t].at = "removing"]
           /\ EditBegins(mine, "unbound")
  <2>1. /\ \A d \in Editors : d # mine => edits'[d] = edits[d]
        /\ \A u \in Tasks \ {t} : publishing'[u] = publishing[u] /\ bindings'[u] = bindings[u]
        /\ publishing'[t].at = "removing" /\ bindings'[t] = "unbound"
    BY <1>1, <1>2, BeginsEffect DEF IInv, TypeOK, Tables, Publishings
  <2>2. Owned'
    <3>1. \A u \in Tasks \ {t} : <<"publish", u>> \in Editors
      BY DEF Editors
    <3> QED BY <1>1, <2>1, <3>1 DEF Owned, Editing
  <2>3. ASSUME ~collided', fileFaults = 0 PROVE FileTrue'
    <3>1. ~collided /\ \A d \in Editors \ {mine} : ~Editing(d)
      BY <1>2, <2>3 DEF EditBegins
    <3>2. ~Editing(mine)
      BY <1>2 DEF Owned, Publishable
    <3>3. written = "good" /\ file = bindings
      BY <2>3, <3>1, <3>2, <1>2 DEF FileTrue, Publishable
    <3>4. \A u \in Tasks \ {t} : file'[u] = bindings'[u]
      BY <2>1, <3>3
    <3>5. Editing(mine)' /\ \A d \in Editors : Editing(d)' => Alone(d)'
      BY <1>1, <1>2, <2>1, <2>3, <3>3, <3>4, BeginsAlone
    <3> QED BY <1>1, <3>5 DEF FileTrue
  <2> QED BY <2>2, <2>3 DEF FileTrue
<1>3. CASE /\ bindings' = bindings /\ edits' = edits /\ collided' = collided
           /\ publishing' = [publishing EXCEPT ![t] = [at |-> "sending", text |-> now]]
           /\ Publishable(t)
  <2>1. Owned'
    BY <1>3 DEF Owned, Editing, Publishable, IInv, TypeOK
  <2> QED BY <1>3, <2>1 DEF FileTrue, Alone, Editing
<1>4. CASE UNCHANGED <<bindings, publishing, edits, collided>>
  BY <1>4 DEF Owned, FileTrue, Alone, Editing
<1> QED BY <1>2, <1>3, <1>4 DEF Publish, NothingToPublish

(* An edit that is given up, or that was the last, frees its task. *)
LEMMA GoneOwned ==
  ASSUME IInv, Owned, NEW e \in Editors,
         edits' = [edits EXCEPT ![e] = NoEdit(e)],
         publishing' = IF e[1] = "publish" THEN [publishing EXCEPT ![e[2]] = Idle] ELSE publishing
  PROVE  Owned' /\ ~Editing(e)' /\ \A d \in Editors \ {e} : edits'[d] = edits[d]
<1>1. edits'[e].at = "none" /\ \A d \in Editors \ {e} : edits'[d] = edits[d]
  BY EditType DEF IInv, TypeOK, Told
<1>2. ASSUME NEW u \in Tasks, publishing'[u].at \in {"idle", "sending"} PROVE ~Editing(<<"publish", u>>)'
  <2>1. <<"publish", u>> \in Editors
    BY DEF Editors
  <2>2. CASE e = <<"publish", u>>
    BY <1>1, <2>2 DEF Editing
  <2>3. CASE e # <<"publish", u>>
    <3>1. publishing'[u] = publishing[u]
      BY <2>3 DEF IInv, TypeOK, Editors
    <3> QED BY <1>1, <1>2, <2>1, <2>3, <3>1 DEF Owned, Editing
  <2> QED BY <2>2, <2>3
<1> QED BY <1>1, <1>2 DEF Owned, Editing

(* An edit that ends is followed by another of publish, or by none. *)
LEMMA EndsOwned ==
  ASSUME IInv, Owned, NEW e \in Editors, EditEnds(e)
  PROVE  Owned'
<1> DEFINE t == e[2]
<1>1. t \in Tasks /\ \A u \in Tasks : <<"publish", u>> \in Editors
  BY DEF Editors
<1>2. CASE /\ e[1] = "publish" /\ publishing' = [publishing EXCEPT ![t].at = "removing"]
           /\ EditBegins(e, "unbound")
  <2>1. e = <<"publish", t>>
    BY <1>2 DEF Editors
  <2>2. /\ \A d \in Editors : d # e => edits'[d] = edits[d]
        /\ \A u \in Tasks \ {t} : publishing'[u] = publishing[u]
        /\ publishing'[t].at = "removing"
    BY <1>1, <1>2, BeginsEffect DEF IInv, TypeOK, Publishings
  <2> QED BY <1>1, <2>1, <2>2 DEF Owned, Editing
<1> QED BY <1>2, GoneOwned DEF EditEnds

LEMMA EndsTrue ==
  ASSUME IInv, Owned, NEW e \in Editors, EditEnds(e),
         ~collided' => /\ \A d \in Editors : Editing(d) => d = e
                       /\ written' = "good" /\ file' = bindings
  PROVE  FileTrue'
<1> DEFINE t == e[2]
<1>1. t \in Tasks
  BY DEF Editors
<1> SUFFICES ASSUME ~collided'
             PROVE  /\ \A d \in Editors : Editing(d)' => Alone(d)'
                    /\ (\A d \in Editors : ~Editing(d)') => written' = "good" /\ file' = bindings'
  BY DEF FileTrue
<1>2. CASE bindings' = [bindings EXCEPT ![t] = "unbound"] /\ EditBegins(e, "unbound")
  <2>1. bindings'[t] = "unbound" /\ \A u \in Tasks \ {t} : file'[u] = bindings'[u]
    BY <1>1, <1>2 DEF IInv, TypeOK, Tables
  <2> QED BY <1>2, <2>1, BeginsAlone
<1>3. CASE /\ edits' = [edits EXCEPT ![e] = NoEdit(e)]
           /\ publishing' = IF e[1] = "publish" THEN [publishing EXCEPT ![t] = Idle] ELSE publishing
           /\ UNCHANGED <<bindings, collided>>
  BY <1>3, GoneOwned DEF Editing
<1> QED BY <1>2, <1>3 DEF EditEnds

LEMMA NextFileTrue == ASSUME IInv, Owned, FileTrue, [Next]_vars PROVE Owned' /\ FileTrue'
<1> USE DEF fileVars, memoryVars, historyVars, countVars, editFrame
<1>1. CASE Starts \/ Prunes
  BY <1>1 DEF Starts, Prunes, Owned, FileTrue, Editing
<1>2. CASE Initialize
  <2>1. \A e \in Editors : ~Editing(e)
    BY <1>2 DEF Initialize, IInv, BootIsQuiet
  <2> QED BY <1>2, <2>1 DEF Initialize, Owned, FileTrue, Editing
<1>3. CASE Crash
  <2>1. process' = "down" /\ \A e \in Editors : edits'[e].at = "none"
    BY <1>3, EditType DEF Crash, Told
  <2>2. \A t \in Tasks : <<"publish", t>> \in Editors
    BY DEF Editors
  <2> QED BY <2>1, <2>2 DEF Owned, FileTrue, Editing
<1>4. CASE Stop \/ TransportStarts
  BY <1>4 DEF Stop, TransportStarts, Owned, FileTrue, Alone, Editing
<1>5. ASSUME NEW t \in Tasks, Submit(t) PROVE Owned' /\ FileTrue'
  BY <1>5 DEF Submit, Owned, FileTrue, Alone, Editing
<1>6. ASSUME NEW t \in Tasks, Track(t) PROVE Owned' /\ FileTrue'
  <2> DEFINE mine == <<"track", t>>
  <2>1. mine \in Editors /\ mine[2] = t /\ (\A u \in Tasks : <<"publish", u>> \in Editors \ {mine})
    BY DEF Editors
  <2>2. /\ t \notin tracked /\ process = "up" /\ EditBegins(mine, "none")
        /\ UNCHANGED <<publishing, file, written, process, fileFaults>>
    BY <1>6 DEF Track
  <2>3. /\ \A d \in Editors : d # mine => edits'[d] = edits[d]
        /\ bindings'[t] = "none" /\ \A u \in Tasks \ {t} : bindings'[u] = bindings[u]
    BY <1>6, <2>1, <2>2, BeginsEffect DEF Track, IInv, TypeOK, Tables, Told
  <2>4. Owned'
    BY <2>1, <2>2, <2>3 DEF Owned, Editing
  <2>5. ASSUME ~collided', fileFaults = 0 PROVE FileTrue'
    <3>1. ~collided /\ \A d \in Editors \ {mine} : ~Editing(d)
      BY <2>2, <2>5 DEF EditBegins
    <3>2. ~Editing(mine)
      BY <2>1, <2>2 DEF IInv, Unknown
    <3>3. written = "good" /\ file = bindings
      BY <2>2, <2>5, <3>1, <3>2 DEF FileTrue
    <3>4. written' = "good" /\ \A u \in Tasks \ {t} : file'[u] = bindings'[u]
      BY <2>2, <2>3, <3>3
    <3>5. Editing(mine)' /\ \A d \in Editors : Editing(d)' => Alone(d)'
      BY <2>1, <2>2, <2>3, <2>5, <3>4, BeginsAlone DEF Told
    <3> QED BY <2>1, <3>5 DEF FileTrue
  <2> QED BY <2>2, <2>4, <2>5 DEF FileTrue
<1>7. ASSUME NEW t \in Tasks, NEW to \in Statuses, Move(t, to) PROVE Owned' /\ FileTrue'
  BY <1>7, PublishTrue DEF Move
<1>8. ASSUME NEW t \in Tasks, Poll(t) PROVE Owned' /\ FileTrue'
  BY <1>8, PublishTrue DEF Poll
<1>9. ASSUME NEW t \in Tasks, SendSucceeds(t) PROVE Owned' /\ FileTrue'
  <2> DEFINE mine == <<"publish", t>>
  <2>1. mine \in Editors /\ mine[2] = t /\ (\A u \in Tasks \ {t} : <<"publish", u>> \in Editors \ {mine})
    BY DEF Editors
  <2>2. /\ publishing[t].at = "sending" /\ EditBegins(mine, status[t])
        /\ UNCHANGED <<file, written, process, fileFaults>>
    BY <1>9 DEF SendSucceeds
  <2>3. bindings[t] # "unbound"
    BY <2>2 DEF IInv, TypeOK
  <2>4. status[t] \in Told
    BY <2>3 DEF IInv, TypeOK, Unknown, Told
  <2>5. /\ \A d \in Editors : d # mine => edits'[d] = edits[d]
        /\ bindings'[t] = status[t] /\ \A u \in Tasks \ {t} : bindings'[u] = bindings[u] /\ publishing'[u] = publishing[u]
        /\ publishing'[t].at = "saving"
    BY <1>9, <2>1, <2>2, <2>4, BeginsEffect DEF SendSucceeds, IInv, TypeOK, Tables
  <2>6. Owned'
    BY <2>1, <2>5 DEF Owned, Editing
  <2>7. ASSUME ~collided', fileFaults = 0 PROVE FileTrue'
    <3>1. ~collided /\ \A d \in Editors \ {mine} : ~Editing(d)
      BY <2>2, <2>7 DEF EditBegins
    <3>2. ~Editing(mine) /\ process \in {"up", "stopping"}
      BY <2>2 DEF Owned, IInv, BootIsQuiet, Idle
    <3>3. written = "good" /\ file = bindings
      BY <2>7, <3>1, <3>2 DEF FileTrue
    <3>4. written' = "good" /\ \A u \in Tasks \ {t} : file'[u] = bindings'[u]
      BY <2>2, <2>5, <3>3
    <3>5. Editing(mine)' /\ \A d \in Editors : Editing(d)' => Alone(d)'
      BY <2>1, <2>2, <2>4, <2>5, <2>7, <3>4, BeginsAlone
    <3> QED BY <2>1, <3>5 DEF FileTrue
  <2> QED BY <2>2, <2>6, <2>7 DEF FileTrue
<1>10. ASSUME NEW t \in Tasks, SendFails(t) PROVE Owned' /\ FileTrue'
  <2>1. Owned'
    BY <1>10 DEF SendFails, Owned, Editing, IInv, TypeOK
  <2> QED BY <1>10, <2>1 DEF SendFails, FileTrue, Alone, Editing
<1>11. ASSUME NEW e \in Editors, EditReads(e) PROVE Owned' /\ FileTrue'
  <2>1. /\ edits[e].at = "reading" /\ edits'[e].at = "opening" /\ \A d \in Editors \ {e} : edits'[d] = edits[d]
        /\ edits'[e].table = [InFile EXCEPT ![e[2]] = edits[e].to]
        /\ UNCHANGED <<process, publishing, bindings, file, written, collided, fileFaults>>
    BY <1>11 DEF EditReads, IInv, TypeOK, Edits
  <2>2. Owned' /\ \A d \in Editors : Editing(d)' <=> Editing(d)
    <3>1. \A d \in Editors : Editing(d)' <=> Editing(d)
      BY <2>1 DEF Editing
    <3> QED BY <2>1, <3>1 DEF Owned, Editors
  <2>3. ASSUME Alone(e) PROVE Alone(e)'
    <3>1. edits[e].to = bindings[e[2]] /\ InFile = file /\ \A u \in Tasks \ {e[2]} : file[u] = bindings[u]
      BY <2>1, <2>3 DEF Alone, InFile
    <3>2. edits'[e].table = bindings
      BY <2>1, <3>1 DEF IInv, TypeOK, Tables
    <3> QED BY <2>1, <2>2, <2>3, <3>2 DEF Alone
  <2>4. Editing(e)
    BY <2>1 DEF Editing
  <2>5. ASSUME \A d \in Editors : Editing(d) => Alone(d) PROVE \A d \in Editors : Editing(d)' => Alone(d)'
    BY <2>2, <2>3, <2>4, <2>5 DEF Alone
  <2> QED BY <2>1, <2>2, <2>4, <2>5 DEF FileTrue
<1>12. ASSUME NEW e \in Editors, EditOpens(e) PROVE Owned' /\ FileTrue'
  <2>1. /\ edits[e].at = "opening" /\ edits'[e].at = "writing" /\ \A d \in Editors \ {e} : edits'[d] = edits[d]
        /\ edits'[e].table = edits[e].table /\ written' = "empty"
        /\ UNCHANGED <<process, publishing, bindings, file, collided, fileFaults>>
    BY <1>12 DEF EditOpens, IInv, TypeOK, Edits
  <2>2. Owned' /\ \A d \in Editors : Editing(d)' <=> Editing(d)
    <3>1. \A d \in Editors : Editing(d)' <=> Editing(d)
      BY <2>1 DEF Editing
    <3> QED BY <2>1, <3>1 DEF Owned, Editors
  <2>3. Alone(e) => Alone(e)'
    BY <2>1, <2>2 DEF Alone
  <2>4. Editing(e)
    BY <2>1 DEF Editing
  <2>5. ASSUME \A d \in Editors : Editing(d) => Alone(d) PROVE \A d \in Editors : Editing(d)' => Alone(d)'
    BY <2>2, <2>3, <2>4, <2>5 DEF Alone
  <2> QED BY <2>1, <2>2, <2>4, <2>5 DEF FileTrue
<1>13. ASSUME NEW e \in Editors, EditWrites(e) \/ NothingToRemove(e) PROVE Owned' /\ FileTrue'
  <2>1. Editing(e) /\ EditEnds(e) /\ UNCHANGED <<process, fileFaults>> /\ (collided => collided')
    BY <1>13 DEF EditWrites, NothingToRemove, Editing, EditEnds, EditBegins
  <2>2. process \in {"up", "stopping"}
    BY <2>1 DEF IInv, BootIsQuiet
  <2>3. ASSUME fileFaults = 0, ~collided'
        PROVE  (\A d \in Editors : Editing(d) => d = e) /\ written' = "good" /\ file' = bindings
    <3>1. Alone(e)
      BY <2>1, <2>2, <2>3 DEF FileTrue
    <3>2. CASE EditWrites(e)
      BY <3>1, <3>2 DEF EditWrites, Alone
    <3>3. CASE NothingToRemove(e)
      <4>1. written = "good" /\ bindings[e[2]] = "unbound" /\ file[e[2]] = "unbound" /\ UNCHANGED <<file, written>>
        BY <3>1, <3>3 DEF NothingToRemove, RemovesNothing, InFile, Alone
      <4>2. file = bindings
        BY <3>1, <3>3, <4>1 DEF NothingToRemove, Alone, IInv, TypeOK, Tables
      <4> QED BY <3>1, <4>1, <4>2 DEF Alone
    <3> QED BY <1>13, <3>2, <3>3
  <2>4. CASE fileFaults = 0
    BY <2>1, <2>3, <2>4, EndsTrue, EndsOwned
  <2>5. CASE fileFaults # 0
    BY <2>1, <2>5, EndsOwned DEF FileTrue
  <2> QED BY <2>4, <2>5
<1>14. ASSUME NEW e \in Editors, EditFails(e) PROVE Owned' /\ FileTrue'
  <2>1. Owned'
    BY <1>14, GoneOwned DEF EditFails
  <2>2. fileFaults' # 0
    BY <1>14 DEF EditFails, IInv, TypeOK
  <2> QED BY <2>1, <2>2 DEF FileTrue
<1>15. CASE UNCHANGED vars
  BY <1>15 DEF vars, Owned, FileTrue, Alone, Editing
<1> QED
  BY <1>1, <1>2, <1>3, <1>4, <1>5, <1>6, <1>7, <1>8, <1>9, <1>10, <1>11, <1>12, <1>13, <1>14, <1>15 DEF Next

(* When no edit is under way, none met another and none failed, the file holds what the
   notifier remembers, for the next life to take up: persistTaskBinding, removeTaskBinding
   and the two writes of initialize (store.ts, task-update-notifier.ts). *)
THEOREM FileFollowsMemory == Spec => []FileFollows
<1>1. Init => IInv /\ Owned /\ FileTrue
  <2> SUFFICES ASSUME Init PROVE IInv /\ Owned /\ FileTrue
    OBVIOUS
  <2>1. IInv /\ \A e \in Editors : ~Editing(e)
    BY InitIInv, EditType DEF Init, Editing, Told
  <2> QED BY <2>1 DEF Init, Owned, FileTrue, Editors
<1>2. IInv /\ Owned /\ FileTrue /\ [Next]_vars => (IInv /\ Owned /\ FileTrue)'
  BY NextIInv, NextFileTrue
<1>3. FileTrue => FileFollows
  BY DEF FileTrue, FileFollows, InFile
<1> QED BY <1>1, <1>2, <1>3, PTL DEF Spec

==============================================================================
