-------------------------- MODULE BridgeSupervisor --------------------------
(***************************************************************************)
(* The ingress of webhooks and envelopes (src/bridge/supervisor.ts with    *)
(* the verifier of src/bridge/inbound-bridge.ts): deliveries that arrive,  *)
(* arrive again, or are refused; one pump that dispatches the records that *)
(* are due; saves of the state file that are not serialised; faults of     *)
(* those saves; and the process that crashes and loads the file again.     *)
(*                                                                         *)
(* A record is an object: a pass of the pump holds on to the objects it    *)
(* found, also when a later delivery of the message replaces one of them   *)
(* in the table.  Objects are numbered in the order they are received.     *)
(* There is no clock: a retry may be due at any pass.                      *)
(***************************************************************************)
EXTENDS Naturals, FiniteSets

CONSTANTS
  Messages,       \* message ids
  MaxRetries,     \* BRIDGE_MAX_RETRIES
  MaxDeliveries,  \* bound: calls of accept
  MaxTroubles     \* bound: refused deliveries, expired entries of the verifier, failed saves
                  \* and ends of the process that no save caused, together

ASSUME BoundAssumption ==
  MaxRetries \in Nat /\ MaxDeliveries \in Nat /\ MaxTroubles \in Nat

VARIABLES
  process,   \* "down", "up"
  seen,      \* the verifier's message ids
  objects,   \* the records
  recordOf,  \* this.records: the number of a message's record, 0 if it has none
  pumpAt,    \* where processQueue waits: "idle", "marking", "dispatching", "acking", "counting"
  caller,    \* who waits for processQueue: "timer" or "accept"
  due,       \* records the pass has still to dispatch
  current,   \* the record it is dispatching, 0 if none
  saves,     \* saves under way: the pump's is number 0, a delivery's has its number
  disk,      \* the state file
  made,      \* records 1..made were made
  created,   \* history: tasks created per message
  deliveries, refusals, expiries, faults, crashes

tableVars == <<seen, objects, recordOf, made>>
pumpVars == <<pumpAt, caller, due, current>>
countVars == <<deliveries, refusals, expiries, faults, crashes>>
vars == <<process, tableVars, pumpVars, saves, disk, created, countVars>>

Ids == 1..MaxDeliveries
States == {"queued", "processing", "acked", "retrying", "poison", "rejected", "duplicate", "absent"}
Records == [message : Messages, state : States, attempts : 0..(MaxRetries + 1)]
          \cup {[message |-> "none", state |-> "absent", attempts |-> 0]}
NoRecord == [message |-> "none", state |-> "absent", attempts |-> 0]

Tables == [Messages -> Ids \cup {0}]
Files == [table : Tables, objects : [Ids -> Records]]
NoTable == [m \in Messages |-> 0]
NoObjects == [id \in Ids |-> NoRecord]
EmptyFile == [table |-> NoTable, objects |-> NoObjects]

(* A save has listed the records of its table when persist is called; it    *)
(* writes them as they are once the directory is there; then it renames.    *)
Saves == [at : {"none", "listed", "written"}, drain : BOOLEAN, file : Files]
NoSave == [at |-> "none", drain |-> FALSE, file |-> EmptyFile]

TypeOK ==
  /\ process \in {"down", "up"}
  /\ seen \in SUBSET Messages
  /\ objects \in [Ids -> Records]
  /\ recordOf \in Tables
  /\ pumpAt \in {"idle", "marking", "dispatching", "acking", "counting"}
  /\ caller \in {"timer", "accept"}
  /\ due \in SUBSET Ids
  /\ current \in Ids \cup {0}
  /\ saves \in [Ids \cup {0} -> Saves]
  /\ disk \in Files
  /\ made \in 0..MaxDeliveries
  /\ created \in [Messages -> Nat]
  /\ deliveries \in 0..MaxDeliveries
  /\ refusals \in Nat /\ expiries \in Nat /\ faults \in Nat /\ crashes \in Nat

Init ==
  /\ process = "down"
  /\ seen = {}
  /\ objects = NoObjects
  /\ recordOf = NoTable
  /\ pumpAt = "idle" /\ caller = "timer" /\ due = {} /\ current = 0
  /\ saves = [s \in Ids \cup {0} |-> NoSave]
  /\ disk = EmptyFile
  /\ made = 0
  /\ created = [m \in Messages |-> 0]
  /\ deliveries = 0 /\ refusals = 0 /\ expiries = 0 /\ faults = 0 /\ crashes = 0

------------------------------------------------------------------------------
(* Saves and the process. *)

MoreTrouble == refusals + expiries + faults + crashes < MaxTroubles

Listed(table, drain) == [at |-> "listed", drain |-> drain, file |-> [table |-> table, objects |-> NoObjects]]

(* load and the timer; the first pass is the timer's.  A record is again the object it was. *)
Initialize ==
  /\ process = "down"
  /\ process' = "up"
  /\ recordOf' = disk.table
  /\ objects' = disk.objects
  /\ UNCHANGED <<seen, made, pumpVars, saves, disk, created, countVars>>

(* Memory goes, also what the verifier had seen. *)
ProcessEnds ==
  /\ process' = "down"
  /\ seen' = {}
  /\ objects' = NoObjects
  /\ recordOf' = NoTable
  /\ pumpAt' = "idle" /\ caller' = "timer" /\ due' = {} /\ current' = 0
  /\ saves' = [s \in Ids \cup {0} |-> NoSave]
  /\ crashes' = crashes + 1

Crash ==
  /\ process = "up"
  /\ MoreTrouble
  /\ ProcessEnds
  /\ UNCHANGED <<disk, made, created, deliveries, refusals, expiries, faults>>

------------------------------------------------------------------------------
(* accept. *)

(* The record of m is replaced, or is the first. *)
Put(m, state) ==
  /\ made' = made + 1
  /\ objects' = [objects EXCEPT ![made + 1] = [message |-> m, state |-> state, attempts |-> 0]]
  /\ recordOf' = [recordOf EXCEPT ![m] = made + 1]

(* One more delivery has arrived, as number deliveries'. *)
Arrives ==
  /\ process = "up"
  /\ deliveries < MaxDeliveries
  /\ deliveries' = deliveries + 1
  /\ UNCHANGED <<process, pumpVars, disk, created, expiries, faults, crashes>>

Persists(drain) == saves' = [saves EXCEPT ![deliveries'] = Listed(recordOf', drain)]

(* Mutant: the verifier forgets what it accepted. *)
AcceptUnseen(m) ==
  /\ m \notin seen
  /\ Arrives
  /\ Put(m, "queued")
  /\ Persists(TRUE)
  /\ UNCHANGED <<seen, refusals>>

AcceptNew(m) ==
  /\ m \notin seen
  /\ Arrives
  /\ seen' = seen \cup {m}
  /\ Put(m, "queued")
  /\ Persists(TRUE)
  /\ UNCHANGED refusals

(* A message the verifier has seen: its record, whatever its state, becomes a duplicate. *)
AcceptDuplicate(m) ==
  /\ m \in seen
  /\ Arrives
  /\ IF recordOf[m] # 0
     THEN /\ objects' = [objects EXCEPT ![recordOf[m]].state = "duplicate"]
          /\ UNCHANGED <<recordOf, made>>
     ELSE Put(m, "duplicate")
  /\ Persists(FALSE)
  /\ UNCHANGED <<seen, refusals>>

(* A wrong signature or a malformed envelope that names the message. *)
AcceptRefused(m) ==
  /\ MoreTrouble
  /\ refusals' = refusals + 1
  /\ Arrives
  /\ \E state \in {"rejected", "poison"} : Put(m, state)
  /\ Persists(FALSE)
  /\ UNCHANGED seen

(* prune: the entry of m has expired. *)
Expire(m) ==
  /\ m \in seen
  /\ MoreTrouble
  /\ expiries' = expiries + 1
  /\ seen' = seen \ {m}
  /\ UNCHANGED <<process, objects, recordOf, made, pumpVars, saves, disk, created,
                 deliveries, refusals, faults, crashes>>

------------------------------------------------------------------------------
(* processQueue. *)

InState(state) ==
  {id \in Ids : objects[id].state = state /\ \E m \in Messages : recordOf[m] = id}

(* Mutant: a retry is never due. *)
DueSetsQueued == {InState("queued")}

(* The records a pass may find due: the queued ones, and the retries the clock allows. *)
DueSets == {InState("queued") \cup retries : retries \in SUBSET InState("retrying")}

(* The rest of a pass up to its next await, with records objs and saves ss: *)
(* the oldest record left is marked, and that is saved.                     *)
Proceed(objs, rest, ss) ==
  \/ /\ rest = {}
     /\ objects' = objs
     /\ saves' = ss
     /\ pumpAt' = "idle" /\ due' = {} /\ current' = 0
  \/ \E first \in rest :
       /\ \A other \in rest : first <= other
       /\ objects' = [objs EXCEPT ![first].state = "processing"]
       /\ saves' = [ss EXCEPT ![0] = Listed(recordOf, FALSE)]
       /\ pumpAt' = "marking" /\ due' = rest \ {first} /\ current' = first

PumpStarts ==
  /\ process = "up"
  /\ pumpAt = "idle"
  /\ \E ids \in DueSets \ {{}} : Proceed(objects, ids, saves)
  /\ caller' = "timer"
  /\ UNCHANGED <<process, seen, recordOf, made, disk, created, countVars>>

(* onDispatch submits a task. *)
DispatchSucceeds ==
  /\ pumpAt = "dispatching"
  /\ created' = [created EXCEPT ![objects[current].message] = @ + 1]
  /\ objects' = [objects EXCEPT ![current].state = "acked"]
  /\ saves' = [saves EXCEPT ![0] = Listed(recordOf, FALSE)]
  /\ pumpAt' = "acking"
  /\ UNCHANGED <<process, seen, recordOf, made, caller, due, current, disk, countVars>>

(* Mutant: one retry too many. *)
ExhaustedLate(attempts) == attempts > MaxRetries + 1

Exhausted(attempts) == attempts > MaxRetries

(* The catch: an attempt is counted and that is saved. *)
CountFailure ==
  LET attempts == objects[current].attempts + 1 IN
  /\ objects' = [objects EXCEPT ![current] =
                   [message |-> objects[current].message,
                    state |-> IF Exhausted(attempts) THEN "poison" ELSE "retrying",
                    attempts |-> attempts]]
  /\ saves' = [saves EXCEPT ![0] = Listed(recordOf, FALSE)]
  /\ pumpAt' = "counting"

(* Mutant: a failure is answered like a success. *)
DispatchFailsAcked ==
  /\ pumpAt = "dispatching"
  /\ objects' = [objects EXCEPT ![current].state = "acked"]
  /\ saves' = [saves EXCEPT ![0] = Listed(recordOf, FALSE)]
  /\ pumpAt' = "acking"
  /\ UNCHANGED <<process, seen, recordOf, made, caller, due, current, disk, created, countVars>>

(* The submission fails before there is a task, or when the task is saved. *)
DispatchFails ==
  /\ pumpAt = "dispatching"
  /\ CountFailure
  /\ \/ UNCHANGED <<created, faults>>
     \/ /\ MoreTrouble /\ faults' = faults + 1
        /\ created' = [created EXCEPT ![objects[current].message] = @ + 1]
  /\ UNCHANGED <<process, seen, recordOf, made, caller, due, current, disk,
                 deliveries, refusals, expiries, crashes>>

------------------------------------------------------------------------------
(* persist. *)

InTable(table) == {id \in Ids : \E m \in Messages : table[m] = id}

SaveWrites(s) ==
  /\ saves[s].at = "listed"
  /\ LET table == saves[s].file.table
         listed == [id \in Ids |-> IF id \in InTable(table) THEN objects[id] ELSE NoRecord] IN
     saves' = [saves EXCEPT ![s] = [at |-> "written", drain |-> saves[s].drain,
                                    file |-> [table |-> table, objects |-> listed]]]
  /\ UNCHANGED <<process, tableVars, pumpVars, disk, created, countVars>>

(* A delivery whose save has ended runs a pass, unless one is running. *)
SaveEnds(s) ==
  LET rest == [saves EXCEPT ![s] = NoSave] IN
  /\ saves[s].at = "written"
  /\ disk' = saves[s].file
  /\ IF s # 0
     THEN IF saves[s].drain /\ pumpAt = "idle"
          THEN (\E ids \in DueSets : Proceed(objects, ids, rest)) /\ caller' = "accept"
          ELSE saves' = rest /\ UNCHANGED <<objects, pumpVars>>
     ELSE IF pumpAt = "marking"
          THEN saves' = rest /\ pumpAt' = "dispatching" /\ UNCHANGED <<objects, caller, due, current>>
          ELSE Proceed(objects, due, rest) /\ UNCHANGED caller
  /\ UNCHANGED <<process, seen, recordOf, made, created, countVars>>

(* A save fails.  The delivery is answered with an error; a failed dispatch is *)
(* counted when the task was there already; else the pass ends, and with it    *)
(* the process if nobody waits for the pass.                                   *)
SaveFails(s) ==
  /\ saves[s].at # "none"
  /\ MoreTrouble
  /\ faults' = faults + 1
  /\ \/ /\ s # 0
        /\ saves' = [saves EXCEPT ![s] = NoSave]
        /\ UNCHANGED <<process, seen, objects, recordOf, pumpVars, crashes>>
     \/ /\ s = 0 /\ pumpAt = "acking"
        /\ CountFailure
        /\ UNCHANGED <<process, seen, recordOf, caller, due, current, crashes>>
     \/ /\ s = 0 /\ pumpAt # "acking" /\ caller = "accept"
        /\ saves' = [saves EXCEPT ![s] = NoSave]
        /\ pumpAt' = "idle" /\ due' = {} /\ current' = 0
        /\ UNCHANGED <<process, seen, objects, recordOf, caller, crashes>>
     \/ /\ s = 0 /\ pumpAt # "acking" /\ caller = "timer"
        /\ ProcessEnds
  /\ UNCHANGED <<made, disk, created, deliveries, refusals, expiries>>

------------------------------------------------------------------------------
Next ==
  \/ Initialize \/ Crash
  \/ \E m \in Messages : AcceptNew(m) \/ AcceptDuplicate(m) \/ AcceptRefused(m) \/ Expire(m)
  \/ PumpStarts \/ DispatchSucceeds \/ DispatchFails
  \/ \E s \in Ids \cup {0} : SaveWrites(s) \/ SaveEnds(s) \/ SaveFails(s)

Spec == Init /\ [][Next]_vars

(* The service manager restarts the process, the timer ticks, submissions and saves answer. *)
Fairness ==
  /\ WF_vars(Initialize)
  /\ \A id \in Ids : WF_vars(PumpStarts /\ (id = current' \/ id \in due'))
  /\ WF_vars(DispatchSucceeds \/ DispatchFails)
  /\ \A s \in Ids \cup {0} : WF_vars(SaveWrites(s) \/ SaveEnds(s) \/ SaveFails(s))

FairSpec == Spec /\ Fairness

------------------------------------------------------------------------------
(* Properties. *)

(* Redeliveries, overlapping passes, retries and replaced records never make a
   second task of one message: that takes a save that fails, an entry of the
   verifier that expired, or the end of the process, which forgets them all. *)
TaskBound ==
  \A m \in Messages : created[m] <= 1 + faults + expiries + 2 * crashes

(* The state file calls a message acknowledged only when its task exists. *)
AckedOnDiskWasCreated ==
  \A id \in Ids : disk.objects[id].state = "acked" => created[disk.objects[id].message] > 0

(* However a record was relabelled by redeliveries meanwhile, it is given up
   exactly when its retries are spent. *)
RetryBudget ==
  \A id \in Ids :
    /\ objects[id].state = "retrying" => objects[id].attempts \in 1..MaxRetries
    /\ objects[id].state = "poison" /\ refusals = 0 => objects[id].attempts = MaxRetries + 1

(* The label of a record tells the truth of its message and of its retries. *)
LabelsAreTrue == AckedOnDiskWasCreated /\ RetryBudget

Settled(m) ==
  created[m] > 0 \/ (recordOf[m] # 0 /\ objects[recordOf[m]].state = "poison")

(* A message that was delivered once and met no fault or restart is dispatched
   or given up, although its record may be queued behind others, its delivery
   may find a pass running, and passes overlap with deliveries. *)
QueuedIsSettled ==
  \A m \in Messages :
    (recordOf[m] # 0 /\ objects[recordOf[m]].state = "queued") ~>
      (Settled(m) \/ deliveries > Cardinality(seen) \/ faults > 0 \/ crashes > 0)

------------------------------------------------------------------------------
(* architecture.md: bridge dispatch failures are persisted and retried with backoff. *)
FailedDispatchIsRetried ==
  \A m \in Messages :
    (recordOf[m] # 0 /\ objects[recordOf[m]].state = "retrying") ~> Settled(m)

==============================================================================
