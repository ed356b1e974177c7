--------------------------- MODULE TransportOutbox ---------------------------
(***************************************************************************)
(* The durable outbox every chat transport sends through                   *)
(* (src/transports/outbox.ts): records in memory with an index by          *)
(* idempotency key, one pump that calls the sender, a chain of saves of    *)
(* the state file, retention of settled records, and the process that      *)
(* holds all of it crashing and starting again from the file.              *)
(*                                                                         *)
(* There is no clock: a retry may be due at any pass (backoffMs), and a    *)
(* settled record may have outlived its retention at any sweep.  A save    *)
(* that fails is swallowed by the code, so SaveFails is always possible.   *)
(***************************************************************************)
EXTENDS Naturals, Sequences

CONSTANTS
  Keys,        \* idempotency keys
  NoKey,       \* the key of a record that does not exist
  MaxRecords,  \* bound: records ever created
  MaxRetries,  \* TRANSPORT_OUTBOX_MAX_RETRIES
  MaxCrashes   \* bound: ends of the process

ASSUME KeyAssumption == NoKey \notin Keys
ASSUME BoundAssumption == MaxRecords \in Nat /\ MaxRetries \in Nat /\ MaxCrashes \in Nat

VARIABLES
  process,     \* "down", "starting" (initialize), "running", "stopping" (closed)
  records,     \* this.records, by record id; status "absent" where there is none
  byKey,       \* this.byKey: the record id of a key, 0 where there is none
  pumpAt,      \* where the pump waits: "idle", "sweeping", "sending", "taken", "saving"
  ready,       \* ids the running pass has still to attempt
  current,     \* id whose send is in flight or being saved, 0 if none
  saves,       \* persistChain: the callers whose saves have not ended, oldest first
  snapshot,    \* what the oldest save is writing
  writing,     \* the oldest save has taken its snapshot
  disk,        \* the state file
  used,        \* ids 1..used have been given out
  accepted,    \* history: records whose enqueue call has returned
  unsaved,     \* history: records whose own save failed
  delivered,   \* history: successful sender calls per record
  abandoned,   \* history: records that became poison
  crashes      \* ends of the process so far

outboxVars == <<records, byKey, pumpAt, ready, current>>
saveVars == <<saves, snapshot, writing, disk>>
historyVars == <<used, accepted, unsaved, delivered, abandoned, crashes>>
vars == <<process, outboxVars, saveVars, historyVars>>

RecordIds == 1..MaxRecords
Pending == {"queued", "retrying"}
Statuses == Pending \cup {"sent", "poison", "absent"}
Records == [key : Keys \cup {NoKey}, status : Statuses,
            attempts : 0..(MaxRetries + 1)]
Stores == [RecordIds -> Records]

NoRecord == [key |-> NoKey, status |-> "absent", attempts |-> 0]
EmptyStore == [id \in RecordIds |-> NoRecord]

(* Who waits for a save: an enqueue of a record, the pump, initialize or stop. *)
Waiters == [who : {"enqueue"}, id : RecordIds] \cup [who : {"pump", "initialize", "stop"}, id : {0}]
Waiter(who, id) == [who |-> who, id |-> id]

TypeOK ==
  /\ process \in {"down", "starting", "running", "stopping"}
  /\ records \in Stores
  /\ byKey \in [Keys -> RecordIds \cup {0}]
  /\ pumpAt \in {"idle", "sweeping", "sending", "taken", "saving"}
  /\ ready \in SUBSET RecordIds
  /\ current \in RecordIds \cup {0}
  /\ saves \in Seq(Waiters)
  /\ snapshot \in Stores
  /\ writing \in BOOLEAN
  /\ disk \in Stores
  /\ used \in 0..MaxRecords
  /\ accepted \in SUBSET RecordIds
  /\ unsaved \in SUBSET RecordIds
  /\ delivered \in [RecordIds -> Nat]
  /\ abandoned \in SUBSET RecordIds
  /\ crashes \in Nat

Init ==
  /\ process = "down"
  /\ records = EmptyStore
  /\ byKey = [k \in Keys |-> 0]
  /\ pumpAt = "idle"
  /\ ready = {}
  /\ current = 0
  /\ saves = <<>>
  /\ snapshot = EmptyStore
  /\ writing = FALSE
  /\ disk = EmptyStore
  /\ used = 0
  /\ accepted = {}
  /\ unsaved = {}
  /\ delivered = [id \in RecordIds |-> 0]
  /\ abandoned = {}
  /\ crashes = 0

------------------------------------------------------------------------------
(* The process. *)

IndexOf(store) ==
  [k \in Keys |-> IF \E id \in RecordIds : store[id].key = k
                  THEN CHOOSE id \in RecordIds : store[id].key = k
                  ELSE 0]

(* initialize: the file is loaded and saved again; the timer starts after that.  Files are *)
(* renamed into place whole, so that none is torn; that the read itself fails, when        *)
(* initialize starts with an empty store and saves that, is left out.                      *)
Initialize ==
  /\ process = "down"
  /\ process' = "starting"
  /\ records' = disk
  /\ byKey' = IndexOf(disk)
  /\ saves' = <<Waiter("initialize", 0)>>
  /\ UNCHANGED <<pumpAt, ready, current, snapshot, writing, disk, historyVars>>

Stop ==
  /\ process = "running"
  /\ crashes < MaxCrashes
  /\ process' = "stopping"
  /\ saves' = Append(saves, Waiter("stop", 0))
  /\ UNCHANGED <<outboxVars, snapshot, writing, disk, historyVars>>

(* The process ends, at any point: memory goes, the file stays. *)
Crash ==
  /\ process # "down"
  /\ crashes < MaxCrashes
  /\ crashes' = crashes + 1
  /\ process' = "down"
  /\ records' = EmptyStore
  /\ byKey' = [k \in Keys |-> 0]
  /\ pumpAt' = "idle"
  /\ ready' = {}
  /\ current' = 0
  /\ saves' = <<>>
  /\ snapshot' = EmptyStore
  /\ writing' = FALSE
  /\ UNCHANGED <<disk, used, accepted, unsaved, delivered, abandoned>>

------------------------------------------------------------------------------
(* enqueue.  A key whose record is not poison is answered with that record *)
(* and changes nothing; a poison record is replaced.                       *)

(* Mutant: any record that was not sent yet is replaced. *)
ReplaceableUnlessSent(key) == byKey[key] \in RecordIds => records[byKey[key]].status # "sent"

Replaceable(key) == byKey[key] \in RecordIds => records[byKey[key]].status = "poison"

Enqueue(key) ==
  LET id == used + 1
      created == [key |-> key, status |-> "queued", attempts |-> 0]
  IN /\ process \in {"running", "stopping"}
     /\ used < MaxRecords
     /\ Replaceable(key)
     /\ used' = id
     /\ records' = [r \in RecordIds |-> IF r = id THEN created
                                        ELSE IF r = byKey[key] THEN NoRecord
                                        ELSE records[r]]
     /\ byKey' = [byKey EXCEPT ![key] = id]
     /\ saves' = Append(saves, Waiter("enqueue", id))
     /\ UNCHANGED <<process, pumpAt, ready, current, snapshot, writing, disk,
                    accepted, unsaved, delivered, abandoned, crashes>>

------------------------------------------------------------------------------
(* The pump.  The timer calls it all the time and enqueue calls it too, so *)
(* a pass may begin whenever none is running.                              *)

(* Mutant: a record that failed once is never picked up again. *)
PendingIdsQueuedOnly == {id \in RecordIds : records[id].status = "queued"}

PendingIds == {id \in RecordIds : records[id].status \in Pending}

(* Mutant: the sweep takes whatever has not just been queued. *)
SettledOrRetrying == {id \in RecordIds : records[id].status \notin {"queued", "absent"}}

Settled == {id \in RecordIds : records[id].status \in {"sent", "poison"}}

(* What a pass may find due: the clock decides. *)
DueSets == SUBSET PendingIds

(* attemptSend returns at once for every record when the outbox is closed, and
   for one that is gone; otherwise it calls the sender and waits. *)
Sendable(ids) == {id \in ids : process # "stopping" /\ records[id].status # "absent"}

(* The rest of a pass, up to its next await: the oldest record left is sent. *)
Advance(rest) ==
  \/ /\ Sendable(rest) = {}
     /\ pumpAt' = "idle"
     /\ ready' = {}
     /\ current' = 0
  \/ \E first \in Sendable(rest) :
       /\ \A other \in Sendable(rest) : first <= other
       /\ pumpAt' = "sending"
       /\ ready' = {id \in rest : id > first}
       /\ current' = first

PumpStarts(ids) ==
  /\ process = "running"
  /\ pumpAt = "idle"
  /\ ids \in DueSets \ {{}}
  /\ Advance(ids)
  /\ UNCHANGED <<process, records, byKey, saveVars, historyVars>>

(* Mutant: the sweep leaves the index alone. *)
SweepRecordsOnly(ids) ==
  /\ process = "running"
  /\ pumpAt = "idle"
  /\ ids # {} /\ ids \subseteq Settled
  /\ pumpAt' = "sweeping"
  /\ records' = [id \in RecordIds |-> IF id \in ids THEN NoRecord ELSE records[id]]
  /\ saves' = Append(saves, Waiter("pump", 0))
  /\ UNCHANGED <<process, byKey, ready, current, snapshot, writing, disk, historyVars>>

(* cleanupCompletedRecords, at most once a minute, before the pass. *)
Sweep(ids) ==
  /\ process = "running"
  /\ pumpAt = "idle"
  /\ ids # {} /\ ids \subseteq Settled
  /\ pumpAt' = "sweeping"
  /\ records' = [id \in RecordIds |-> IF id \in ids THEN NoRecord ELSE records[id]]
  /\ byKey' = [k \in Keys |-> IF \E id \in ids : records[id].key = k THEN 0 ELSE byKey[k]]
  /\ saves' = Append(saves, Waiter("pump", 0))
  /\ UNCHANGED <<process, ready, current, snapshot, writing, disk, historyVars>>

(* The platform takes the message.  Its answer may still be lost: SendFails. *)
PlatformTakes ==
  /\ pumpAt = "sending"
  /\ pumpAt' = "taken"
  /\ delivered' = [delivered EXCEPT ![current] = @ + 1]
  /\ UNCHANGED <<process, records, byKey, ready, current, saveVars,
                 used, accepted, unsaved, abandoned, crashes>>

(* Mutant: a sent record stays in the queue. *)
SendSucceedsUnmarked ==
  /\ pumpAt = "taken"
  /\ pumpAt' = "saving"
  /\ saves' = Append(saves, Waiter("pump", 0))
  /\ UNCHANGED <<process, records, byKey, ready, current, snapshot, writing, disk, historyVars>>

SendSucceeds ==
  /\ pumpAt = "taken"
  /\ records' = [records EXCEPT ![current].status = "sent",
                                ![current].attempts = @ + 1]
  /\ pumpAt' = "saving"
  /\ saves' = Append(saves, Waiter("pump", 0))
  /\ UNCHANGED <<process, byKey, ready, current, snapshot, writing, disk, historyVars>>

(* Mutant: one retry too many. *)
ExhaustedLate(attempts) == attempts > MaxRetries + 1

Exhausted(attempts) == attempts > MaxRetries

SendFails ==
  LET attempts == records[current].attempts + 1
  IN /\ pumpAt \in {"sending", "taken"}
     /\ records' = [records EXCEPT
                     ![current].attempts = attempts,
                     ![current].status = IF Exhausted(attempts) THEN "poison" ELSE "retrying"]
     /\ abandoned' = IF Exhausted(attempts) THEN abandoned \cup {current} ELSE abandoned
     /\ pumpAt' = "saving"
     /\ saves' = Append(saves, Waiter("pump", 0))
     /\ UNCHANGED <<process, byKey, ready, current, snapshot, writing, disk,
                    used, accepted, unsaved, delivered, crashes>>

------------------------------------------------------------------------------
(* The chain of saves.  Each one lists the records as they are when it     *)
(* gets to write, and resumes its caller whether or not it succeeded.      *)

TakeSnapshot ==
  /\ saves # <<>>
  /\ ~writing
  /\ writing' = TRUE
  /\ snapshot' = records
  /\ UNCHANGED <<process, outboxVars, saves, disk, historyVars>>

Resume(waiter, ok) ==
  CASE waiter.who = "initialize" ->
         /\ process' = IF process = "starting" THEN "running" ELSE process
         /\ UNCHANGED <<outboxVars, accepted, unsaved>>
    [] waiter.who = "stop" -> UNCHANGED <<process, outboxVars, accepted, unsaved>>
    [] waiter.who = "enqueue" ->
         /\ accepted' = accepted \cup {waiter.id}
         /\ unsaved' = IF ok THEN unsaved ELSE unsaved \cup {waiter.id}
         /\ UNCHANGED <<process, outboxVars>>
    [] OTHER ->
         /\ IF pumpAt = "sweeping" THEN \E ids \in DueSets : Advance(ids) ELSE Advance(ready)
         /\ UNCHANGED <<process, records, byKey, accepted, unsaved>>

(* Mutant: the file is written in place, so a failed save leaves it empty. *)
SaveEndsInPlace(ok) ==
  /\ writing
  /\ writing' = FALSE
  /\ disk' = IF ok THEN snapshot ELSE EmptyStore
  /\ saves' = Tail(saves)
  /\ Resume(Head(saves), ok)
  /\ snapshot' = EmptyStore
  /\ UNCHANGED <<used, delivered, abandoned, crashes>>

SaveEnds(ok) ==
  /\ writing
  /\ writing' = FALSE
  /\ disk' = IF ok THEN snapshot ELSE disk
  /\ saves' = Tail(saves)
  /\ Resume(Head(saves), ok)
  /\ snapshot' = EmptyStore
  /\ UNCHANGED <<used, delivered, abandoned, crashes>>

SaveSucceeds == SaveEnds(TRUE)
SaveFails == SaveEnds(FALSE)

------------------------------------------------------------------------------
Next ==
  \/ Initialize
  \/ Stop
  \/ Crash
  \/ \E key \in Keys : Enqueue(key)
  \/ \E ids \in SUBSET RecordIds : PumpStarts(ids)
  \/ \E ids \in SUBSET RecordIds : Sweep(ids)
  \/ PlatformTakes
  \/ SendSucceeds
  \/ SendFails
  \/ TakeSnapshot
  \/ SaveSucceeds
  \/ SaveFails

(* A stopping process exits and the service manager starts it again, each backoff ends and *)
(* the timer then starts a pass, and the platform and the file system answer every call. *)
Fairness ==
  /\ WF_vars(Initialize)
  /\ WF_vars(process = "stopping" /\ Crash)
  /\ \A id \in RecordIds : WF_vars(\E ids \in DueSets : id \in ids /\ PumpStarts(ids))
  /\ WF_vars(PlatformTakes \/ SendSucceeds \/ SendFails)
  /\ WF_vars(TakeSnapshot)
  /\ WF_vars(SaveSucceeds \/ SaveFails)

Spec == Init /\ [][Next]_vars

FairSpec == Spec /\ Fairness

------------------------------------------------------------------------------
(* Properties. *)

Exists(id) == records[id].status # "absent"

(* The records and the index by key never drift apart: every key leads to
   the one record that carries it, and every record is found by its key. *)
KeyIndexSound ==
  /\ \A id \in RecordIds : Exists(id) => records[id].key \in Keys /\ byKey[records[id].key] = id
  /\ \A k \in Keys : byKey[k] # 0 => records[byKey[k]].key = k

(* A pass snapshots the records it will attempt and yields between them:
   none of those may have been sent, given up or replaced meanwhile. *)
PassNotStale ==
  /\ \A id \in ready : records[id].status \in Pending
  /\ pumpAt \in {"sending", "taken"} => records[current].status \in Pending /\ current \notin ready

(* A record is poison exactly when its budget of MaxRetries retries is spent. *)
RetryBudget ==
  \A id \in RecordIds :
    /\ records[id].status \in Pending => records[id].attempts <= MaxRetries
    /\ records[id].status = "poison" => records[id].attempts = MaxRetries + 1

(* However answers are lost and crashes fall, one life of the process hands a
   message to the platform at most MaxRetries + 1 times. *)
DeliveryBound == \A id \in RecordIds : delivered[id] <= (MaxRetries + 1) * (crashes + 1)

(* A pass hands over nothing that it, an answer, a sweep or a restart has dealt with:
   what it is about to send, and what it sends, is pending. *)
PassIsCurrent ==
  [][/\ PassNotStale
     /\ \A id \in RecordIds : delivered'[id] # delivered[id] => records[id].status \in Pending]_vars

(* Neither the record's own budget nor the platform's count of hand-overs is exceeded. *)
DeliveryBudget == RetryBudget /\ DeliveryBound

(* The state file never says that a message was sent when it was not. *)
SentOnDiskWasDelivered == \A id \in RecordIds : disk[id].status = "sent" => delivered[id] > 0

(* Once enqueue has returned and its save did not fail, the message is on
   disk waiting to be sent, or it was delivered, or it was given up: no
   crash and no retention sweep loses it. *)
NoSilentLoss ==
  \A id \in accepted \ unsaved :
    disk[id].status \in Pending \/ delivered[id] > 0 \/ id \in abandoned

(* What a restart reads neither invents a delivery nor loses a message. *)
DiskIsTrue == SentOnDiskWasDelivered /\ NoSilentLoss

(* A message on disk is delivered or given up in the end. *)
PromisedIsSettled ==
  \A id \in RecordIds :
    (id \in accepted \ unsaved) ~> (delivered[id] > 0 \/ id \in abandoned)

(* The outbox implements durable delivery: the file makes the promise. *)
PhaseOf(id) ==
  CASE delivered[id] > 0 -> "delivered"
    [] delivered[id] = 0 /\ id \in abandoned -> "abandoned"
    [] delivered[id] = 0 /\ id \notin abandoned /\ disk[id].status \in Pending -> "promised"
    [] OTHER -> IF id <= used THEN "offered" ELSE "unseen"

Delivery == INSTANCE DurableDelivery WITH
              Messages <- RecordIds, phase <- [id \in RecordIds |-> PhaseOf(id)]

ImplementsDurableDelivery == Delivery!Spec

==============================================================================
