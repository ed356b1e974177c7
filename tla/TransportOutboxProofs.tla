------------------------ MODULE TransportOutboxProofs ------------------------
(***************************************************************************)
(* The safety properties of TransportOutbox for every number of keys,      *)
(* records, retries and crashes.                                           *)
(*                                                                         *)
(* None of the properties is inductive alone.  NoSilentLoss speaks of the  *)
(* file, which is written from a snapshot, which is taken from memory,     *)
(* which is loaded from the file: the invariant says the same of all three *)
(* and of the records whose save is still waiting in the chain.            *)
(***************************************************************************)
EXTENDS TransportOutbox, TLAPS

Budget == MaxRetries + 1

(* What every set of records, in memory, in a snapshot or on disk, obeys. *)
StoreSound(store) ==
  /\ \A id \in RecordIds : store[id].status # "absent" => id <= used /\ store[id].key \in Keys
  /\ \A id \in RecordIds : store[id].status = "absent" => store[id] = NoRecord
  /\ \A a, b \in RecordIds : store[a].key = store[b].key /\ store[a].key \in Keys => a = b
  /\ \A id \in RecordIds : store[id].status \in Pending => store[id].attempts <= MaxRetries
  /\ \A id \in RecordIds : store[id].status = "poison" =>
       store[id].attempts = Budget /\ id \in abandoned
  /\ \A id \in RecordIds : store[id].status = "sent" => delivered[id] > 0

StoresSound == StoreSound(records) /\ StoreSound(snapshot) /\ StoreSound(disk)

ChainSound ==
  /\ process = "down" => saves = <<>> /\ pumpAt = "idle" /\ ready = {}
  /\ writing => saves # <<>>
  /\ \A i \in 1..Len(saves) : saves[i].who = "pump" => pumpAt \in {"sweeping", "saving"}
  /\ \A i, j \in 1..Len(saves) : saves[i].who = "pump" /\ saves[j].who = "pump" => i = j

PassSound ==
  /\ \A id \in ready : records[id].status \in Pending
  /\ pumpAt \in {"sending", "taken"} =>
       current \in RecordIds \ ready /\ records[current].status \in Pending
  /\ pumpAt = "taken" => delivered[current] > 0

(* How often a record can have reached the platform by now. *)
Spent(id) ==
  IF process = "down" THEN Budget * crashes
  ELSE IF records[id].status \notin Pending THEN Budget * crashes + Budget
  ELSE IF pumpAt = "taken" /\ current = id THEN Budget * crashes + records[id].attempts + 1
  ELSE Budget * crashes + records[id].attempts

DeliverySound ==
  /\ \A id \in RecordIds : id > used => delivered[id] = 0
  /\ \A id \in RecordIds : delivered[id] <= Spent(id)

Kept(store, id) == store[id].status \in Pending \/ delivered[id] > 0 \/ id \in abandoned

LossSound ==
  /\ \A id \in accepted : id <= used
  /\ \A i \in 1..Len(saves) :
       saves[i].who = "enqueue" => saves[i].id <= used /\ Kept(records, saves[i].id)
  /\ writing /\ saves[1].who = "enqueue" => Kept(snapshot, saves[1].id)
  /\ \A id \in accepted \ unsaved :
       /\ Kept(disk, id)
       /\ process # "down" => Kept(records, id)
       /\ writing => Kept(snapshot, id)

IInv ==
  /\ TypeOK
  /\ StoresSound
  /\ KeyIndexSound
  /\ ChainSound
  /\ PassSound
  /\ DeliverySound
  /\ LossSound

------------------------------------------------------------------------------
(* Enough of the type invariant for what a pass may do next. *)
LEMMA AdvanceEffect ==
  ASSUME NEW rest \in SUBSET RecordIds, Advance(rest)
  PROVE  /\ pumpAt' \in {"idle", "sending"}
         /\ ready' \subseteq rest
         /\ current' \in RecordIds \cup {0}
         /\ pumpAt' = "sending" => current' \in rest /\ current' \notin ready'
<1>1. CASE Sendable(rest) = {} /\ pumpAt' = "idle" /\ ready' = {} /\ current' = 0
  BY <1>1
<1>2. ASSUME NEW first \in Sendable(rest), pumpAt' = "sending",
             ready' = {id \in rest : id > first}, current' = first
      PROVE  /\ ready' \subseteq rest
             /\ current' \in rest
             /\ current' \notin ready'
  <2>0. first \in rest /\ first \in RecordIds
    BY DEF Sendable
  <2>1. first \in rest /\ first \in Nat
    BY <2>0, BoundAssumption DEF RecordIds
  <2>2. ~(first > first)
    BY <2>1
  <2> QED
    BY <1>2, <2>1, <2>2
<1> QED
  BY <1>1, <1>2 DEF Advance

LEMMA EmptyStoreSound == StoreSound(EmptyStore) /\ EmptyStore \in Stores
<1>1. NoRecord \in Records
  BY BoundAssumption DEF NoRecord, Records, Statuses
<1>2. EmptyStore \in Stores
  BY <1>1 DEF EmptyStore, Stores
<1>3. \A id \in RecordIds : EmptyStore[id] = NoRecord
  BY DEF EmptyStore
<1>4. NoRecord.key \notin Keys /\ NoRecord.status = "absent"
  BY KeyAssumption DEF NoRecord
<1>5. StoreSound(EmptyStore)
  BY <1>3, <1>4 DEF StoreSound, Pending
<1> QED
  BY <1>2, <1>5

THEOREM InitIInv == Init => IInv
<1> SUFFICES ASSUME Init PROVE IInv
  OBVIOUS
<1>1. TypeOK
  <2>1. records \in Stores /\ snapshot \in Stores /\ disk \in Stores
    BY EmptyStoreSound DEF Init
  <2>2. saves \in Seq(Waiters)
    BY DEF Init
  <2>3. byKey \in [Keys -> RecordIds \cup {0}] /\ delivered \in [RecordIds -> Nat]
    BY DEF Init
  <2>4. used \in 0..MaxRecords
    BY BoundAssumption DEF Init
  <2> QED
    BY <2>1, <2>2, <2>3, <2>4 DEF Init, TypeOK
<1>2. StoresSound
  BY EmptyStoreSound DEF Init, StoresSound
<1>3. KeyIndexSound
  BY BoundAssumption DEF Init, KeyIndexSound, Exists, EmptyStore, NoRecord
<1>4. ChainSound /\ PassSound
  BY DEF Init, ChainSound, PassSound
<1>5. DeliverySound
  BY BoundAssumption DEF Init, DeliverySound, Spent, Budget
<1>6. LossSound
  BY DEF Init, LossSound
<1> QED
  BY <1>1, <1>2, <1>3, <1>4, <1>5, <1>6 DEF IInv

LEMMA InitializeStep == IInv /\ Initialize => IInv'
<1> SUFFICES ASSUME IInv, Initialize PROVE IInv'
  OBVIOUS
<1> USE DEF IInv, outboxVars, saveVars, historyVars
<1>1. TypeOK'
  <2>1. byKey' \in [Keys -> RecordIds \cup {0}]
    BY DEF Initialize, IndexOf
  <2>2. saves' \in Seq(Waiters)
    BY DEF Initialize, Waiters, Waiter
  <2> QED
    BY <2>1, <2>2 DEF Initialize, TypeOK
<1>2. StoresSound'
  BY DEF Initialize, StoresSound, StoreSound
<1>3. KeyIndexSound'
  <2>1. StoreSound(disk) /\ records' = disk /\ byKey' = IndexOf(disk)
    BY DEF Initialize, StoresSound
  <2>2. ASSUME NEW id \in RecordIds, Exists(id)'
        PROVE  records'[id].key \in Keys /\ byKey'[records'[id].key] = id
    BY <2>1, <2>2 DEF StoreSound, Exists, IndexOf
  <2>3. ASSUME NEW k \in Keys, byKey'[k] # 0
        PROVE  records'[byKey'[k]].key = k
    BY <2>1, <2>3 DEF IndexOf
  <2> QED
    BY <2>2, <2>3 DEF KeyIndexSound
<1>4. ChainSound' /\ PassSound'
  BY DEF Initialize, ChainSound, PassSound, Waiter
<1>5. DeliverySound'
  BY BoundAssumption DEF Initialize, DeliverySound, Spent, ChainSound, TypeOK, Stores, Records, Budget
<1>6. LossSound'
  BY DEF Initialize, LossSound, Waiter, Kept, ChainSound
<1> QED
  BY <1>1, <1>2, <1>3, <1>4, <1>5, <1>6

LEMMA StopStep == IInv /\ Stop => IInv'
<1> SUFFICES ASSUME IInv, Stop PROVE IInv'
  OBVIOUS
<1> USE DEF IInv, outboxVars, historyVars
<1>0. /\ saves' \in Seq(Waiters)
      /\ Len(saves') = Len(saves) + 1
      /\ \A i \in 1..Len(saves) : saves'[i] = saves[i]
      /\ saves'[Len(saves) + 1] = Waiter("stop", 0)
  BY DEF Stop, TypeOK, Waiters, Waiter
<1>1. TypeOK'
  BY <1>0 DEF Stop, TypeOK
<1>2. StoresSound' /\ KeyIndexSound' /\ PassSound'
  BY DEF Stop, StoresSound, StoreSound, KeyIndexSound, Exists, PassSound
<1>3. ChainSound'
  <2>1. \A i \in 1..Len(saves') : i \in 1..Len(saves) \/ i = Len(saves) + 1
    BY <1>0 DEF TypeOK
  <2> QED
    BY <1>0, <2>1 DEF Stop, ChainSound, Waiter
<1>4. DeliverySound'
  BY DEF Stop, DeliverySound, Spent
<1>5. LossSound'
  <2>1. \A i \in 1..Len(saves') : i \in 1..Len(saves) \/ i = Len(saves) + 1
    BY <1>0 DEF TypeOK
  <2>2. writing => 1 \in 1..Len(saves)
    BY DEF ChainSound, TypeOK
  <2> QED
    BY <1>0, <2>1, <2>2 DEF Stop, LossSound, Waiter, Kept
<1> QED
  BY <1>1, <1>2, <1>3, <1>4, <1>5

LEMMA CrashStep == IInv /\ Crash => IInv'
<1> SUFFICES ASSUME IInv, Crash PROVE IInv'
  OBVIOUS
<1> USE DEF IInv
<1>1. TypeOK'
  <2>1. records' \in Stores /\ snapshot' \in Stores
    BY EmptyStoreSound DEF Crash
  <2>2. saves' \in Seq(Waiters) /\ byKey' \in [Keys -> RecordIds \cup {0}]
    BY DEF Crash
  <2>3. crashes' \in Nat /\ ready' \in SUBSET RecordIds
    BY DEF Crash, TypeOK
  <2>4. /\ process' = "down" /\ pumpAt' = "idle" /\ current' = 0 /\ writing' = FALSE
        /\ disk' \in Stores /\ used' = used /\ accepted' = accepted /\ unsaved' = unsaved
        /\ delivered' = delivered /\ abandoned' = abandoned
    BY DEF Crash, TypeOK
  <2> QED
    BY <2>1, <2>2, <2>3, <2>4 DEF TypeOK
<1>2. StoresSound'
  <2>1. StoreSound(EmptyStore)' /\ StoreSound(disk)'
    BY EmptyStoreSound DEF Crash, StoresSound, StoreSound, EmptyStore
  <2> QED
    BY <2>1 DEF Crash, StoresSound, StoreSound
<1>3. KeyIndexSound'
  BY DEF Crash, KeyIndexSound, Exists, EmptyStore, NoRecord
<1>4. ChainSound' /\ PassSound'
  BY DEF Crash, ChainSound, PassSound
<1>5. DeliverySound'
  <2>1. ASSUME NEW id \in RecordIds PROVE delivered[id] <= Budget * crashes + Budget
    <3>1. delivered[id] <= Spent(id) /\ delivered[id] \in Nat
      BY DEF DeliverySound, TypeOK
    <3>2. /\ Budget \in Nat /\ crashes \in Nat /\ Budget * crashes \in Nat
          /\ records[id].status \in Pending => records[id].attempts \in 0..MaxRetries
      BY BoundAssumption DEF Budget, TypeOK, StoresSound, StoreSound, Stores, Records
    <3>3. Spent(id) <= Budget * crashes + Budget
      BY <3>2, BoundAssumption DEF Spent, Budget, Crash
    <3> QED
      BY <3>1, <3>2, <3>3 DEF Spent
  <2>2. Budget * crashes + Budget = Budget * crashes'
    BY BoundAssumption DEF Budget, Crash, TypeOK
  <2> QED
    BY <2>1, <2>2 DEF Crash, DeliverySound, Spent
<1>6. LossSound'
  BY DEF Crash, LossSound, Kept
<1> QED
  BY <1>1, <1>2, <1>3, <1>4, <1>5, <1>6

LEMMA Extended ==
  ASSUME NEW S, NEW s \in Seq(S), NEW t \in Seq(S), NEW w,
         Len(t) = Len(s) + 1,
         \A i \in 1..Len(s) : t[i] = s[i],
         t[Len(s) + 1] = w
  PROVE  \A i \in 1..Len(t) : (i \in 1..Len(s) /\ t[i] = s[i]) \/ (i = Len(s) + 1 /\ t[i] = w)
OBVIOUS

(* A caller joins the chain of saves. *)
LEMMA Joined ==
  ASSUME NEW waiter \in Waiters, saves \in Seq(Waiters), saves' = Append(saves, waiter)
  PROVE  /\ saves' \in Seq(Waiters)
         /\ saves' # <<>>
         /\ \A i \in 1..Len(saves') : (i \in 1..Len(saves) /\ saves'[i] = saves[i])
                                      \/ (i = Len(saves) + 1 /\ saves'[i] = waiter)
         /\ saves # <<>> => saves'[1] = saves[1] /\ 1 \in 1..Len(saves)
<1>1. /\ saves' \in Seq(Waiters)
      /\ Len(saves) \in Nat
      /\ Len(saves') = Len(saves) + 1
      /\ \A i \in 1..Len(saves) : saves'[i] = saves[i]
      /\ saves'[Len(saves) + 1] = waiter
  OBVIOUS
<1>3. saves # <<>> => 1 \in 1..Len(saves)
  OBVIOUS
<1>4. saves' # <<>>
  OBVIOUS
<1>5. \A i \in 1..Len(saves') : (i \in 1..Len(saves) /\ saves'[i] = saves[i])
                              \/ (i = Len(saves) + 1 /\ saves'[i] = waiter)
  BY <1>1, Extended
<1> QED
  BY <1>1, <1>3, <1>4, <1>5

LEMMA EnqueueStep == ASSUME NEW key \in Keys PROVE IInv /\ Enqueue(key) => IInv'
<1> SUFFICES ASSUME IInv, Enqueue(key) PROVE IInv'
  OBVIOUS
<1> DEFINE created == [key |-> key, status |-> "queued", attempts |-> 0]
<1> USE DEF IInv
<1>id. PICK id \in RecordIds : id = used + 1 /\ used \in Nat /\ used' = id
  BY BoundAssumption DEF Enqueue, TypeOK, RecordIds
<1>rec. /\ records'[id] = created
        /\ \A r \in RecordIds \ {id} :
             records'[r] = IF r = byKey[key] THEN NoRecord ELSE records[r]
  BY <1>id DEF Enqueue
<1>wait. Waiter("enqueue", id) \in Waiters /\ saves' = Append(saves, Waiter("enqueue", id))
  BY <1>id DEF Waiters, Waiter, Enqueue
<1>join. /\ saves' \in Seq(Waiters)
         /\ saves' # <<>>
         /\ \A i \in 1..Len(saves') : (i \in 1..Len(saves) /\ saves'[i] = saves[i])
                                      \/ (i = Len(saves) + 1 /\ saves'[i] = Waiter("enqueue", id))
         /\ saves # <<>> => saves'[1] = saves[1] /\ 1 \in 1..Len(saves)
  BY <1>wait, Joined DEF TypeOK
<1>fresh. records[id].status = "absent"
  BY <1>id DEF StoresSound, StoreSound
<1>old. \A r \in RecordIds : r = byKey[key] => records[r].status = "poison" /\ records[r].key = key
  BY <1>id DEF Enqueue, Replaceable, KeyIndexSound, TypeOK, RecordIds
<1>1. TypeOK'
  <2>1. created \in Records /\ NoRecord \in Records
    BY BoundAssumption DEF Records, Statuses, Pending, NoRecord
  <2>2. records' \in Stores
    BY <2>1 DEF Enqueue, Stores, TypeOK
  <2>3. byKey' \in [Keys -> RecordIds \cup {0}] /\ used' \in 0..MaxRecords
    BY <1>id DEF Enqueue, TypeOK, RecordIds
  <2> QED
    BY <1>join, <2>2, <2>3 DEF Enqueue, TypeOK
<1>2. StoresSound'
  <2>1. StoreSound(snapshot)' /\ StoreSound(disk)'
    <3>1. \A r \in RecordIds : r <= used => r <= used'
      BY <1>id DEF RecordIds
    <3> QED
      BY <3>1 DEF Enqueue, StoresSound, StoreSound
  <2>2. StoreSound(records)'
    <3>1. \A r \in RecordIds : records'[r].status # "absent" => r <= used' /\ records'[r].key \in Keys
      BY <1>id, <1>rec DEF RecordIds, NoRecord, StoresSound, StoreSound
    <3>2. \A r \in RecordIds : records'[r].status = "absent" => records'[r] = NoRecord
      BY <1>rec DEF StoresSound, StoreSound
    <3>3. ASSUME NEW a \in RecordIds, NEW b \in RecordIds,
                 records'[a].key = records'[b].key, records'[a].key \in Keys
          PROVE  a = b
      <4>1. \A r \in RecordIds : records[r].key = key => r = byKey[key]
        BY KeyAssumption DEF KeyIndexSound, Exists, StoresSound, StoreSound, NoRecord
      <4>2. NoRecord.key \notin Keys
        BY KeyAssumption DEF NoRecord
      <4>3. \A r \in RecordIds \ {id} : records'[r].key \in Keys =>
              records'[r].key = records[r].key /\ records'[r].key # key
        BY <1>rec, <4>1, <4>2
      <4> QED
        BY <3>3, <1>rec, <4>3 DEF StoresSound, StoreSound
    <3>4. \A r \in RecordIds : records'[r].status \in Pending => records'[r].attempts <= MaxRetries
      BY <1>rec, BoundAssumption DEF StoresSound, StoreSound, NoRecord, Pending
    <3>5. \A r \in RecordIds : records'[r].status = "poison" =>
            records'[r].attempts = Budget /\ r \in abandoned'
      BY <1>rec DEF StoresSound, StoreSound, NoRecord, Enqueue
    <3>6. \A r \in RecordIds : records'[r].status = "sent" => delivered'[r] > 0
      BY <1>rec DEF StoresSound, StoreSound, NoRecord, Enqueue
    <3> QED
      BY <3>1, <3>2, <3>3, <3>4, <3>5, <3>6 DEF StoreSound, Budget
  <2> QED
    BY <2>1, <2>2 DEF StoresSound
<1>3. KeyIndexSound'
  <2>1. /\ byKey'[key] = id
        /\ \A k \in Keys \ {key} : byKey'[k] = byKey[k]
    BY <1>id DEF Enqueue, TypeOK
  <2>2. ASSUME NEW r \in RecordIds, Exists(r)'
        PROVE  records'[r].key \in Keys /\ byKey'[records'[r].key] = r
    <3>1. CASE r = id
      BY <3>1, <2>1, <1>rec
    <3>2. CASE r # id
      <4>1. records'[r] = records[r] /\ r # byKey[key] /\ Exists(r)
        BY <3>2, <2>2, <1>rec DEF Exists, NoRecord
      <4>2. records[r].key \in Keys /\ byKey[records[r].key] = r
        BY <4>1 DEF KeyIndexSound
      <4> QED
        BY <4>1, <4>2, <2>1
    <3> QED
      BY <3>1, <3>2
  <2>3. ASSUME NEW k \in Keys, byKey'[k] # 0
        PROVE  records'[byKey'[k]].key = k
    <3>1. CASE k = key
      BY <3>1, <2>1, <1>rec
    <3>2. CASE k # key
      <4>1. byKey[k] \in RecordIds /\ records[byKey[k]].key = k
        BY <3>2, <2>1, <2>3 DEF KeyIndexSound, TypeOK
      <4>2. byKey[k] # id
        BY <4>1, <1>fresh, KeyAssumption DEF StoresSound, StoreSound, NoRecord
      <4>3. byKey[k] # byKey[key]
        BY <4>1, <1>old, <3>2
      <4> QED
        BY <4>1, <4>2, <4>3, <1>rec, <2>1, <3>2
    <3> QED
      BY <3>1, <3>2
  <2> QED
    BY <2>2, <2>3 DEF KeyIndexSound
<1>4. ChainSound'
  BY <1>join DEF Enqueue, ChainSound, Waiter, TypeOK
<1>5. PassSound'
  <2>1. \A r \in RecordIds : records[r].status \in Pending => records'[r] = records[r]
    BY <1>rec, <1>fresh, <1>old DEF Pending
  <2> QED
    BY <2>1 DEF Enqueue, PassSound, TypeOK
<1>6. DeliverySound'
  <2>1. ASSUME NEW r \in RecordIds PROVE delivered'[r] <= Spent(r)'
    <3>1. /\ delivered'[r] = delivered[r] /\ delivered[r] <= Spent(r)
          /\ process' = process /\ crashes' = crashes /\ pumpAt' = pumpAt /\ current' = current
          /\ Budget \in Nat /\ Budget * crashes \in Nat /\ delivered[r] \in Nat /\ process # "down"
      BY BoundAssumption DEF Enqueue, DeliverySound, TypeOK, Budget
    <3>2. CASE r = id
      <4>1. delivered[r] = 0
        BY <3>2, <1>id DEF DeliverySound
      <4>2. r # current \/ pumpAt # "taken"
        BY <3>2, <1>fresh DEF PassSound, Pending
      <4> QED
        BY <3>1, <3>2, <4>1, <4>2, <1>rec DEF Spent
    <3>3. CASE r # id /\ r = byKey[key]
      BY <3>1, <3>3, <1>old, <1>rec DEF Spent, Pending, NoRecord
    <3>4. CASE r # id /\ r # byKey[key]
      BY <3>1, <3>4, <1>rec DEF Spent
    <3> QED
      BY <3>2, <3>3, <3>4
  <2>2. \A r \in RecordIds : r > used' => r > used
    BY <1>id DEF RecordIds
  <2> QED
    BY <2>1, <2>2 DEF DeliverySound, Enqueue
<1>7. LossSound'
  <2>1. \A r \in RecordIds : r <= used /\ Kept(records, r) => Kept(records, r)'
    BY <1>rec, <1>old, <1>id DEF Kept, StoresSound, StoreSound, Enqueue, RecordIds
  <2>2. Kept(records, id)' /\ id <= used'
    BY <1>rec, <1>id DEF Kept, Pending
  <2>3. \A r \in RecordIds : r <= used => r <= used'
    BY <1>id DEF RecordIds
  <2>4. accepted \in SUBSET RecordIds /\ accepted' = accepted /\ unsaved' = unsaved
    BY DEF TypeOK, Enqueue
  <2>5. \A i \in 1..Len(saves) : saves[i].who = "enqueue" => saves[i].id \in RecordIds
    BY DEF TypeOK, Waiters
  <2>6. (\A i \in 1..Len(saves) : saves[i].who = "enqueue" =>
           saves[i].id <= used /\ Kept(records, saves[i].id))'
    BY <1>join, <2>1, <2>2, <2>3, <2>5 DEF LossSound, Waiter
  <2>7. (writing /\ saves[1].who = "enqueue" => Kept(snapshot, saves[1].id))'
    BY <1>join DEF LossSound, ChainSound, Kept, Enqueue
  <2>8. (\A r \in accepted \ unsaved :
           /\ Kept(disk, r)
           /\ process # "down" => Kept(records, r)
           /\ writing => Kept(snapshot, r))'
    BY <2>1, <2>4 DEF LossSound, Kept, Enqueue
  <2>9. \A r \in accepted' : r <= used'
    BY <2>3, <2>4 DEF LossSound
  <2> QED
    BY <2>6, <2>7, <2>8, <2>9 DEF LossSound
<1> QED
  BY <1>1, <1>2, <1>3, <1>4, <1>5, <1>6, <1>7

LEMMA PumpStartsStep == ASSUME NEW ids \in SUBSET RecordIds PROVE IInv /\ PumpStarts(ids) => IInv'
<1> SUFFICES ASSUME IInv, PumpStarts(ids) PROVE IInv'
  OBVIOUS
<1> USE DEF IInv, saveVars, historyVars
<1>0. /\ pumpAt' \in {"idle", "sending"}
      /\ ready' \subseteq ids
      /\ current' \in RecordIds \cup {0}
      /\ pumpAt' = "sending" => current' \in ids /\ current' \notin ready'
  BY AdvanceEffect DEF PumpStarts
<1>1. \A id \in ids : id \in RecordIds /\ records[id].status \in Pending
  BY DEF PumpStarts, DueSets, PendingIds
<1>2. TypeOK' /\ StoresSound' /\ KeyIndexSound'
  BY <1>0, <1>1 DEF PumpStarts, TypeOK, StoresSound, StoreSound, KeyIndexSound, Exists
<1>3. ChainSound'
  BY DEF PumpStarts, ChainSound
<1>4. PassSound'
  BY <1>0, <1>1 DEF PumpStarts, PassSound
<1>5. DeliverySound'
  BY <1>0 DEF PumpStarts, DeliverySound, Spent
<1>6. LossSound'
  BY DEF PumpStarts, LossSound, Kept
<1> QED
  BY <1>2, <1>3, <1>4, <1>5, <1>6

LEMMA SweepStep == ASSUME NEW ids \in SUBSET RecordIds PROVE IInv /\ Sweep(ids) => IInv'
<1> SUFFICES ASSUME IInv, Sweep(ids) PROVE IInv'
  OBVIOUS
<1> USE DEF IInv, historyVars
<1>wait. Waiter("pump", 0) \in Waiters /\ saves' = Append(saves, Waiter("pump", 0))
  BY DEF Waiters, Waiter, Sweep
<1>join. /\ saves' \in Seq(Waiters)
         /\ saves' # <<>>
         /\ \A i \in 1..Len(saves') : \/ (i \in 1..Len(saves) /\ saves'[i] = saves[i])
                                      \/ (i = Len(saves) + 1 /\ saves'[i] = Waiter("pump", 0))
         /\ saves # <<>> => saves'[1] = saves[1] /\ 1 \in 1..Len(saves)
  BY <1>wait, Joined DEF TypeOK
<1>rec. \A r \in RecordIds : records'[r] = IF r \in ids THEN NoRecord ELSE records[r]
  BY DEF Sweep
<1>settled. \A r \in ids : records[r].status \in {"sent", "poison"}
  BY DEF Sweep, Settled
<1>1. TypeOK'
  <2>1. NoRecord \in Records
    BY BoundAssumption DEF Records, Statuses, NoRecord
  <2>2. records' \in Stores
    BY <2>1 DEF Sweep, Stores, TypeOK
  <2>3. byKey' \in [Keys -> RecordIds \cup {0}]
    BY DEF Sweep, TypeOK
  <2> QED
    BY <1>join, <2>2, <2>3 DEF Sweep, TypeOK
<1>2. StoresSound'
  <2>1. StoreSound(snapshot)' /\ StoreSound(disk)'
    BY DEF Sweep, StoresSound, StoreSound
  <2>2. NoRecord.key \notin Keys /\ NoRecord.status = "absent"
    BY KeyAssumption DEF NoRecord
  <2>3. StoreSound(records)'
    BY <1>rec, <2>2 DEF StoresSound, StoreSound, Sweep, Pending
  <2> QED
    BY <2>1, <2>3 DEF StoresSound
<1>3. KeyIndexSound'
  <2>1. \A k \in Keys : byKey'[k] = IF \E r \in ids : records[r].key = k THEN 0 ELSE byKey[k]
    BY DEF Sweep
  <2>2. ASSUME NEW r \in RecordIds, Exists(r)'
        PROVE  records'[r].key \in Keys /\ byKey'[records'[r].key] = r
    <3>1. r \notin ids /\ records'[r] = records[r] /\ Exists(r)
      BY <2>2, <1>rec DEF Exists, NoRecord
    <3>2. records[r].key \in Keys /\ byKey[records[r].key] = r
      BY <3>1 DEF KeyIndexSound
    <3>3. \A other \in ids : records[other].key # records[r].key
      BY <3>1, <3>2 DEF StoresSound, StoreSound
    <3> QED
      BY <3>1, <3>2, <3>3, <2>1
  <2>3. ASSUME NEW k \in Keys, byKey'[k] # 0
        PROVE  records'[byKey'[k]].key = k
    <3>1. byKey'[k] = byKey[k] /\ byKey[k] \in RecordIds /\ records[byKey[k]].key = k
      BY <2>1, <2>3 DEF KeyIndexSound, TypeOK
    <3>2. byKey[k] \notin ids
      BY <2>1, <2>3, <3>1
    <3> QED
      BY <3>1, <3>2, <1>rec
  <2> QED
    BY <2>2, <2>3 DEF KeyIndexSound
<1>4. ChainSound'
  BY <1>join DEF Sweep, ChainSound, Waiter, TypeOK
<1>5. PassSound'
  BY <1>rec, <1>settled DEF Sweep, PassSound, Pending, TypeOK
<1>6. DeliverySound'
  <2>1. ASSUME NEW r \in RecordIds PROVE delivered'[r] <= Spent(r)'
    <3>1. /\ delivered'[r] = delivered[r] /\ delivered[r] <= Spent(r)
          /\ process' = process /\ crashes' = crashes /\ pumpAt = "idle" /\ pumpAt' = "sweeping"
      BY DEF Sweep, DeliverySound
    <3> QED
      BY <3>1, <1>rec, <1>settled DEF Spent, Pending, NoRecord
  <2> QED
    BY <2>1 DEF DeliverySound, Sweep
<1>7. LossSound'
  <2>1. \A r \in RecordIds : Kept(records, r) => Kept(records, r)'
    BY <1>rec, <1>settled DEF Kept, StoresSound, StoreSound, Sweep
  <2>2. \A i \in 1..Len(saves) : saves[i].who = "enqueue" => saves[i].id \in RecordIds
    BY DEF TypeOK, Waiters
  <2>3. (\A i \in 1..Len(saves) : saves[i].who = "enqueue" =>
           saves[i].id <= used /\ Kept(records, saves[i].id))'
    BY <1>join, <2>1, <2>2 DEF LossSound, Waiter, Sweep
  <2>4. (writing /\ saves[1].who = "enqueue" => Kept(snapshot, saves[1].id))'
    BY <1>join DEF LossSound, ChainSound, Kept, Sweep
  <2>5. accepted \in SUBSET RecordIds /\ accepted' = accepted /\ unsaved' = unsaved
    BY DEF TypeOK, Sweep
  <2>6. (\A r \in accepted \ unsaved :
           /\ Kept(disk, r)
           /\ process # "down" => Kept(records, r)
           /\ writing => Kept(snapshot, r))'
    BY <2>1, <2>5 DEF LossSound, Kept, Sweep
  <2> QED
    BY <2>3, <2>4, <2>5, <2>6 DEF LossSound, Sweep
<1> QED
  BY <1>1, <1>2, <1>3, <1>4, <1>5, <1>6, <1>7

LEMMA PlatformTakesStep == IInv /\ PlatformTakes => IInv'
<1> SUFFICES ASSUME IInv, PlatformTakes PROVE IInv'
  OBVIOUS
<1> USE DEF IInv, saveVars
<1>0. /\ current \in RecordIds /\ current \notin ready /\ records[current].status \in Pending
      /\ delivered'[current] = delivered[current] + 1
      /\ \A r \in RecordIds \ {current} : delivered'[r] = delivered[r]
      /\ \A r \in RecordIds : delivered[r] \in Nat
  BY DEF PlatformTakes, PassSound, TypeOK
<1>more. \A r \in RecordIds : delivered'[r] \in Nat /\ (delivered[r] > 0 => delivered'[r] > 0)
  BY <1>0
<1>1. TypeOK'
  <2>1. delivered' \in [RecordIds -> Nat]
    BY <1>0 DEF PlatformTakes, TypeOK
  <2> QED
    BY <2>1 DEF PlatformTakes, TypeOK
<1>2. StoresSound'
  BY <1>more DEF PlatformTakes, StoresSound, StoreSound
<1>3. KeyIndexSound' /\ ChainSound'
  BY DEF PlatformTakes, KeyIndexSound, Exists, ChainSound
<1>4. PassSound'
  BY <1>0 DEF PlatformTakes, PassSound
<1>5. DeliverySound'
  <2>1. ASSUME NEW r \in RecordIds PROVE delivered'[r] <= Spent(r)'
    <3>1. /\ delivered[r] <= Spent(r)
          /\ process' = process /\ crashes' = crashes /\ pumpAt = "sending" /\ pumpAt' = "taken"
          /\ current' = current /\ records' = records /\ process # "down"
      BY DEF PlatformTakes, DeliverySound, ChainSound
    <3>2. Budget \in Nat /\ Budget * crashes \in Nat /\ records[r].attempts \in Nat
      BY BoundAssumption DEF TypeOK, Budget, Stores, Records
    <3>3. CASE r = current
      <4>1. Spent(r) = Budget * crashes + records[r].attempts
        BY <3>1, <3>3, <1>0 DEF Spent
      <4>2. Spent(r)' = Budget * crashes + records[r].attempts + 1
        BY <3>1, <3>3, <1>0 DEF Spent, Budget
      <4> QED
        BY <4>1, <4>2, <3>1, <3>2, <3>3, <1>0
    <3>4. CASE r # current
      BY <3>1, <3>4, <1>0 DEF Spent, Budget
    <3> QED
      BY <3>3, <3>4
  <2>2. \A r \in RecordIds : r > used' => delivered'[r] = 0
    <3>1. current <= used
      BY <1>0 DEF StoresSound, StoreSound, Pending
    <3>2. used \in Nat /\ used' = used /\ current \in Nat
      BY <1>0, BoundAssumption DEF TypeOK, PlatformTakes, RecordIds
    <3> QED
      BY <3>1, <3>2, <1>0 DEF DeliverySound
  <2> QED
    BY <2>1, <2>2 DEF DeliverySound
<1>6. LossSound'
  <2>1. \A i \in 1..Len(saves) : saves[i].who = "enqueue" => saves[i].id \in RecordIds
    BY DEF TypeOK, Waiters
  <2>2. writing => 1 \in 1..Len(saves)
    BY DEF ChainSound, TypeOK
  <2>3. accepted \subseteq RecordIds
    BY DEF TypeOK
  <2> QED
    BY <1>more, <2>1, <2>2, <2>3 DEF PlatformTakes, LossSound, Kept
<1> QED
  BY <1>1, <1>2, <1>3, <1>4, <1>5, <1>6

(* The answer of the platform: both handlers change the current record alone
   and join the chain of saves. *)
LEMMA AnswerStep ==
  ASSUME IInv, SendSucceeds \/ SendFails
  PROVE  IInv'
<1> USE DEF IInv, historyVars
<1>0. /\ current \in RecordIds /\ current \notin ready /\ records[current].status \in Pending
      /\ pumpAt \in {"sending", "taken"} /\ pumpAt' = "saving"
      /\ process # "down"
  BY DEF SendSucceeds, SendFails, PassSound, ChainSound
<1>same. /\ process' = process /\ byKey' = byKey /\ ready' = ready /\ current' = current
         /\ snapshot' = snapshot /\ writing' = writing /\ disk' = disk /\ used' = used
         /\ accepted' = accepted /\ unsaved' = unsaved /\ crashes' = crashes
         /\ delivered' = delivered /\ abandoned \subseteq abandoned'
  BY DEF SendSucceeds, SendFails
<1>try. /\ records[current].attempts \in 0..MaxRetries
        /\ records[current].attempts + 1 \in 0..Budget
        /\ records[current].key \in Keys /\ current <= used
  BY <1>0, BoundAssumption DEF StoresSound, StoreSound, TypeOK, Stores, Records, Budget, Pending
<1>new. /\ records'[current].key = records[current].key
        /\ records'[current].attempts = records[current].attempts + 1
        /\ \/ records'[current].status = "sent" /\ delivered[current] > 0
           \/ records'[current].status = "retrying" /\ records'[current].attempts <= MaxRetries
           \/ /\ records'[current].status = "poison"
              /\ records'[current].attempts = Budget
              /\ current \in abandoned'
        /\ records'[current] \in Records
  <2>0. records[current] \in Records
    BY <1>0 DEF TypeOK, Stores
  <2>1. CASE SendSucceeds
    <3>1. delivered[current] > 0
      BY <2>1 DEF SendSucceeds, PassSound
    <3>2. records'[current] = [records[current] EXCEPT !.status = "sent", !.attempts = @ + 1]
      BY <2>1, <1>0 DEF SendSucceeds, TypeOK, Stores
    <3> QED
      BY <2>0, <3>1, <3>2, <1>try DEF Records, Statuses, Budget
  <2>2. CASE SendFails
    <3> DEFINE tries == records[current].attempts + 1
    <3>1. tries \in 0..Budget /\ (tries > MaxRetries => tries = Budget)
          /\ (~(tries > MaxRetries) => tries <= MaxRetries)
      BY <1>try, BoundAssumption DEF Budget
    <3>2. records'[current] =
            [records[current] EXCEPT !.attempts = tries,
                                     !.status = IF tries > MaxRetries THEN "poison" ELSE "retrying"]
      BY <2>2, <1>0 DEF SendFails, TypeOK, Stores, Exhausted
    <3>3. tries > MaxRetries => current \in abandoned'
      BY <2>2 DEF SendFails, Exhausted
    <3> HIDE DEF tries
    <3>4. records'[current] \in Records
      BY <2>0, <3>1, <3>2 DEF Records, Statuses, Pending, Budget
    <3>5. records'[current].attempts = tries /\ records'[current].key = records[current].key
          /\ records'[current].status = IF tries > MaxRetries THEN "poison" ELSE "retrying"
      BY <2>0, <3>2 DEF Records
    <3> QED
      BY <3>1, <3>3, <3>4, <3>5 DEF tries
  <2> QED
    BY <2>1, <2>2
<1>rest. \A r \in RecordIds \ {current} : records'[r] = records[r]
  BY DEF SendSucceeds, SendFails, TypeOK, Stores
<1>wait. Waiter("pump", 0) \in Waiters /\ saves' = Append(saves, Waiter("pump", 0))
  BY DEF Waiters, Waiter, SendSucceeds, SendFails
<1>join. /\ saves' \in Seq(Waiters)
         /\ saves' # <<>>
         /\ \A i \in 1..Len(saves') : \/ (i \in 1..Len(saves) /\ saves'[i] = saves[i])
                                      \/ (i = Len(saves) + 1 /\ saves'[i] = Waiter("pump", 0))
         /\ saves # <<>> => saves'[1] = saves[1] /\ 1 \in 1..Len(saves)
  BY <1>wait, Joined DEF TypeOK
<1>1. TypeOK'
  <2>1. records' \in Stores
    BY <1>new, <1>rest DEF SendSucceeds, SendFails, TypeOK, Stores
  <2>2. abandoned' \in SUBSET RecordIds
    BY <1>0 DEF SendSucceeds, SendFails, TypeOK
  <2> QED
    BY <1>0, <1>same, <1>join, <2>1, <2>2 DEF TypeOK
<1>2. StoresSound'
  <2>1. StoreSound(snapshot)' /\ StoreSound(disk)'
    BY <1>same DEF StoresSound, StoreSound
  <2>2. \A r \in RecordIds : records'[r].key = records[r].key
    BY <1>new, <1>rest
  <2>3. StoreSound(records)'
    <3>1. \A r \in RecordIds : records'[r].status # "absent" => r <= used' /\ records'[r].key \in Keys
      BY <1>new, <1>rest, <1>try, <1>same, <2>2 DEF StoresSound, StoreSound
    <3>2. \A r \in RecordIds : records'[r].status = "absent" => records'[r] = NoRecord
      BY <1>new, <1>rest DEF StoresSound, StoreSound
    <3>3. \A a, b \in RecordIds : records'[a].key = records'[b].key /\ records'[a].key \in Keys => a = b
      BY <2>2 DEF StoresSound, StoreSound
    <3>4. \A r \in RecordIds : records'[r].status \in Pending => records'[r].attempts <= MaxRetries
      BY <1>new, <1>rest DEF StoresSound, StoreSound, Pending
    <3>5. \A r \in RecordIds : records'[r].status = "poison" =>
            records'[r].attempts = Budget /\ r \in abandoned'
      BY <1>new, <1>rest, <1>same DEF StoresSound, StoreSound
    <3>6. \A r \in RecordIds : records'[r].status = "sent" => delivered'[r] > 0
      BY <1>new, <1>rest, <1>same DEF StoresSound, StoreSound
    <3> QED
      BY <3>1, <3>2, <3>3, <3>4, <3>5, <3>6 DEF StoreSound, Budget
  <2> QED
    BY <2>1, <2>3 DEF StoresSound
<1>3. KeyIndexSound'
  <2>1. \A r \in RecordIds : records'[r].key = records[r].key /\ (Exists(r)' => Exists(r))
    BY <1>new, <1>rest, <1>0 DEF Exists, Pending
  <2>2. \A k \in Keys : byKey[k] \in RecordIds \cup {0}
    BY DEF TypeOK
  <2> QED
    BY <2>1, <2>2, <1>same DEF KeyIndexSound
<1>4. ChainSound'
  BY <1>join, <1>0, <1>same DEF ChainSound, TypeOK
<1>5. PassSound'
  BY <1>rest, <1>0, <1>same DEF PassSound, TypeOK
<1>6. DeliverySound'
  <2>1. ASSUME NEW r \in RecordIds PROVE delivered[r] <= Spent(r)'
    <3>1. /\ delivered[r] <= Spent(r) /\ delivered[r] \in Nat
          /\ Budget \in Nat /\ crashes \in Nat /\ Budget * crashes \in Nat
          /\ records[r].attempts \in Nat
      BY BoundAssumption DEF DeliverySound, TypeOK, Budget, Stores, Records
    <3>2. CASE r = current
      <4>1. Spent(r) <= Budget * crashes + records[r].attempts + 1
        BY <3>1, <3>2, <1>0 DEF Spent, Budget
      <4>2. Spent(r)' >= Budget * crashes + records[r].attempts + 1
        BY <3>1, <3>2, <1>0, <1>new, <1>same, <1>try DEF Spent, Budget, Pending
      <4>3. Spent(r) \in Nat /\ Spent(r)' \in Nat
        BY <3>1, <3>2, <1>0, <1>new, <1>same DEF Spent, Budget
      <4> QED
        BY <3>1, <4>1, <4>2, <4>3
    <3>3. CASE r # current
      BY <3>1, <3>3, <1>0, <1>rest, <1>same DEF Spent, Budget
    <3> QED
      BY <3>2, <3>3
  <2> QED
    BY <2>1, <1>same DEF DeliverySound
<1>7. LossSound'
  <2>1. \A r \in RecordIds : Kept(records, r) => Kept(records, r)'
    BY <1>new, <1>rest, <1>same DEF Kept, Pending
  <2>2. \A i \in 1..Len(saves) : saves[i].who = "enqueue" => saves[i].id \in RecordIds
    BY DEF TypeOK, Waiters
  <2>3. (\A i \in 1..Len(saves) : saves[i].who = "enqueue" =>
           saves[i].id <= used /\ Kept(records, saves[i].id))'
    BY <1>join, <2>1, <2>2, <1>same DEF LossSound, Waiter
  <2>4. (writing /\ saves[1].who = "enqueue" => Kept(snapshot, saves[1].id))'
    BY <1>join, <1>same DEF LossSound, ChainSound, Kept
  <2>5. accepted \in SUBSET RecordIds
    BY DEF TypeOK
  <2>6. (\A r \in accepted \ unsaved :
           /\ Kept(disk, r)
           /\ process # "down" => Kept(records, r)
           /\ writing => Kept(snapshot, r))'
    BY <2>1, <2>5, <1>same DEF LossSound, Kept
  <2> QED
    BY <2>3, <2>4, <2>6, <1>same DEF LossSound
<1> QED
  BY <1>1, <1>2, <1>3, <1>4, <1>5, <1>6, <1>7

LEMMA TakeSnapshotStep == IInv /\ TakeSnapshot => IInv'
<1> SUFFICES ASSUME IInv, TakeSnapshot PROVE IInv'
  OBVIOUS
<1> USE DEF IInv, outboxVars, historyVars
<1>1. TypeOK'
  BY DEF TakeSnapshot, TypeOK
<1>2. StoresSound'
  BY DEF TakeSnapshot, StoresSound, StoreSound
<1>3. KeyIndexSound' /\ ChainSound' /\ PassSound'
  BY DEF TakeSnapshot, KeyIndexSound, Exists, ChainSound, PassSound
<1>4. DeliverySound'
  BY DEF TakeSnapshot, DeliverySound, Spent
<1>5. LossSound'
  <2>1. process # "down" /\ 1 \in 1..Len(saves)
    BY DEF TakeSnapshot, ChainSound, TypeOK
  <2> QED
    BY <2>1 DEF TakeSnapshot, LossSound, Kept
<1> QED
  BY <1>1, <1>2, <1>3, <1>4, <1>5

(* The end of a save: its caller leaves the chain and goes on. *)
LEMMA SaveEndsStep == ASSUME NEW ok \in BOOLEAN PROVE IInv /\ SaveEnds(ok) => IInv'
<1> SUFFICES ASSUME IInv, SaveEnds(ok) PROVE IInv'
  OBVIOUS
<1> USE DEF IInv
<1> DEFINE waiter == saves[1]
<1>head. /\ 1 \in 1..Len(saves) /\ waiter \in Waiters /\ Head(saves) = waiter
         /\ saves' = Tail(saves) /\ saves' \in Seq(Waiters)
         /\ Len(saves') = Len(saves) - 1
         /\ \A i \in 1..Len(saves') : i + 1 \in 1..Len(saves) /\ saves'[i] = saves[i + 1]
         /\ process # "down" /\ writing
  BY DEF SaveEnds, ChainSound, TypeOK
<1>same. /\ records' = records /\ byKey' = byKey /\ used' = used /\ delivered' = delivered
         /\ abandoned' = abandoned /\ crashes' = crashes
         /\ snapshot' = EmptyStore /\ writing' = FALSE
         /\ disk' = IF ok THEN snapshot ELSE disk
  BY DEF SaveEnds, Resume, outboxVars
<1>resume. Resume(waiter, ok)
  BY <1>head DEF SaveEnds
<1>up. process' \in {"starting", "running", "stopping"}
  BY <1>resume, <1>head DEF Resume, TypeOK
<1>said. /\ accepted' = IF waiter.who = "enqueue" THEN accepted \cup {waiter.id} ELSE accepted
         /\ unsaved \subseteq unsaved'
         /\ unsaved' \subseteq IF waiter.who = "enqueue" THEN unsaved \cup {waiter.id} ELSE unsaved
         /\ waiter.who = "enqueue" => waiter.id \in RecordIds
  BY <1>resume, <1>head DEF Resume, Waiters
<1>pump. \/ waiter.who # "pump" /\ pumpAt' = pumpAt /\ ready' = ready /\ current' = current
         \/ /\ waiter.who = "pump" /\ pumpAt \in {"sweeping", "saving"}
            /\ pumpAt' \in {"idle", "sending"}
            /\ current' \in RecordIds \cup {0}
            /\ ready' \subseteq RecordIds
            /\ \A id \in ready' : records[id].status \in Pending
            /\ pumpAt' = "sending" => /\ current' \in RecordIds \ ready'
                                      /\ records[current'].status \in Pending
  <2>1. CASE waiter.who # "pump"
    BY <2>1, <1>resume, <1>head DEF Resume, outboxVars, Waiters
  <2>2. CASE waiter.who = "pump"
    <3>1. pumpAt \in {"sweeping", "saving"}
      BY <2>2, <1>head DEF ChainSound
    <3>2. PICK rest \in SUBSET RecordIds :
            Advance(rest) /\ (\A id \in rest : records[id].status \in Pending)
      <4>1. \A ids \in DueSets : ids \in SUBSET RecordIds /\ (\A id \in ids : records[id].status \in Pending)
        BY DEF DueSets, PendingIds
      <4>2. ready \in SUBSET RecordIds /\ (\A id \in ready : records[id].status \in Pending)
        BY DEF TypeOK, PassSound
      <4> QED
        BY <2>2, <4>1, <4>2, <1>resume DEF Resume
    <3>3. /\ pumpAt' \in {"idle", "sending"}
          /\ ready' \subseteq rest
          /\ current' \in RecordIds \cup {0}
          /\ pumpAt' = "sending" => current' \in rest /\ current' \notin ready'
      BY <3>2, AdvanceEffect
    <3> QED
      BY <2>2, <3>1, <3>2, <3>3
  <2> QED
    BY <2>1, <2>2
<1>1. TypeOK'
  <2>1. pumpAt' \in {"idle", "sweeping", "sending", "taken", "saving"}
        /\ current' \in RecordIds \cup {0} /\ ready' \in SUBSET RecordIds
    BY <1>pump DEF TypeOK
  <2>2. accepted' \in SUBSET RecordIds /\ unsaved' \in SUBSET RecordIds
    BY <1>said DEF TypeOK
  <2> QED
    BY <2>1, <2>2, <1>head, <1>same, <1>up, EmptyStoreSound DEF TypeOK
<1>2. StoresSound'
  <2>1. StoreSound(EmptyStore)'
    BY EmptyStoreSound, <1>same DEF StoreSound, EmptyStore
  <2>2. StoreSound(disk)' /\ StoreSound(records)'
    BY <1>same DEF StoresSound, StoreSound
  <2> QED
    BY <2>1, <2>2, <1>same DEF StoresSound, StoreSound
<1>3. KeyIndexSound'
  BY <1>same DEF KeyIndexSound, Exists
<1>4. ChainSound'
  <2>1. ASSUME NEW i \in 1..Len(saves'), saves'[i].who = "pump"
        PROVE  pumpAt' \in {"sweeping", "saving"}
    <3>1. i + 1 \in 1..Len(saves) /\ saves[i + 1].who = "pump" /\ i + 1 # 1
      BY <2>1, <1>head
    <3>2. waiter.who # "pump" /\ pumpAt \in {"sweeping", "saving"}
      BY <3>1, <1>head DEF ChainSound
    <3> QED
      BY <3>2, <1>pump
  <2>2. ASSUME NEW i \in 1..Len(saves'), NEW j \in 1..Len(saves'),
               saves'[i].who = "pump", saves'[j].who = "pump"
        PROVE  i = j
    <3>1. i + 1 \in 1..Len(saves) /\ saves[i + 1].who = "pump"
      BY <2>2, <1>head
    <3>2. j + 1 \in 1..Len(saves) /\ saves[j + 1].who = "pump"
      BY <2>2, <1>head
    <3>3. i + 1 = j + 1
      BY <3>1, <3>2 DEF ChainSound
    <3> QED
      BY <3>3
  <2> QED
    BY <2>1, <2>2, <1>same, <1>up DEF ChainSound
<1>5. PassSound'
  BY <1>pump, <1>same DEF PassSound
<1>6. DeliverySound'
  BY <1>pump, <1>same, <1>up, <1>head DEF DeliverySound, Spent
<1>7. LossSound'
  <2>1. \A r \in RecordIds : Kept(records, r)' = Kept(records, r)
    BY <1>same DEF Kept
  <2>2. \A i \in 1..Len(saves) : saves[i].who = "enqueue" => saves[i].id \in RecordIds
    BY DEF TypeOK, Waiters
  <2>3. (\A i \in 1..Len(saves) : saves[i].who = "enqueue" =>
           saves[i].id <= used /\ Kept(records, saves[i].id))'
    BY <1>head, <1>same, <2>1, <2>2 DEF LossSound
  <2>4. \A r \in accepted' \ unsaved' : Kept(disk, r)' /\ Kept(records, r)
    <3> SUFFICES ASSUME NEW r \in accepted' \ unsaved' PROVE Kept(disk, r)' /\ Kept(records, r)
      OBVIOUS
    <3>1. CASE r \in accepted
      BY <3>1, <1>said, <1>same, <1>head DEF LossSound, Kept
    <3>2. CASE r \notin accepted
      <4>1. waiter.who = "enqueue" /\ r = waiter.id /\ ok
        BY <3>2, <1>said, <1>resume DEF Resume
      <4> QED
        BY <4>1, <1>same, <1>head DEF LossSound, Kept
    <3> QED
      BY <3>1, <3>2
  <2>5. \A r \in accepted' : r <= used'
    BY <1>said, <1>same, <1>head DEF LossSound
  <2>6. accepted' \subseteq RecordIds
    BY <1>said DEF TypeOK
  <2> QED
    BY <2>1, <2>3, <2>4, <2>5, <2>6, <1>same DEF LossSound
<1> QED
  BY <1>1, <1>2, <1>3, <1>4, <1>5, <1>6, <1>7

THEOREM NextIInv == IInv /\ [Next]_vars => IInv'
<1> SUFFICES ASSUME IInv, [Next]_vars PROVE IInv'
  OBVIOUS
<1>1. CASE Initialize
  BY <1>1, InitializeStep
<1>2. CASE Stop
  BY <1>2, StopStep
<1>3. CASE Crash
  BY <1>3, CrashStep
<1>4. CASE \E key \in Keys : Enqueue(key)
  BY <1>4, EnqueueStep
<1>5. CASE \E ids \in SUBSET RecordIds : PumpStarts(ids)
  BY <1>5, PumpStartsStep
<1>6. CASE \E ids \in SUBSET RecordIds : Sweep(ids)
  BY <1>6, SweepStep
<1>7. CASE PlatformTakes
  BY <1>7, PlatformTakesStep
<1>8. CASE SendSucceeds \/ SendFails
  BY <1>8, AnswerStep
<1>9. CASE TakeSnapshot
  BY <1>9, TakeSnapshotStep
<1>10. CASE SaveSucceeds \/ SaveFails
  BY <1>10, SaveEndsStep DEF SaveSucceeds, SaveFails
<1>11. CASE UNCHANGED vars
  <2> USE <1>11 DEF IInv, vars, outboxVars, saveVars, historyVars
  <2>1. TypeOK' /\ StoresSound' /\ KeyIndexSound'
    BY DEF TypeOK, StoresSound, StoreSound, KeyIndexSound, Exists
  <2>2. ChainSound' /\ PassSound' /\ DeliverySound'
    BY DEF ChainSound, PassSound, DeliverySound, Spent
  <2>3. LossSound'
    BY DEF LossSound, Kept
  <2> QED
    BY <2>1, <2>2, <2>3
<1> QED
  BY <1>1, <1>2, <1>3, <1>4, <1>5, <1>6, <1>7, <1>8, <1>9, <1>10, <1>11 DEF Next

THEOREM InvariantHolds == Spec => []IInv
BY InitIInv, NextIInv, PTL DEF Spec

------------------------------------------------------------------------------
(* The variables keep their types. *)
THEOREM TypeCorrect == Spec => []TypeOK
BY InvariantHolds, PTL DEF IInv

(* Every key leads to the one record that carries it, whatever enqueues,
   sweeps, replaced poison records and restarts have happened. *)
THEOREM IndexCorrect == Spec => []KeyIndexSound
BY InvariantHolds, PTL DEF IInv

(* What a pass snapshots is still waiting to be sent when its turn comes. *)
THEOREM PassCorrect == Spec => []PassNotStale
<1>1. IInv => PassNotStale
  BY DEF IInv, PassSound, PassNotStale
<1> QED
  BY <1>1, InvariantHolds, PTL

(* A record is given up exactly when its retries are spent. *)
THEOREM BudgetCorrect == Spec => []RetryBudget
<1>1. IInv => RetryBudget
  BY DEF IInv, StoresSound, StoreSound, RetryBudget, Budget
<1> QED
  BY <1>1, InvariantHolds, PTL

(* With c crashes a message reaches the platform at most
   (MaxRetries + 1) * (c + 1) times. *)
THEOREM DeliveryBounded == Spec => []DeliveryBound
<1>1. ASSUME IInv PROVE DeliveryBound
  <2> SUFFICES ASSUME NEW id \in RecordIds
               PROVE  delivered[id] <= (MaxRetries + 1) * (crashes + 1)
    BY DEF DeliveryBound
  <2>1. /\ delivered[id] <= Spent(id) /\ delivered[id] \in Nat
        /\ Budget \in Nat /\ crashes \in Nat /\ Budget * crashes \in Nat
        /\ records[id].attempts \in Nat
        /\ records[id].status \in Pending => records[id].attempts + 1 <= Budget
    BY <1>1, BoundAssumption DEF IInv, DeliverySound, TypeOK, Budget, Stores, Records,
                                 StoresSound, StoreSound
  <2>2. Spent(id) <= Budget * crashes + Budget /\ Spent(id) \in Nat
    BY <2>1 DEF Spent
  <2>3. Budget * crashes + Budget = (MaxRetries + 1) * (crashes + 1)
    BY <2>1, BoundAssumption DEF Budget
  <2> QED
    BY <2>1, <2>2, <2>3
<1> QED
  BY <1>1, InvariantHolds, PTL

(* The file never calls sent what was not delivered. *)
THEOREM DiskIsHonest == Spec => []SentOnDiskWasDelivered
<1>1. IInv => SentOnDiskWasDelivered
  BY DEF IInv, StoresSound, StoreSound, SentOnDiskWasDelivered
<1> QED
  BY <1>1, InvariantHolds, PTL

(* A message whose enqueue returned after a save that worked is on disk,
   delivered or given up, in every state and after every crash. *)
THEOREM NothingLost == Spec => []NoSilentLoss
<1>1. IInv => NoSilentLoss
  BY DEF IInv, LossSound, Kept, NoSilentLoss
<1> QED
  BY <1>1, InvariantHolds, PTL

(* What a pass still has to send is pending, and nothing but a pending record is ever
   handed to the platform. *)
THEOREM PassesAreCurrent == Spec => PassIsCurrent
<1>1. ASSUME IInv, [Next]_vars
      PROVE  [/\ PassNotStale
              /\ \A id \in RecordIds : delivered'[id] # delivered[id] => records[id].status \in Pending]_vars
  <2>0. PassNotStale
    BY <1>1 DEF IInv, PassSound, PassNotStale
  <2>1. CASE PlatformTakes
    <3>1. current \in RecordIds /\ records[current].status \in Pending
      BY <1>1, <2>1 DEF IInv, PassSound, PlatformTakes
    <3>2. \A id \in RecordIds \ {current} : delivered'[id] = delivered[id]
      BY <1>1, <2>1 DEF IInv, TypeOK, PlatformTakes
    <3> QED
      BY <2>0, <3>1, <3>2
  <2>2. CASE ~PlatformTakes
    <3>1. delivered' = delivered
      BY <1>1, <2>2 DEF Next, Initialize, Stop, Crash, Enqueue, PumpStarts, Sweep, SendSucceeds,
           SendFails, TakeSnapshot, SaveSucceeds, SaveFails, SaveEnds, vars, historyVars
    <3> QED
      BY <2>0, <3>1
  <2> QED
    BY <2>0, <2>1, <2>2
<1> QED
  BY <1>1, InvariantHolds, PTL DEF Spec, PassIsCurrent

------------------------------------------------------------------------------
(* Both budgets hold. *)
THEOREM BudgetsHold == Spec => []DeliveryBudget
BY BudgetCorrect, DeliveryBounded, PTL DEF DeliveryBudget

(* The file neither invents a delivery nor loses a message. *)
THEOREM DiskStaysTrue == Spec => []DiskIsTrue
BY DiskIsHonest, NothingLost, PTL DEF DiskIsTrue

------------------------------------------------------------------------------
(* The outbox takes steps of DurableDelivery.  A save of the file may promise *)
(* messages, and must not take a promise back: what the file holds as pending *)
(* is carried by memory, and by the snapshot that will replace the file,      *)
(* unless it was delivered or given up.                                       *)

Carried ==
  /\ \A id \in abandoned : id <= used
  /\ process # "down" => \A id \in RecordIds : disk[id].status \in Pending => Kept(records, id)
  /\ writing => \A id \in RecordIds : /\ disk[id].status \in Pending => Kept(snapshot, id)
                                      /\ snapshot[id].status \in Pending => Kept(records, id)

Grown == (\A id \in RecordIds : delivered[id] > 0 => delivered'[id] > 0) /\ abandoned \subseteq abandoned'

LEMMA StepGrows ==
  ASSUME IInv, Next
  PROVE  Grown
<1>0. delivered \in [RecordIds -> Nat]
  BY DEF IInv, TypeOK
<1>1. CASE PlatformTakes
  BY <1>0, <1>1 DEF PlatformTakes, Grown
<1>2. CASE SendFails
  BY <1>2 DEF SendFails, Grown
<1>3. CASE ~PlatformTakes /\ ~SendFails
  BY <1>3 DEF Next, Initialize, Stop, Crash, Enqueue, PumpStarts, Sweep, SendSucceeds,
              TakeSnapshot, SaveSucceeds, SaveFails, SaveEnds, historyVars, Grown
<1> QED BY <1>1, <1>2, <1>3

(* Memory lets go of a record only when it was delivered or given up. *)
LEMMA MemoryKeeps ==
  ASSUME IInv, Next, process # "down", process' # "down"
  PROVE  \A id \in RecordIds : Kept(records, id) => Kept(records, id)'
<1>0. /\ records \in Stores /\ StoreSound(records) /\ used \in Nat
      /\ delivered \in [RecordIds -> Nat]
  BY BoundAssumption DEF IInv, StoresSound, TypeOK
<1>1. Grown
  BY StepGrows
<1> SUFFICES ASSUME NEW id \in RecordIds, records[id].status \in Pending
             PROVE  Kept(records, id)'
  BY <1>1 DEF Kept, Grown
<1>2. ASSUME NEW key \in Keys, Enqueue(key) PROVE Kept(records, id)'
  <2>1. id <= used /\ id # used + 1
    BY <1>0 DEF StoreSound, Pending, RecordIds
  <2>2. id # byKey[key]
    BY <1>2 DEF Enqueue, Replaceable, Pending
  <2> QED BY <1>2, <2>1, <2>2 DEF Enqueue, Kept
<1>3. ASSUME NEW ids \in SUBSET RecordIds, Sweep(ids) PROVE Kept(records, id)'
  BY <1>3 DEF Sweep, Settled, Kept, Pending
<1>4. CASE SendSucceeds
  <2>1. current \in RecordIds /\ delivered[current] > 0
    BY <1>4 DEF SendSucceeds, IInv, PassSound
  <2>2. id = current => delivered'[id] > 0
    BY <1>1, <2>1 DEF Grown
  <2>3. id # current => records'[id] = records[id]
    BY <1>0, <1>4 DEF SendSucceeds, Stores
  <2> QED BY <2>2, <2>3 DEF Kept
<1>5. CASE SendFails
  <2>1. current \in RecordIds
    BY <1>5 DEF SendFails, IInv, PassSound
  <2>2. CASE id = current
    <3> DEFINE attempts == records[current].attempts + 1
    <3>1. CASE Exhausted(attempts)
      BY <1>5, <2>2, <3>1 DEF SendFails, Kept
    <3>2. CASE ~Exhausted(attempts)
      <4>1. records'[id].status = "retrying"
        BY <1>0, <1>5, <2>2, <3>2 DEF SendFails, Stores, Records
      <4> QED BY <4>1 DEF Kept, Pending
    <3> QED BY <3>1, <3>2
  <2>3. CASE id # current
    BY <1>0, <1>5, <2>3 DEF SendFails, Stores, Kept
  <2> QED BY <2>2, <2>3
<1>6. CASE Stop \/ (\E ids \in SUBSET RecordIds : PumpStarts(ids)) \/ PlatformTakes \/ TakeSnapshot
           \/ SaveSucceeds \/ SaveFails
  <2>1. records' = records
    BY <1>6 DEF Stop, PumpStarts, PlatformTakes, TakeSnapshot, SaveSucceeds, SaveFails, SaveEnds, Resume,
                outboxVars
  <2> QED BY <2>1 DEF Kept
<1> QED BY <1>2, <1>3, <1>4, <1>5, <1>6 DEF Next, Initialize, Crash

LEMMA NextCarried ==
  ASSUME IInv, Carried, Next
  PROVE  Carried'
<1>0. Grown /\ used \in Nat /\ delivered \in [RecordIds -> Nat]
  BY StepGrows DEF IInv, TypeOK
<1>1. \A id \in abandoned' : id <= used'
  <2>1. CASE SendFails
    <3>1. current <= used
      BY <2>1 DEF SendFails, IInv, PassSound, StoresSound, StoreSound, Pending
    <3> QED BY <2>1, <3>1 DEF SendFails, Carried
  <2>2. CASE ~SendFails
    <3>1. abandoned' = abandoned /\ (used' = used \/ used' = used + 1)
      BY <2>2 DEF Next, Initialize, Stop, Crash, Enqueue, PumpStarts, Sweep, PlatformTakes, SendSucceeds,
                  TakeSnapshot, SaveSucceeds, SaveFails, SaveEnds, historyVars
    <3>2. abandoned \subseteq Nat
      BY DEF IInv, TypeOK, RecordIds
    <3> QED BY <1>0, <3>1, <3>2 DEF Carried
  <2> QED BY <2>1, <2>2
<1>2. process = "down" => ~writing
  BY DEF IInv, ChainSound
<1>3. CASE Initialize
  BY <1>1, <1>2, <1>3 DEF Initialize, Carried, Kept
<1>4. CASE Crash
  BY <1>1, <1>4 DEF Crash, Carried
<1>5. CASE TakeSnapshot
  BY <1>1, <1>2, <1>5 DEF TakeSnapshot, Carried, Kept, outboxVars, historyVars, IInv, ChainSound
<1>6. ASSUME NEW ok \in BOOLEAN, SaveEnds(ok) PROVE Carried'
  <2>1. /\ process # "down" /\ records' = records /\ delivered' = delivered /\ abandoned' = abandoned
        /\ writing /\ ~writing' /\ disk' = IF ok THEN snapshot ELSE disk
    BY <1>2, <1>6 DEF SaveEnds, Resume, outboxVars
  <2> QED BY <1>1, <2>1 DEF Carried, Kept
<1>7. CASE ~Initialize /\ ~Crash /\ ~TakeSnapshot /\ ~SaveSucceeds /\ ~SaveFails
  <2>1. disk' = disk /\ snapshot' = snapshot /\ writing' = writing /\ process # "down" /\ process' # "down"
    BY <1>7 DEF Next, Stop, Enqueue, PumpStarts, Sweep, PlatformTakes, SendSucceeds, SendFails, saveVars,
                IInv, ChainSound
  <2>2. \A id \in RecordIds : /\ Kept(records, id) => Kept(records, id)'
                              /\ Kept(snapshot, id) => Kept(snapshot, id)'
    BY <1>0, <2>1, MemoryKeeps DEF Kept, Grown
  <2> QED BY <1>1, <2>1, <2>2 DEF Carried
<1> QED BY <1>3, <1>4, <1>5, <1>6, <1>7 DEF SaveSucceeds, SaveFails

LEMMA PhaseAlone ==
  ASSUME NEW id \in RecordIds, delivered'[id] = delivered[id],
         id \in abandoned' <=> id \in abandoned, disk'[id] = disk[id],
         id <= used' <=> id <= used
  PROVE  PhaseOf(id)' = PhaseOf(id)
BY DEF PhaseOf

(* Every step of the outbox is a step of durable delivery, or none. *)
LEMMA StepSimulated ==
  ASSUME IInv, Carried, Next
  PROVE  [Delivery!Next]_([id \in RecordIds |-> PhaseOf(id)])
<1> DEFINE phase == [id \in RecordIds |-> PhaseOf(id)]
<1>0. /\ delivered \in [RecordIds -> Nat] /\ used \in Nat /\ RecordIds \subseteq Nat
      /\ abandoned \subseteq RecordIds
  BY BoundAssumption DEF IInv, TypeOK, RecordIds
<1>move. ASSUME NEW m \in RecordIds, NEW to, PhaseOf(m)' = to,
                \A id \in RecordIds \ {m} : PhaseOf(id)' = PhaseOf(id)
         PROVE  phase' = [phase EXCEPT ![m] = to] /\ phase[m] = PhaseOf(m)
  BY <1>move
<1>1. ASSUME NEW key \in Keys, Enqueue(key) PROVE Delivery!Next
  <2>1. PICK m \in RecordIds : m = used + 1
    BY <1>0, <1>1, BoundAssumption DEF Enqueue, RecordIds
  <2>2. ~(m <= used) /\ m <= used' /\ \A id \in RecordIds \ {m} : id <= used' <=> id <= used
    BY <1>0, <1>1, <2>1 DEF Enqueue
  <2>3. delivered' = delivered /\ abandoned' = abandoned /\ disk' = disk
    BY <1>1 DEF Enqueue
  <2>4. delivered[m] = 0 /\ m \notin abandoned /\ disk[m].status \notin Pending
    BY <2>1, <1>0, <2>2 DEF IInv, DeliverySound, StoresSound, StoreSound, Carried, Pending
  <2>5. PhaseOf(m) = "unseen" /\ PhaseOf(m)' = "offered"
    BY <2>2, <2>3, <2>4 DEF PhaseOf
  <2>6. \A id \in RecordIds \ {m} : PhaseOf(id)' = PhaseOf(id)
    BY <2>2, <2>3, PhaseAlone
  <2>7. Delivery!Offer(m)
    BY <2>5, <2>6, <1>move DEF Delivery!Offer, Delivery!Move
  <2> QED BY <2>7 DEF Delivery!Next
<1>2. CASE PlatformTakes
  <2>1. PICK m \in RecordIds : m = current /\ records[m].status \in Pending
    BY <1>2 DEF PlatformTakes, IInv, PassSound
  <2>2. m <= used
    BY <2>1 DEF IInv, StoresSound, StoreSound, Pending
  <2>3. /\ abandoned' = abandoned /\ disk' = disk /\ used' = used
        /\ delivered'[m] > 0 /\ \A id \in RecordIds \ {m} : delivered'[id] = delivered[id]
    BY <1>0, <1>2, <2>1 DEF PlatformTakes, saveVars
  <2>4. PhaseOf(m)' = "delivered" /\ PhaseOf(m) # "unseen"
    BY <2>2, <2>3 DEF PhaseOf
  <2>5. PhaseOf(m) \in {"offered", "promised", "abandoned", "delivered"}
    BY <2>4 DEF PhaseOf
  <2>6. \A id \in RecordIds \ {m} : PhaseOf(id)' = PhaseOf(id)
    BY <2>3, PhaseAlone
  <2>7. CASE PhaseOf(m) = "delivered"
    BY <2>4, <2>6, <2>7
  <2>8. CASE PhaseOf(m) # "delivered"
    <3>1. Delivery!Deliver(m)
      BY <2>1, <2>4, <2>5, <2>6, <2>8, <1>move DEF Delivery!Deliver, Delivery!Move
    <3> QED BY <2>1, <3>1 DEF Delivery!Next, Delivery!Settle
  <2> QED BY <2>7, <2>8
<1>3. CASE SendFails
  <2>1. PICK m \in RecordIds : m = current /\ m <= used
    BY <1>3 DEF SendFails, IInv, PassSound, StoresSound, StoreSound, Pending
  <2>2. /\ delivered' = delivered /\ disk' = disk /\ used' = used
        /\ \A id \in RecordIds \ {m} : id \in abandoned' <=> id \in abandoned
        /\ abandoned' = abandoned \/ m \in abandoned'
    BY <1>3, <2>1 DEF SendFails
  <2>3. \A id \in RecordIds \ {m} : PhaseOf(id)' = PhaseOf(id)
    BY <2>2, PhaseAlone
  <2>4. CASE PhaseOf(m)' = PhaseOf(m)
    BY <2>3, <2>4
  <2>5. CASE PhaseOf(m)' # PhaseOf(m)
    <3>1. PhaseOf(m)' = "abandoned" /\ PhaseOf(m) \in {"offered", "promised"}
      BY <1>0, <2>1, <2>2, <2>5 DEF PhaseOf
    <3>2. Delivery!Abandon(m)
      BY <2>1, <2>3, <3>1, <1>move DEF Delivery!Abandon, Delivery!Move
    <3> QED BY <2>1, <3>2 DEF Delivery!Next, Delivery!Settle
  <2> QED BY <2>4, <2>5
<1>4. CASE SaveSucceeds
  <2>1. /\ delivered' = delivered /\ abandoned' = abandoned /\ used' = used /\ writing /\ disk' = snapshot
    BY <1>4 DEF SaveSucceeds, SaveEnds
  <2> DEFINE S == {id \in RecordIds : PhaseOf(id) = "offered" /\ PhaseOf(id)' = "promised"}
  <2>2. ASSUME NEW id \in RecordIds, id \notin S PROVE PhaseOf(id)' = PhaseOf(id)
    <3>1. /\ disk[id].status \in Pending => Kept(snapshot, id)
          /\ snapshot[id].status \in Pending => id <= used
      BY <2>1 DEF Carried, IInv, StoresSound, StoreSound, Pending
    <3> QED BY <1>0, <2>1, <2>2, <3>1 DEF PhaseOf, Kept
  <2>3. S \in SUBSET RecordIds /\ \A id \in S : phase[id] = "offered"
    OBVIOUS
  <2>4. phase' = [id \in RecordIds |-> IF id \in S THEN "promised" ELSE phase[id]]
    BY <2>2
  <2>5. Delivery!PromiseAll(S)
    BY <2>3, <2>4 DEF Delivery!PromiseAll
  <2> QED BY <2>3, <2>5 DEF Delivery!Next
<1>5. CASE ~(\E key \in Keys : Enqueue(key)) /\ ~PlatformTakes /\ ~SendFails /\ ~SaveSucceeds
  <2>1. UNCHANGED <<delivered, abandoned, disk, used>>
    BY <1>5 DEF Next, Initialize, Stop, Crash, PumpStarts, Sweep, SendSucceeds, TakeSnapshot,
                SaveFails, SaveEnds, historyVars, saveVars
  <2>2. \A id \in RecordIds : PhaseOf(id)' = PhaseOf(id)
    BY <2>1, PhaseAlone
  <2> QED BY <2>2
<1> QED BY <1>1, <1>2, <1>3, <1>4, <1>5

(* The outbox refines durable delivery: a message is offered, promised by the file, delivered or given
   up in that order, and no save, sweep or crash takes a promise back.  That promises are kept in
   the end is the fair part of the specification, which TLC checks. *)
THEOREM ImplementsSafety == Spec => Delivery!Safety
<1>1. Init => Delivery!Init
  <2> SUFFICES ASSUME Init PROVE Delivery!Init
    OBVIOUS
  <2>1. \A id \in RecordIds : PhaseOf(id) = "unseen"
    BY BoundAssumption DEF Init, PhaseOf, EmptyStore, NoRecord, Pending, RecordIds
  <2> QED BY <2>1 DEF Delivery!Init
<1>2. Init => Carried
  BY DEF Init, Carried
<1>3. IInv /\ Carried /\ [Next]_vars => Carried'
  <2>1. ASSUME IInv, Carried, UNCHANGED vars PROVE Carried'
    BY <2>1 DEF vars, outboxVars, saveVars, historyVars, Carried, Kept
  <2> QED BY <2>1, NextCarried
<1>4. IInv /\ Carried /\ [Next]_vars => [Delivery!Next]_([id \in RecordIds |-> PhaseOf(id)])
  <2>1. ASSUME UNCHANGED vars PROVE UNCHANGED [id \in RecordIds |-> PhaseOf(id)]
    <3>1. \A id \in RecordIds : PhaseOf(id)' = PhaseOf(id)
      BY <2>1, PhaseAlone DEF vars, saveVars, historyVars
    <3> QED BY <3>1
  <2> QED BY <2>1, StepSimulated
<1> QED BY <1>1, <1>2, <1>3, <1>4, InvariantHolds, PTL DEF Spec, Delivery!Safety

==============================================================================
