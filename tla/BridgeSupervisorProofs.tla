----------------------- MODULE BridgeSupervisorProofs -----------------------
(***************************************************************************)
(* What BridgeSupervisor promises for any messages, retries, deliveries    *)
(* and troubles: its types, that the labels of records are true, and how   *)
(* many tasks a message may become.                                        *)
(*                                                                         *)
(* The argument for the tasks: a message may become one more task for each *)
(* of three reasons, that the verifier would take it for new, that the     *)
(* pass holds a record of it, and that the table holds one that a later    *)
(* pass would take (the file, while the process is down).  A task uses up  *)
(* one of them, and only a trouble brings one back.                        *)
(***************************************************************************)
EXTENDS BridgeSupervisor, TLAPS

Stores == [Ids -> Records]
Counts == [Messages -> Nat]

(* What a record says of itself, when these tasks exist and so many were refused. *)
Honest(record, tasks, refused) ==
  /\ record.state = "acked" => tasks[record.message] > 0
  /\ record.state = "queued" => record.attempts = 0
  /\ record.state = "retrying" => record.attempts \in 1..MaxRetries
  /\ record.state = "poison" /\ refused = 0 => record.attempts = MaxRetries + 1

AllHonest(records, tasks, refused) == \A id \in Ids : Honest(records[id], tasks, refused)

(* A table names records that were made, each of its message. *)
Fits(table, records, n) ==
  \A m \in Messages : table[m] # 0 => table[m] <= n /\ records[table[m]].message = m

SaveFits(save, records, tasks, refused, n) ==
  /\ AllHonest(save.file.objects, tasks, refused)
  /\ Fits(save.file.table, records, n)
  /\ save.at = "written" => Fits(save.file.table, save.file.objects, n)

StoresFit ==
  /\ made <= deliveries
  /\ AllHonest(objects, created, refusals) /\ Fits(recordOf, objects, made)
  /\ AllHonest(disk.objects, created, refusals) /\ Fits(disk.table, disk.objects, made)
  /\ \A s \in Ids \cup {0} : SaveFits(saves[s], objects, created, refusals, made)

(* Records that a pass may dispatch. *)
Ready(ids, records, n) ==
  /\ \A id \in ids : id <= n /\ records[id].message \in Messages /\ records[id].attempts <= MaxRetries
  /\ \A i, j \in ids : records[i].message = records[j].message => i = j

(* The records that the pass has still to dispatch. *)
Active == due \cup (IF pumpAt \in {"marking", "dispatching"} THEN {current} ELSE {})

PassFits ==
  /\ pumpAt = "idle" => due = {} /\ current = 0
  /\ pumpAt # "idle" => current \in Ids /\ current \notin due
  /\ process = "down" => /\ pumpAt = "idle" /\ seen = {} /\ recordOf = NoTable
                         /\ saves = [s \in Ids \cup {0} |-> NoSave]
  /\ Ready(Active, objects, made)
  /\ pumpAt = "acking" => /\ current <= made /\ objects[current].attempts <= MaxRetries
                          /\ objects[current].message \in Messages

(* The tasks that a message may still become without more trouble. *)
InPass(m) == \E id \in Active : objects[id].message = m
Awaits(m) ==
  IF process = "down" THEN disk.table[m] # 0
  ELSE recordOf[m] # 0 /\ recordOf[m] \notin Active /\ objects[recordOf[m]].state \in {"queued", "retrying"}

One(b) == IF b THEN 1 ELSE 0
Hopes(m) == One(m \notin seen) + One(InPass(m)) + One(Awaits(m))
Bound == 1 + faults + expiries + 2 * crashes

Accounted == \A m \in Messages : created[m] + Hopes(m) <= Bound

IInv == TypeOK /\ StoresFit /\ PassFits /\ Accounted

LEMMA NumberTypes == ASSUME TypeOK
  PROVE  /\ MaxRetries \in Nat /\ MaxDeliveries \in Nat /\ MaxTroubles \in Nat
         /\ made \in Nat /\ deliveries \in Nat /\ refusals \in Nat /\ expiries \in Nat
         /\ faults \in Nat /\ crashes \in Nat /\ Bound \in Nat
         /\ \A m \in Messages : created[m] \in Nat
         /\ \A id \in Ids : id \in Nat /\ id # 0
  BY BoundAssumption DEF TypeOK, Ids, Bound

LEMMA EmptyTypes ==
  /\ NoRecord \in Records /\ NoObjects \in Stores /\ NoTable \in Tables
  /\ EmptyFile \in Files /\ NoSave \in Saves
<1>1. NoRecord \in Records
  BY DEF NoRecord, Records
<1>2. NoObjects \in Stores /\ NoTable \in Tables
  BY <1>1 DEF NoObjects, Stores, NoTable, Tables
<1>3. EmptyFile \in Files
  BY <1>2 DEF EmptyFile, Files, Stores
<1>4. NoSave \in Saves
  BY <1>3 DEF NoSave, Saves
<1> QED BY <1>1, <1>2, <1>3, <1>4

LEMMA ListedType == ASSUME NEW table \in Tables, NEW drain \in BOOLEAN PROVE Listed(table, drain) \in Saves
<1>1. [table |-> table, objects |-> NoObjects] \in Files
  BY EmptyTypes DEF Files, Stores
<1> QED BY <1>1 DEF Listed, Saves

LEMMA EmptyHonest ==
  ASSUME NEW tasks, NEW refused
  PROVE  AllHonest(NoObjects, tasks, refused) /\ NoSave.file.objects = NoObjects /\ NoSave.file.table = NoTable
<1>1. NoRecord.state = "absent"
  BY DEF NoRecord
<1> QED BY <1>1 DEF AllHonest, Honest, NoObjects, NoSave, EmptyFile

LEMMA EmptyFits == ASSUME NEW records, NEW n PROVE Fits(NoTable, records, n)
  BY DEF Fits, NoTable

(* More tasks, more refusals, more records, and records that keep their messages. *)
LEMMA HonestGrows ==
  ASSUME NEW records \in Stores, NEW t1 \in Counts, NEW t2 \in Counts, NEW r1 \in Nat, NEW r2 \in Nat,
         r1 <= r2, \A m \in Messages : t1[m] <= t2[m], AllHonest(records, t1, r1)
  PROVE  AllHonest(records, t2, r2)
<1> SUFFICES ASSUME NEW id \in Ids PROVE Honest(records[id], t2, r2)
  BY DEF AllHonest
<1>1. Honest(records[id], t1, r1) /\ records[id] \in Records
  BY DEF AllHonest, Stores
<1>2. records[id].state = "acked" => records[id].message \in Messages
  BY <1>1 DEF Records
<1> QED BY <1>1, <1>2 DEF Honest, Counts

LEMMA FitsGrows ==
  ASSUME NEW table \in Tables, NEW o1, NEW o2, NEW n1 \in Nat, NEW n2 \in Nat, n1 <= n2,
         \A id \in Ids : id <= n1 => o2[id].message = o1[id].message, Fits(table, o1, n1), MaxDeliveries \in Nat
  PROVE  Fits(table, o2, n2)
<1> SUFFICES ASSUME NEW m \in Messages, table[m] # 0 PROVE table[m] <= n2 /\ o2[table[m]].message = m
  BY DEF Fits
<1>1. table[m] \in Ids /\ table[m] <= n1 /\ o1[table[m]].message = m
  BY DEF Fits, Tables
<1> QED BY <1>1 DEF Ids

LEMMA SaveGrows ==
  ASSUME NEW save \in Saves, NEW o1, NEW o2, NEW t1 \in Counts, NEW t2 \in Counts,
         NEW r1 \in Nat, NEW r2 \in Nat, NEW n1 \in Nat, NEW n2 \in Nat, n1 <= n2, r1 <= r2,
         \A m \in Messages : t1[m] <= t2[m], MaxDeliveries \in Nat,
         \A id \in Ids : id <= n1 => o2[id].message = o1[id].message,
         SaveFits(save, o1, t1, r1, n1)
  PROVE  SaveFits(save, o2, t2, r2, n2)
<1>1. save.file.objects \in Stores /\ save.file.table \in Tables
  BY DEF Saves, Files, Stores
<1>2. AllHonest(save.file.objects, t2, r2)
  BY <1>1, HonestGrows DEF SaveFits
<1>3. Fits(save.file.table, o2, n2)
  BY <1>1, FitsGrows DEF SaveFits
<1>4. save.at = "written" => Fits(save.file.table, save.file.objects, n2)
  BY <1>1, FitsGrows DEF SaveFits
<1> QED BY <1>2, <1>3, <1>4 DEF SaveFits

LEMMA NewSaveFits ==
  ASSUME NEW table, NEW drain, NEW records, NEW tasks, NEW refused, NEW n, Fits(table, records, n)
  PROVE  SaveFits(Listed(table, drain), records, tasks, refused, n) /\ SaveFits(NoSave, records, tasks, refused, n)
<1>1. SaveFits(Listed(table, drain), records, tasks, refused, n)
  BY EmptyHonest DEF SaveFits, Listed
<1>2. SaveFits(NoSave, records, tasks, refused, n)
  BY EmptyHonest, EmptyFits DEF SaveFits, NoSave, EmptyFile
<1> QED BY <1>1, <1>2

LEMMA InitSound == Init => IInv
<1> SUFFICES ASSUME Init PROVE IInv
  OBVIOUS
<1> USE DEF Init
<1>1. TypeOK
  <2>1. objects \in [Ids -> Records] /\ recordOf \in Tables /\ saves \in [Ids \cup {0} -> Saves] /\ disk \in Files
    BY EmptyTypes DEF Stores
  <2> QED BY <2>1, BoundAssumption DEF TypeOK
<1>2. StoresFit
  <2>1. disk.objects = NoObjects /\ disk.table = NoTable
    BY DEF EmptyFile
  <2>2. \A s \in Ids \cup {0} : SaveFits(saves[s], objects, created, refusals, made)
    BY EmptyFits, NewSaveFits
  <2> QED BY <2>1, <2>2, EmptyHonest, EmptyFits DEF StoresFit
<1>3. PassFits
  BY DEF PassFits, Ready, Active
<1>4. Accounted
  <2> SUFFICES ASSUME NEW m \in Messages PROVE created[m] + Hopes(m) <= Bound
    BY DEF Accounted
  <2>1. ~InPass(m) /\ ~Awaits(m)
    BY DEF InPass, Active, Awaits, EmptyFile, NoTable
  <2> QED BY <2>1 DEF Hopes, One, Bound
<1> QED BY <1>1, <1>2, <1>3, <1>4 DEF IInv

(* A step that makes, relabels and lists records, or ends saves. *)
LEMMA StoresKept ==
  ASSUME IInv, TypeOK',
         made <= made', refusals <= refusals', made' <= deliveries',
         \A m \in Messages : created[m] <= created'[m],
         \A id \in Ids : id <= made => objects'[id].message = objects[id].message,
         AllHonest(objects, created, refusals)', Fits(recordOf, objects, made)',
         \A s \in Ids \cup {0} : \/ saves'[s] = saves[s] \/ saves'[s] = NoSave
                                 \/ \E drain \in BOOLEAN : saves'[s] = Listed(recordOf', drain),
         disk' = disk \/ \E s \in Ids \cup {0} : saves[s].at = "written" /\ disk' = saves[s].file
  PROVE  StoresFit'
<1> USE DEF IInv
<1>1. /\ created \in Counts /\ created' \in Counts /\ objects \in Stores /\ objects' \in Stores
      /\ made \in Nat /\ made' \in Nat /\ refusals \in Nat /\ refusals' \in Nat /\ MaxDeliveries \in Nat
      /\ disk.objects \in Stores /\ disk.table \in Tables
      /\ \A s \in Ids \cup {0} : saves[s] \in Saves /\ saves[s].file.objects \in Stores /\ saves[s].file.table \in Tables
  BY BoundAssumption DEF TypeOK, Counts, Stores, Files, Saves
<1>2. \A s \in Ids \cup {0} : SaveFits(saves[s], objects', created', refusals', made')
  <2> SUFFICES ASSUME NEW s \in Ids \cup {0} PROVE SaveFits(saves[s], objects', created', refusals', made')
    OBVIOUS
  <2>1. SaveFits(saves[s], objects, created, refusals, made) /\ saves[s] \in Saves
    BY <1>1 DEF StoresFit
  <2>2. \A id \in Ids : id <= made => objects'[id].message = objects[id].message
    OBVIOUS
  <2>3. saves[s].file.objects \in Stores /\ saves[s].file.table \in Tables
    BY <1>1
  <2>4. AllHonest(saves[s].file.objects, created', refusals')
    BY <1>1, <2>1, <2>3, HonestGrows DEF SaveFits
  <2>5. Fits(saves[s].file.table, objects', made')
    BY <1>1, <2>1, <2>2, <2>3, FitsGrows DEF SaveFits
  <2>6. saves[s].at = "written" => Fits(saves[s].file.table, saves[s].file.objects, made')
    BY <1>1, <2>1, <2>3, FitsGrows DEF SaveFits
  <2> QED BY <2>4, <2>5, <2>6 DEF SaveFits
<1>3. \A s \in Ids \cup {0} : SaveFits(saves'[s], objects', created', refusals', made')
  BY <1>2, NewSaveFits
<1>4. AllHonest(disk.objects, created', refusals') /\ Fits(disk.table, disk.objects, made')
  BY <1>1, HonestGrows, FitsGrows DEF StoresFit
<1>5. AllHonest(disk'.objects, created', refusals') /\ Fits(disk'.table, disk'.objects, made')
  BY <1>2, <1>4 DEF SaveFits
<1> QED BY <1>3, <1>5 DEF StoresFit

LEMMA ActiveTypes == ASSUME IInv PROVE Active \in SUBSET Ids
  BY DEF IInv, TypeOK, PassFits, Active

(* What a message may still become, when it loses reasons for it. *)
LEMMA HopesTypes == ASSUME NEW m \in Messages
  PROVE  Hopes(m) \in 0..3 /\ Hopes(m)' \in 0..3
  BY DEF Hopes, One

LEMMA NewBound == ASSUME faults' \in Nat, expiries' \in Nat, crashes' \in Nat PROVE Bound' \in Nat
<1>1. Bound' = 1 + faults' + expiries' + 2 * crashes'
  BY DEF Bound
<1>2. \A f, e, c \in Nat : 1 + f + e + 2 * c \in Nat
  OBVIOUS
<1> QED BY <1>1, <1>2

LEMMA HopesFall ==
  ASSUME TypeOK, TypeOK', Accounted,
         \A m \in Messages : created'[m] + Hopes(m)' + Bound <= created[m] + Hopes(m) + Bound'
  PROVE  Accounted'
<1>1. Bound \in Nat /\ Bound' \in Nat
  <2>1. faults' \in Nat /\ expiries' \in Nat /\ crashes' \in Nat
    BY DEF TypeOK
  <2>2. Bound' \in Nat
    BY <2>1, NewBound
  <2>3. Bound \in Nat
    BY NumberTypes
  <2> QED BY <2>2, <2>3
<1>2. \A m \in Messages : created[m] \in Nat /\ created'[m] \in Nat
  BY DEF TypeOK
<1> QED BY <1>1, <1>2, HopesTypes DEF Accounted

LEMMA HopesKept ==
  ASSUME TypeOK, TypeOK', Accounted, UNCHANGED created, Bound <= Bound',
         \A m \in Messages : /\ m \notin seen' => m \notin seen
                             /\ InPass(m)' => InPass(m)
                             /\ Awaits(m)' => Awaits(m)
  PROVE  Accounted'
<1>1. Bound \in Nat /\ Bound' \in Nat
  <2>1. faults' \in Nat /\ expiries' \in Nat /\ crashes' \in Nat
    BY DEF TypeOK
  <2>2. Bound' \in Nat
    BY <2>1, NewBound
  <2>3. Bound \in Nat
    BY NumberTypes
  <2> QED BY <2>2, <2>3
<1>2. \A m \in Messages : created[m] \in Nat /\ created'[m] = created[m]
  BY DEF TypeOK
<1>3. \A m \in Messages : Hopes(m)' <= Hopes(m)
  BY DEF Hopes, One
<1>4. \A m \in Messages : created'[m] + Hopes(m)' + Bound <= created[m] + Hopes(m) + Bound'
  BY <1>1, <1>2, <1>3, HopesTypes
<1> QED BY <1>4, HopesFall

------------------------------------------------------------------------------
(* The process. *)

LEMMA InitializeStep == IInv /\ Initialize => IInv'
<1> SUFFICES ASSUME IInv, Initialize PROVE IInv'
  OBVIOUS
<1> USE DEF IInv
<1>1. /\ process = "down" /\ process' = "up" /\ recordOf' = disk.table /\ objects' = disk.objects
      /\ UNCHANGED <<seen, made, pumpAt, caller, due, current, saves, disk, created,
                     deliveries, refusals, expiries, faults, crashes>>
  BY DEF Initialize, pumpVars, countVars
<1>2. TypeOK'
  BY <1>1 DEF TypeOK, Files
<1>3. pumpAt = "idle" /\ due = {} /\ current = 0 /\ Active = {} /\ Active' = {}
  BY <1>1 DEF PassFits, Active
<1>4. StoresFit'
  <2>1. \A s \in Ids \cup {0} : saves'[s] = NoSave
    BY <1>1 DEF PassFits
  <2>2. \A s \in Ids \cup {0} : SaveFits(saves'[s], objects', created', refusals', made')
    BY <2>1, EmptyFits, NewSaveFits
  <2> QED BY <1>1, <2>2 DEF StoresFit
<1>5. PassFits'
  BY <1>1, <1>3 DEF PassFits, Ready
<1>6. Accounted'
  <2>1. \A m \in Messages : InPass(m)' => InPass(m)
    BY <1>3 DEF InPass
  <2>2. \A m \in Messages : Awaits(m)' => Awaits(m)
    BY <1>1 DEF Awaits
  <2>3. Bound' = Bound
    BY <1>1 DEF Bound
  <2> QED BY <1>1, <1>2, <2>1, <2>2, <2>3, HopesKept, NumberTypes
<1> QED BY <1>2, <1>4, <1>5, <1>6

LEMMA EndsStep ==
  ASSUME IInv, ProcessEnds, UNCHANGED <<disk, made, created, deliveries, refusals, expiries>>,
         faults' \in Nat, faults <= faults'
  PROVE  IInv'
<1> USE DEF IInv
<1>1. /\ process' = "down" /\ seen' = {} /\ objects' = NoObjects /\ recordOf' = NoTable
      /\ pumpAt' = "idle" /\ caller' = "timer" /\ due' = {} /\ current' = 0
      /\ saves' = [s \in Ids \cup {0} |-> NoSave] /\ crashes' = crashes + 1
      /\ UNCHANGED <<disk, made, created, deliveries, refusals, expiries>>
  BY DEF ProcessEnds
<1>2. TypeOK'
  <2>1. objects' \in [Ids -> Records] /\ recordOf' \in Tables /\ saves' \in [Ids \cup {0} -> Saves]
    BY <1>1, EmptyTypes DEF Stores
  <2>2. crashes' \in Nat
    BY <1>1 DEF TypeOK
  <2> QED BY <1>1, <2>1, <2>2 DEF TypeOK
<1>3. StoresFit'
  <2>1. \A s \in Ids \cup {0} : SaveFits(saves'[s], objects', created', refusals', made')
    BY <1>1, EmptyFits, NewSaveFits
  <2> QED BY <1>1, <2>1, EmptyHonest, EmptyFits DEF StoresFit
<1>4. PassFits'
  BY <1>1 DEF PassFits, Ready, Active
<1>5. Accounted'
  <2> SUFFICES ASSUME NEW m \in Messages PROVE created'[m] + Hopes(m)' <= Bound'
    BY DEF Accounted
  <2>1. ~InPass(m)'
    BY <1>1 DEF InPass, Active
  <2>2. Hopes(m)' <= 2
    BY <2>1 DEF Hopes, One
  <2>3. created[m] + Hopes(m) <= Bound /\ created[m] \in Nat
    BY NumberTypes DEF Accounted
  <2>4. Bound + 2 <= Bound' /\ Bound' \in Nat
    BY <1>1, NumberTypes DEF Bound
  <2> QED BY <1>1, <2>2, <2>3, <2>4, HopesTypes, NumberTypes
<1> QED BY <1>2, <1>3, <1>4, <1>5

LEMMA CrashStep == IInv /\ Crash => IInv'
<1> SUFFICES ASSUME IInv, Crash PROVE IInv'
  OBVIOUS
<1>1. faults' \in Nat /\ faults <= faults'
  BY NumberTypes DEF Crash, IInv
<1> QED BY <1>1, EndsStep DEF Crash

------------------------------------------------------------------------------
(* accept. *)

LEMMA PutStep ==
  ASSUME IInv, NEW m \in Messages, NEW state \in {"queued", "rejected", "poison", "duplicate"}, NEW drain \in BOOLEAN,
         Arrives, Put(m, state), Persists(drain),
         \/ state = "queued" /\ m \notin seen /\ seen' = seen \cup {m}
         \/ state # "queued" /\ seen' = seen,
         refusals' \in Nat, refusals <= refusals', state = "poison" => refusals' # 0
  PROVE  IInv'
<1> USE DEF IInv
<1> DEFINE new == [message |-> m, state |-> state, attempts |-> 0]
<1>1. /\ process = "up" /\ deliveries < MaxDeliveries /\ deliveries' = deliveries + 1
      /\ UNCHANGED <<process, pumpAt, caller, due, current, disk, created, expiries, faults, crashes>>
      /\ made' = made + 1 /\ objects' = [objects EXCEPT ![made + 1] = new]
      /\ recordOf' = [recordOf EXCEPT ![m] = made + 1]
      /\ saves' = [saves EXCEPT ![deliveries'] = Listed(recordOf', drain)]
  BY DEF Arrives, Put, Persists, pumpVars
<1>2. made + 1 \in Ids /\ deliveries' \in Ids /\ made + 1 <= deliveries' /\ made \in Nat
  BY <1>1, NumberTypes DEF StoresFit, Ids
<1>3. new \in Records /\ new.state = state /\ new.attempts = 0 /\ new.message = m
  BY NumberTypes DEF Records, States
<1> HIDE DEF new
<1>4. recordOf' \in Tables /\ objects' \in Stores
  BY <1>1, <1>2, <1>3 DEF TypeOK, Tables, Stores
<1>5. TypeOK'
  <2>1. saves' \in [Ids \cup {0} -> Saves]
    BY <1>1, <1>4, ListedType DEF TypeOK
  <2>2. deliveries' \in 0..MaxDeliveries /\ made' \in 0..MaxDeliveries
    BY <1>1, <1>2 DEF Ids
  <2>3. seen' \in SUBSET Messages
    BY DEF TypeOK
  <2> QED BY <1>1, <1>4, <2>1, <2>2, <2>3 DEF TypeOK, Stores
<1>6. /\ objects'[made + 1] = new
      /\ \A id \in Ids : id # made + 1 => objects'[id] = objects[id]
      /\ \A id \in Ids : id <= made => id # made + 1
      /\ recordOf'[m] = made + 1 /\ \A x \in Messages : x # m => recordOf'[x] = recordOf[x]
  BY <1>1, <1>2, NumberTypes DEF TypeOK, Tables
<1>7. AllHonest(objects', created', refusals')
  <2>1. AllHonest(objects, created', refusals')
    <3>1. created \in Counts /\ refusals \in Nat /\ objects \in Stores /\ \A x \in Messages : created[x] <= created'[x]
      BY <1>1, NumberTypes DEF TypeOK, Counts, Stores
    <3> QED BY <1>1, <3>1, HonestGrows DEF StoresFit
  <2>2. Honest(new, created', refusals')
    BY <1>3 DEF Honest
  <2> QED BY <1>6, <2>1, <2>2 DEF AllHonest
<1>8. Fits(recordOf', objects', made')
  <2> SUFFICES ASSUME NEW x \in Messages, recordOf'[x] # 0
               PROVE  recordOf'[x] <= made' /\ objects'[recordOf'[x]].message = x
    BY DEF Fits
  <2>1. CASE x = m
    BY <1>1, <1>2, <1>3, <1>6, <2>1
  <2>2. CASE x # m
    <3>1. recordOf[x] \in Ids /\ recordOf[x] <= made /\ objects[recordOf[x]].message = x
      BY <1>6, <2>2 DEF TypeOK, Tables, StoresFit, Fits
    <3>2. recordOf'[x] = recordOf[x] /\ objects'[recordOf[x]] = objects[recordOf[x]]
      BY <1>6, <2>2, <3>1
    <3>3. recordOf[x] <= made'
      <4>1. recordOf[x] \in Nat
        BY <3>1, NumberTypes
      <4>2. \A a, b \in Nat : a <= b => a <= b + 1
        OBVIOUS
      <4> QED BY <1>1, <1>2, <3>1, <4>1, <4>2
    <3> QED BY <3>1, <3>2, <3>3
  <2> QED BY <2>1, <2>2
<1>9. StoresFit'
  <2>1. made <= made' /\ made' <= deliveries' /\ \A x \in Messages : created[x] <= created'[x]
    BY <1>1, <1>2, NumberTypes
  <2>2. \A id \in Ids : id <= made => objects'[id].message = objects[id].message
    BY <1>6
  <2>3. \A s \in Ids \cup {0} : saves'[s] = saves[s] \/ \E d \in BOOLEAN : saves'[s] = Listed(recordOf', d)
    BY <1>1 DEF TypeOK
  <2> QED BY <1>1, <1>5, <1>7, <1>8, <2>1, <2>2, <2>3, StoresKept
<1>10. Active' = Active /\ Active \in SUBSET Ids /\ \A id \in Active : id <= made /\ objects'[id] = objects[id]
  BY <1>1, <1>6, ActiveTypes DEF Active, PassFits, Ready
<1>11. PassFits'
  <2>1. Ready(Active', objects', made')
    <3>1. Ready(Active, objects, made)
      BY DEF PassFits
    <3>2. \A id \in Active : id <= made'
      BY <1>1, <1>2, <1>10, NumberTypes
    <3> QED BY <1>10, <3>1, <3>2 DEF Ready
  <2>2. pumpAt = "acking" => objects'[current] = objects[current] /\ current <= made'
    BY <1>1, <1>2, <1>6, NumberTypes DEF PassFits
  <2> QED BY <1>1, <2>1, <2>2 DEF PassFits
<1>12. Accounted'
  <2>1. \A x \in Messages : InPass(x)' <=> InPass(x)
    BY <1>10 DEF InPass
  <2>2. \A x \in Messages : x # m => (Awaits(x)' => Awaits(x))
    <3> SUFFICES ASSUME NEW x \in Messages, x # m, Awaits(x)' PROVE Awaits(x)
      OBVIOUS
    <3>1. recordOf[x] \in Ids /\ recordOf[x] <= made
      BY <1>1, <1>6 DEF Awaits, TypeOK, Tables, StoresFit, Fits
    <3> QED BY <1>1, <1>6, <1>10, <3>1 DEF Awaits
  <2>3. Awaits(m)' => state = "queued"
    BY <1>1, <1>3, <1>6 DEF Awaits
  <2>4. \A x \in Messages : Hopes(x)' <= Hopes(x)
    <3> SUFFICES ASSUME NEW x \in Messages PROVE Hopes(x)' <= Hopes(x)
      OBVIOUS
    <3>1. CASE x # m
      <4>1. x \notin seen' => x \notin seen
        BY <3>1
      <4> QED BY <2>1, <2>2, <3>1, <4>1 DEF Hopes, One
    <3>2. CASE x = m /\ state = "queued"
      <4>1. m \notin seen /\ m \in seen'
        BY <3>2
      <4> QED BY <2>1, <3>2, <4>1 DEF Hopes, One
    <3>3. CASE x = m /\ state # "queued"
      BY <2>1, <2>3, <3>3 DEF Hopes, One
    <3> QED BY <3>1, <3>2, <3>3
  <2>5. Bound' = Bound
    BY <1>1 DEF Bound
  <2>6. \A x \in Messages : created'[x] + Hopes(x)' + Bound <= created[x] + Hopes(x) + Bound'
    BY <1>1, <2>4, <2>5, NumberTypes, HopesTypes
  <2> QED BY <1>5, <2>6, HopesFall
<1> QED BY <1>5, <1>9, <1>11, <1>12

LEMMA AcceptNewStep == ASSUME NEW m \in Messages PROVE IInv /\ AcceptNew(m) => IInv'
<1> SUFFICES ASSUME IInv, AcceptNew(m) PROVE IInv'
  OBVIOUS
<1>1. /\ Arrives /\ Put(m, "queued") /\ Persists(TRUE) /\ m \notin seen /\ seen' = seen \cup {m}
      /\ refusals' = refusals
  BY DEF AcceptNew
<1>2. refusals' \in Nat /\ refusals <= refusals'
  BY <1>1, NumberTypes DEF IInv
<1> QED BY <1>1, <1>2, PutStep

LEMMA AcceptRefusedStep == ASSUME NEW m \in Messages PROVE IInv /\ AcceptRefused(m) => IInv'
<1> SUFFICES ASSUME IInv, AcceptRefused(m) PROVE IInv'
  OBVIOUS
<1>1. PICK state \in {"rejected", "poison"} : Put(m, state)
  BY DEF AcceptRefused
<1>2. refusals' = refusals + 1 /\ refusals \in Nat /\ Arrives /\ Persists(FALSE) /\ seen' = seen
  BY NumberTypes DEF AcceptRefused, IInv
<1>3. refusals' \in Nat /\ refusals <= refusals' /\ refusals' # 0
  BY <1>2
<1> QED BY <1>1, <1>2, <1>3, PutStep

LEMMA AcceptDuplicateStep == ASSUME NEW m \in Messages PROVE IInv /\ AcceptDuplicate(m) => IInv'
<1> SUFFICES ASSUME IInv, AcceptDuplicate(m) PROVE IInv'
  OBVIOUS
<1>1. CASE recordOf[m] = 0
  <2>1. Put(m, "duplicate") /\ Arrives /\ Persists(FALSE) /\ seen' = seen /\ refusals' = refusals
    BY <1>1 DEF AcceptDuplicate
  <2>2. refusals' \in Nat /\ refusals <= refusals'
    BY <2>1, NumberTypes DEF IInv
  <2> QED BY <2>1, <2>2, PutStep
<1>2. CASE recordOf[m] # 0
  <2> USE DEF IInv
  <2> DEFINE it == recordOf[m]
  <2>1. /\ process = "up" /\ deliveries < MaxDeliveries /\ deliveries' = deliveries + 1
        /\ UNCHANGED <<process, pumpAt, caller, due, current, disk, created, expiries, faults, crashes,
                       recordOf, made, seen, refusals>>
        /\ objects' = [objects EXCEPT ![it].state = "duplicate"]
        /\ saves' = [saves EXCEPT ![deliveries'] = Listed(recordOf, FALSE)]
    BY <1>2 DEF AcceptDuplicate, Arrives, Persists, pumpVars
  <2>2. it \in Ids /\ it <= made /\ objects[it].message = m /\ objects[it] \in Records
    BY <1>2 DEF TypeOK, Tables, StoresFit, Fits
  <2> HIDE DEF it
  <2>3. /\ objects' \in Stores /\ objects'[it].state = "duplicate"
        /\ \A id \in Ids : objects'[id].message = objects[id].message /\ objects'[id].attempts = objects[id].attempts
        /\ \A id \in Ids : id # it => objects'[id] = objects[id]
    <3>1. [objects[it] EXCEPT !.state = "duplicate"] \in Records
      <4>1. CASE objects[it] \in [message : Messages, state : States, attempts : 0..(MaxRetries + 1)]
        BY <4>1 DEF Records, States
      <4>2. CASE objects[it] = NoRecord
        BY <1>2, <2>2, <4>2, NumberTypes DEF Records, States, NoRecord
      <4> QED BY <2>2, <4>1, <4>2 DEF Records, NoRecord
    <3> QED BY <2>1, <2>2, <3>1 DEF TypeOK, Stores
  <2>4. TypeOK'
    <3>1. saves' \in [Ids \cup {0} -> Saves]
      BY <2>1, ListedType DEF TypeOK
    <3>2. deliveries' \in 0..MaxDeliveries
      BY <2>1, NumberTypes DEF TypeOK
    <3> QED BY <2>1, <2>3, <3>1, <3>2 DEF TypeOK, Stores
  <2>5. AllHonest(objects', created', refusals')
    <3>1. Honest(objects'[it], created', refusals')
      BY <2>3 DEF Honest
    <3>2. AllHonest(objects, created', refusals')
      BY <2>1 DEF StoresFit
    <3> QED BY <2>3, <3>1, <3>2 DEF AllHonest
  <2>6. Fits(recordOf', objects', made')
    <3>1. \A x \in Messages : recordOf[x] # 0 => recordOf[x] \in Ids
      BY DEF TypeOK, Tables
    <3> QED BY <2>1, <2>3, <3>1 DEF StoresFit, Fits
  <2>7. StoresFit'
    <3>1. \A s \in Ids \cup {0} : saves'[s] = saves[s] \/ \E d \in BOOLEAN : saves'[s] = Listed(recordOf', d)
      BY <2>1 DEF TypeOK
    <3>2. made <= made' /\ made' <= deliveries' /\ refusals <= refusals' /\ \A x \in Messages : created[x] <= created'[x]
      BY <2>1, NumberTypes DEF StoresFit
    <3> QED BY <2>1, <2>3, <2>4, <2>5, <2>6, <3>1, <3>2, StoresKept
  <2>8. Active' = Active /\ Active \in SUBSET Ids
    BY <2>1, ActiveTypes DEF Active
  <2>9. PassFits'
    <3>1. Ready(Active', objects', made')
      <4>1. Ready(Active, objects, made)
        BY DEF PassFits
      <4> QED BY <2>1, <2>3, <2>8, <4>1 DEF Ready
    <3> QED BY <2>1, <2>3, <3>1 DEF PassFits
  <2>10. Accounted'
    <3>1. \A x \in Messages : InPass(x)' => InPass(x)
      BY <2>3, <2>8 DEF InPass
    <3>2. \A x \in Messages : Awaits(x)' => Awaits(x)
      <4> SUFFICES ASSUME NEW x \in Messages, Awaits(x)' PROVE Awaits(x)
        OBVIOUS
      <4>1. recordOf[x] \in Ids /\ objects'[recordOf[x]].state # "duplicate"
        BY <2>1 DEF Awaits, TypeOK, Tables
      <4>2. objects'[recordOf[x]] = objects[recordOf[x]]
        BY <2>3, <4>1
      <4> QED BY <2>1, <2>8, <4>2 DEF Awaits
    <3>3. Bound' = Bound
      BY <2>1 DEF Bound
    <3> QED BY <2>1, <2>4, <3>1, <3>2, <3>3, HopesKept, NumberTypes
  <2> QED BY <2>4, <2>7, <2>9, <2>10
<1> QED BY <1>1, <1>2

LEMMA ExpireStep == ASSUME NEW m \in Messages PROVE IInv /\ Expire(m) => IInv'
<1> SUFFICES ASSUME IInv, Expire(m) PROVE IInv'
  OBVIOUS
<1> USE DEF IInv
<1>1. /\ seen' = seen \ {m} /\ expiries' = expiries + 1
      /\ UNCHANGED <<process, objects, recordOf, made, pumpAt, caller, due, current, saves, disk, created,
                     deliveries, refusals, faults, crashes>>
  BY DEF Expire, pumpVars
<1>2. TypeOK'
  <2>1. expiries' \in Nat /\ seen' \in SUBSET Messages
    BY <1>1 DEF TypeOK
  <2> QED BY <1>1, <2>1 DEF TypeOK
<1>3. StoresFit' /\ PassFits'
  BY <1>1 DEF StoresFit, PassFits, Active
<1>4. Accounted'
  <2>1. \A x \in Messages : (InPass(x)' <=> InPass(x)) /\ (Awaits(x)' <=> Awaits(x))
    BY <1>1 DEF InPass, Awaits, Active
  <2>2. \A x \in Messages : Hopes(x)' <= Hopes(x) + 1
    BY <2>1 DEF Hopes, One
  <2>3. Bound' = Bound + 1
    BY <1>1, NumberTypes DEF Bound
  <2>4. \A x \in Messages : created'[x] + Hopes(x)' + Bound <= created[x] + Hopes(x) + Bound'
    BY <1>1, <2>2, <2>3, NumberTypes, HopesTypes
  <2> QED BY <1>2, <2>4, HopesFall
<1> QED BY <1>2, <1>3, <1>4

------------------------------------------------------------------------------
(* processQueue: the rest of a pass. *)

Relabelled(records, id, state) == [records EXCEPT ![id].state = state]

LEMMA Stored ==
  ASSUME NEW records \in Stores, NEW id \in Ids, NEW state \in States, records[id].message \in Messages,
         MaxRetries \in Nat
  PROVE  /\ Relabelled(records, id, state) \in Stores /\ Relabelled(records, id, state)[id].state = state
         /\ \A other \in Ids : /\ Relabelled(records, id, state)[other].message = records[other].message
                               /\ Relabelled(records, id, state)[other].attempts = records[other].attempts
                               /\ other # id => Relabelled(records, id, state)[other] = records[other]
<1>1. records[id] \in Records
  BY DEF Stores
<1>2. [records[id] EXCEPT !.state = state] \in Records
  <2>1. CASE records[id] \in [message : Messages, state : States, attempts : 0..(MaxRetries + 1)]
    BY <2>1 DEF Records, States
  <2>2. CASE records[id] \in {NoRecord}
    <3>1. [records[id] EXCEPT !.state = state] =
            [message |-> records[id].message, state |-> state, attempts |-> records[id].attempts]
      BY <2>2 DEF NoRecord
    <3>2. records[id].attempts = 0
      BY <2>2 DEF NoRecord
    <3> QED BY <3>1, <3>2 DEF Records, States
  <2> QED BY <1>1, <2>1, <2>2 DEF Records, NoRecord
<1>3. Relabelled(records, id, state) = [other \in Ids |-> IF other = id THEN [records[id] EXCEPT !.state = state]
                                                         ELSE records[other]]
  BY DEF Relabelled, Stores
<1>4. /\ [records[id] EXCEPT !.state = state].state = state
      /\ [records[id] EXCEPT !.state = state].message = records[id].message
      /\ [records[id] EXCEPT !.state = state].attempts = records[id].attempts
  BY <1>1 DEF Records
<1> QED BY <1>2, <1>3, <1>4 DEF Stores

(* What a pass that starts may find. *)
LEMMA DueReady ==
  ASSUME IInv, NEW rest \in DueSets
  PROVE  /\ rest \in SUBSET Ids /\ Ready(rest, objects, made)
         /\ \A id \in rest : \E m \in Messages : recordOf[m] = id /\ objects[id].message = m
                                                 /\ objects[id].state \in {"queued", "retrying"}
<1> USE DEF IInv
<1>1. \A id \in rest : id \in Ids /\ objects[id].state \in {"queued", "retrying"} /\ \E m \in Messages : recordOf[m] = id
  BY DEF DueSets, InState
<1>2. ASSUME NEW id \in rest, NEW m \in Messages, recordOf[m] = id
      PROVE  objects[id].message = m /\ id <= made
  BY <1>1, <1>2, NumberTypes DEF StoresFit, Fits
<1>3. ASSUME NEW id \in rest PROVE objects[id].attempts <= MaxRetries
  <2>1. Honest(objects[id], created, refusals) /\ objects[id].state \in {"queued", "retrying"}
    BY <1>1 DEF StoresFit, AllHonest
  <2>2. objects[id].attempts = 0 \/ objects[id].attempts \in 1..MaxRetries
    BY <2>1 DEF Honest
  <2> QED BY <2>2, NumberTypes
<1>4. Ready(rest, objects, made)
  BY <1>1, <1>2, <1>3 DEF Ready
<1> QED BY <1>1, <1>2, <1>4

LEMMA ProceedStep ==
  ASSUME IInv, process = "up", NEW rest \in SUBSET Ids, NEW ss,
         rest = due \/ (pumpAt = "idle" /\ rest \in DueSets),
         \A s \in Ids \cup {0} : ss[s] = saves[s] \/ ss[s] = NoSave,
         ss \in [Ids \cup {0} -> Saves],
         Proceed(objects, rest, ss), caller' \in {"timer", "accept"},
         UNCHANGED <<process, seen, recordOf, made, created, deliveries, refusals, expiries, faults, crashes>>,
         disk' = disk \/ \E s \in Ids \cup {0} : saves[s].at = "written" /\ disk' = saves[s].file
  PROVE  IInv'
<1> USE DEF IInv
<1>0. Ready(rest, objects, made)
  BY DueReady DEF PassFits, Ready, Active
<1>1. PICK first \in rest \cup {0} :
        /\ first = 0 => rest = {} /\ objects' = objects /\ saves' = ss /\ pumpAt' = "idle" /\ due' = {} /\ current' = 0
        /\ first # 0 => /\ first \in rest
                        /\ objects' = [objects EXCEPT ![first].state = "processing"]
                        /\ saves' = [ss EXCEPT ![0] = Listed(recordOf, FALSE)]
                        /\ pumpAt' = "marking" /\ due' = rest \ {first} /\ current' = first
  <2>1. 0 \notin rest
    BY NumberTypes
  <2> QED BY <2>1 DEF Proceed
<1>2. disk' \in Files
  BY DEF TypeOK, Saves
<1>3. /\ objects' \in Stores
      /\ \A id \in Ids : objects'[id].message = objects[id].message /\ objects'[id].attempts = objects[id].attempts
      /\ \A id \in Ids : id \notin rest => objects'[id] = objects[id]
      /\ \A id \in Ids : objects'[id] = objects[id] \/ objects'[id].state = "processing"
  <2>1. CASE first = 0
    BY <1>1, <2>1 DEF TypeOK, Stores
  <2>2. CASE first # 0
    <3>1. objects \in Stores /\ first \in Ids /\ objects[first].message \in Messages /\ MaxRetries \in Nat
      BY <1>0, <1>1, <2>2, NumberTypes DEF TypeOK, Stores, Ready
    <3>2. "processing" \in States
      BY DEF States
    <3>3. objects' = Relabelled(objects, first, "processing") /\ first \in rest
      BY <1>1, <2>2 DEF Relabelled
    <3>4. /\ objects' \in Stores /\ objects'[first].state = "processing"
          /\ \A id \in Ids : objects'[id].message = objects[id].message /\ objects'[id].attempts = objects[id].attempts
          /\ \A id \in Ids : id # first => objects'[id] = objects[id]
      BY <3>1, <3>2, <3>3, Stored
    <3> QED BY <3>3, <3>4
  <2> QED BY <2>1, <2>2
<1>4. /\ saves' \in [Ids \cup {0} -> Saves]
      /\ \A s \in Ids \cup {0} : \/ saves'[s] = saves[s] \/ saves'[s] = NoSave
                                 \/ \E drain \in BOOLEAN : saves'[s] = Listed(recordOf', drain)
  <2>1. Listed(recordOf, FALSE) \in Saves
    BY ListedType DEF TypeOK
  <2> QED BY <1>1, <2>1
<1>5. TypeOK'
  <2>1. /\ pumpAt' \in {"idle", "marking", "dispatching", "acking", "counting"}
        /\ due' \in SUBSET Ids /\ current' \in Ids \cup {0}
    BY <1>1
  <2> QED BY <1>2, <1>3, <1>4, <2>1 DEF TypeOK, Stores
<1>6. AllHonest(objects', created', refusals')
  <2>1. AllHonest(objects, created', refusals')
    BY DEF StoresFit
  <2> QED BY <1>3, <2>1 DEF AllHonest, Honest
<1>7. Fits(recordOf', objects', made')
  <2>1. \A m \in Messages : recordOf[m] # 0 => recordOf[m] \in Ids
    BY DEF TypeOK, Tables
  <2> QED BY <1>3, <2>1 DEF StoresFit, Fits
<1>8. StoresFit'
  <2>1. made <= made' /\ made' <= deliveries' /\ refusals <= refusals' /\ \A m \in Messages : created[m] <= created'[m]
    BY NumberTypes DEF StoresFit
  <2> QED BY <1>3, <1>4, <1>5, <1>6, <1>7, <2>1, StoresKept
<1>9. Active' = rest
  BY <1>1 DEF Active
<1>10. PassFits'
  <2>1. Ready(rest, objects', made')
    BY <1>0, <1>3 DEF Ready
  <2> QED BY <1>1, <1>9, <2>1 DEF PassFits
<1>11. Accounted'
  <2>1. ASSUME NEW m \in Messages PROVE Hopes(m)' <= Hopes(m)
    <3>1. InPass(m)' <=> \E id \in rest : objects[id].message = m
      BY <1>3, <1>9 DEF InPass
    <3>2. Awaits(m)' <=> recordOf[m] # 0 /\ recordOf[m] \notin rest /\ objects[recordOf[m]].state \in {"queued", "retrying"}
      <4>1. recordOf[m] # 0 => recordOf[m] \in Ids
        BY DEF TypeOK, Tables
      <4> QED BY <1>3, <1>9, <4>1 DEF Awaits
    <3>3. Awaits(m) <=> recordOf[m] # 0 /\ recordOf[m] \notin Active /\ objects[recordOf[m]].state \in {"queued", "retrying"}
      BY DEF Awaits
    <3>4. seen' = seen
      OBVIOUS
    <3>5. recordOf[m] \in Active => InPass(m)
      <4>1. 0 \notin Active
        BY ActiveTypes, NumberTypes
      <4> QED BY <4>1 DEF InPass, StoresFit, Fits
    <3>6. ASSUME NEW id \in rest, objects[id].message = m
          PROVE  (InPass(m) /\ (Awaits(m)' => Awaits(m))) \/ (Awaits(m) /\ ~Awaits(m)')
      <4>1. CASE rest = due
        <5>1. id \in Active
          BY <4>1 DEF Active
        <5>2. ASSUME Awaits(m)', recordOf[m] \in Active PROVE FALSE
          <6>1. objects[recordOf[m]].message = m
            BY <3>2, <5>2 DEF StoresFit, Fits
          <6>2. recordOf[m] = id
            BY <3>6, <5>1, <5>2, <6>1 DEF PassFits, Ready
          <6> QED BY <3>2, <5>2, <6>2
        <5> QED BY <3>2, <3>3, <3>6, <5>1, <5>2 DEF InPass
      <4>2. CASE pumpAt = "idle" /\ rest \in DueSets
        <5>1. Active = {}
          BY <4>2 DEF PassFits, Active
        <5>2. recordOf[m] = id /\ objects[id].state \in {"queued", "retrying"}
          BY <3>6, <4>2, DueReady
        <5>3. id # 0
          BY NumberTypes
        <5> QED BY <3>2, <3>3, <5>1, <5>2, <5>3
      <4> QED BY <4>1, <4>2
    <3>7. CASE InPass(m)'
      <4>1. (InPass(m) /\ (Awaits(m)' => Awaits(m))) \/ (Awaits(m) /\ ~Awaits(m)')
        BY <3>1, <3>6, <3>7
      <4> QED BY <3>4, <4>1 DEF Hopes, One
    <3>8. CASE ~InPass(m)'
      <4>1. Awaits(m)' => Awaits(m) \/ InPass(m)
        BY <3>2, <3>3, <3>5
      <4> QED BY <3>4, <3>8, <4>1 DEF Hopes, One
    <3> QED BY <3>7, <3>8
  <2>2. Bound' = Bound
    BY DEF Bound
  <2>3. \A m \in Messages : created'[m] + Hopes(m)' + Bound <= created[m] + Hopes(m) + Bound'
    BY <2>1, <2>2, NumberTypes, HopesTypes
  <2> QED BY <1>5, <2>3, HopesFall
<1> QED BY <1>5, <1>8, <1>10, <1>11

LEMMA PumpStartsStep == IInv /\ PumpStarts => IInv'
<1> SUFFICES ASSUME IInv, PumpStarts PROVE IInv'
  OBVIOUS
<1>1. PICK rest \in DueSets \ {{}} : Proceed(objects, rest, saves)
  BY DEF PumpStarts
<1>2. /\ process = "up" /\ pumpAt = "idle" /\ caller' = "timer"
      /\ UNCHANGED <<process, seen, recordOf, made, disk, created, deliveries, refusals, expiries, faults, crashes>>
  BY DEF PumpStarts, countVars
<1>3. rest \in SUBSET Ids /\ saves \in [Ids \cup {0} -> Saves]
  BY DueReady DEF IInv, TypeOK
<1> QED BY <1>1, <1>2, <1>3, ProceedStep

(* The pass is done with the record it dispatches. *)
LEMMA SettlesStep ==
  ASSUME IInv, pumpAt \in {"dispatching", "acking"}, NEW record,
         record = [message |-> objects[current].message, state |-> record.state, attempts |-> record.attempts],
         record.state \in {"acked", "retrying", "poison"}, record.attempts \in 0..(MaxRetries + 1),
         objects' = [objects EXCEPT ![current] = record],
         saves' = [saves EXCEPT ![0] = Listed(recordOf, FALSE)],
         pumpAt' \in {"acking", "counting"}, pumpAt' = "acking" => record.attempts <= MaxRetries,
         Honest(record, created', refusals'),
         UNCHANGED <<process, seen, recordOf, made, caller, due, current, disk, deliveries, refusals, expiries, crashes>>,
         created' = created \/ created' = [created EXCEPT ![objects[current].message] = @ + 1],
         \/ faults' = faults /\ pumpAt = "dispatching" /\ (record.state = "acked" \/ created' = created)
         \/ faults' = faults + 1 /\ (pumpAt = "dispatching" \/ created' = created)
  PROVE  IInv'
<1> USE DEF IInv
<1> DEFINE mine == objects[current].message
<1>1. current \in Ids /\ current \notin due /\ current <= made /\ mine \in Messages /\ process = "up" /\ process' = "up"
  <2>1. current \in Ids /\ current \notin due /\ process = "up"
    BY DEF PassFits, TypeOK
  <2>2. CASE pumpAt = "dispatching"
    <3>1. current \in Active
      BY <2>2 DEF Active
    <3> QED BY <2>1, <3>1 DEF PassFits, Ready
  <2>3. CASE pumpAt = "acking"
    BY <2>1, <2>3 DEF PassFits
  <2> QED BY <2>2, <2>3
<1>2. record \in Records /\ record.message = mine
  <2>1. record.state \in States
    BY DEF States
  <2> QED BY <1>1, <2>1 DEF Records
<1>3. /\ objects' \in Stores /\ objects'[current] = record
      /\ \A id \in Ids : objects'[id].message = objects[id].message
      /\ \A id \in Ids : id # current => objects'[id] = objects[id]
  BY <1>1, <1>2 DEF TypeOK, Stores
<1>4. /\ created' \in Counts
      /\ \A m \in Messages : created[m] \in Nat /\ created'[m] \in Nat /\ created[m] <= created'[m] /\ created'[m] <= created[m] + 1
      /\ \A m \in Messages : m # mine => created'[m] = created[m]
  BY <1>1 DEF TypeOK, Counts
<1> HIDE DEF mine
<1>5. TypeOK'
  <2>1. saves' \in [Ids \cup {0} -> Saves]
    BY ListedType DEF TypeOK
  <2>2. faults' \in Nat
    BY NumberTypes
  <2>3. pumpAt' \in {"idle", "marking", "dispatching", "acking", "counting"}
    OBVIOUS
  <2> QED BY <1>3, <1>4, <2>1, <2>2, <2>3 DEF TypeOK, Stores, Counts
<1>6. StoresFit'
  <2>1. made <= made' /\ made' <= deliveries' /\ refusals <= refusals'
    BY NumberTypes DEF StoresFit
  <2>2. AllHonest(objects', created', refusals')
    <3>1. AllHonest(objects, created', refusals')
      <4>1. /\ objects \in Stores /\ created \in Counts /\ refusals \in Nat /\ refusals' = refusals
            /\ AllHonest(objects, created, refusals)
        BY DEF StoresFit, TypeOK, Stores, Counts
      <4> QED BY <1>4, <4>1, HonestGrows
    <3> QED BY <1>3, <3>1 DEF AllHonest
  <2>3. Fits(recordOf', objects', made')
    <3>1. \A m \in Messages : recordOf[m] # 0 => recordOf[m] \in Ids
      BY DEF TypeOK, Tables
    <3> QED BY <1>3, <3>1 DEF StoresFit, Fits
  <2>4. \A s \in Ids \cup {0} : saves'[s] = saves[s] \/ \E drain \in BOOLEAN : saves'[s] = Listed(recordOf', drain)
    BY DEF TypeOK
  <2> QED BY <1>3, <1>4, <1>5, <2>1, <2>2, <2>3, <2>4, StoresKept
<1>7. Active' = due /\ due \subseteq Active /\ due \subseteq Ids /\ (pumpAt = "dispatching" => Active = due \cup {current})
      /\ (pumpAt = "acking" => Active = due)
  BY DEF Active, TypeOK
<1>8. PassFits'
  <2>1. Ready(due, objects', made')
    <3>1. Ready(Active, objects, made)
      BY DEF PassFits
    <3> QED BY <1>1, <1>3, <1>7, <3>1 DEF Ready
  <2> QED BY <1>1, <1>2, <1>3, <1>7, <2>1 DEF PassFits
<1>9. Accounted'
  <2>1. \A m \in Messages : InPass(m)' => InPass(m)
    BY <1>3, <1>7 DEF InPass
  <2>2. \A m \in Messages : Awaits(m)' => Awaits(m) \/ (m = mine /\ record.state = "retrying")
    <3> SUFFICES ASSUME NEW m \in Messages, Awaits(m)', ~(m = mine /\ record.state = "retrying") PROVE Awaits(m)
      OBVIOUS
    <3>1. /\ recordOf[m] # 0 /\ recordOf[m] \in Ids /\ recordOf[m] \notin due
          /\ objects'[recordOf[m]].state \in {"queued", "retrying"} /\ objects[recordOf[m]].message = m
      BY <1>1, <1>7 DEF Awaits, TypeOK, Tables, StoresFit, Fits
    <3>2. recordOf[m] # current
      BY <1>3, <3>1 DEF mine
    <3> QED BY <1>1, <1>3, <1>7, <3>1, <3>2 DEF Awaits
  <2>3. \A m \in Messages : m = mine /\ pumpAt = "dispatching" => InPass(m) /\ ~InPass(m)'
    <3> SUFFICES ASSUME NEW m \in Messages, m = mine, pumpAt = "dispatching" PROVE InPass(m) /\ ~InPass(m)'
      OBVIOUS
    <3>1. Active = due \cup {current} /\ objects[current].message = m
      BY <1>7 DEF mine
    <3>2. InPass(m)
      BY <3>1 DEF InPass
    <3>3. ASSUME NEW id \in due, objects[id].message = m PROVE FALSE
      BY <1>1, <3>1, <3>3 DEF PassFits, Ready
    <3>4. \A id \in due : objects'[id].message # m
      BY <1>3, <1>7, <3>3
    <3>5. ~InPass(m)'
      BY <1>7, <3>4 DEF InPass
    <3> QED BY <3>2, <3>5
  <2>4. Bound' = Bound + (faults' - faults)
    BY NumberTypes DEF Bound
  <2>5. ASSUME NEW m \in Messages PROVE created'[m] + Hopes(m)' + Bound <= created[m] + Hopes(m) + Bound'
    <3>1. CASE m # mine
      <4>1. Hopes(m)' <= Hopes(m)
        BY <2>1, <2>2, <3>1 DEF Hopes, One
      <4> QED BY <1>4, <2>4, <3>1, <4>1, NumberTypes, HopesTypes
    <3>2. CASE m = mine /\ pumpAt = "dispatching" /\ record.state = "acked"
      <4>1. InPass(m) /\ ~InPass(m)'
        BY <2>3, <3>2
      <4>2. Hopes(m)' + 1 <= Hopes(m)
        BY <2>2, <3>2, <4>1 DEF Hopes, One
      <4> QED BY <1>4, <2>4, <4>2, NumberTypes, HopesTypes
    <3>3. CASE m = mine /\ pumpAt = "dispatching" /\ record.state # "acked"
      <4>1. InPass(m) /\ ~InPass(m)'
        BY <2>3, <3>3
      <4>2. Hopes(m)' <= Hopes(m)
        BY <4>1 DEF Hopes, One
      <4> QED BY <1>4, <2>4, <3>3, <4>2, NumberTypes, HopesTypes
    <3>4. CASE m = mine /\ pumpAt = "acking"
      <4>1. Hopes(m)' <= Hopes(m) + 1
        BY <2>1 DEF Hopes, One
      <4> QED BY <1>4, <2>4, <3>4, <4>1, NumberTypes, HopesTypes
    <3> QED BY <3>1, <3>2, <3>3, <3>4
  <2> QED BY <1>5, <2>5, HopesFall
<1> QED BY <1>5, <1>6, <1>8, <1>9

LEMMA CurrentTypes ==
  ASSUME IInv, pumpAt \in {"dispatching", "acking"}
  PROVE  current \in Ids /\ objects[current].attempts \in 0..MaxRetries /\ objects[current].message \in Messages
<1> USE DEF IInv
<1>1. current \in Ids
  BY DEF PassFits, TypeOK
<1>2. objects[current].attempts <= MaxRetries /\ objects[current].message \in Messages
  <2>1. CASE pumpAt = "dispatching"
    <3>1. current \in Active
      BY <2>1 DEF Active
    <3> QED BY <3>1 DEF PassFits, Ready
  <2>2. CASE pumpAt = "acking"
    BY <2>2 DEF PassFits
  <2> QED BY <2>1, <2>2
<1>3. objects[current].attempts \in Nat
  <2>1. objects[current] \in Records
    BY <1>1 DEF TypeOK
  <2> QED BY <2>1, NumberTypes DEF Records
<1> QED BY <1>1, <1>2, <1>3, NumberTypes

LEMMA DispatchSucceedsStep == IInv /\ DispatchSucceeds => IInv'
<1> SUFFICES ASSUME IInv, DispatchSucceeds PROVE IInv'
  OBVIOUS
<1>1. /\ pumpAt = "dispatching" /\ pumpAt' = "acking"
      /\ created' = [created EXCEPT ![objects[current].message] = @ + 1]
      /\ objects' = [objects EXCEPT ![current].state = "acked"]
      /\ saves' = [saves EXCEPT ![0] = Listed(recordOf, FALSE)]
      /\ UNCHANGED <<process, seen, recordOf, made, caller, due, current, disk,
                     deliveries, refusals, expiries, faults, crashes>>
  BY DEF DispatchSucceeds, countVars
<1>2. current \in Ids /\ objects[current].attempts \in 0..MaxRetries /\ objects[current].message \in Messages
  BY <1>1, CurrentTypes
<1> DEFINE record == [message |-> objects[current].message, state |-> "acked", attempts |-> objects[current].attempts]
<1>3. objects' = [objects EXCEPT ![current] = record]
  <2>1. objects[current] = [message |-> objects[current].message, state |-> objects[current].state,
                            attempts |-> objects[current].attempts]
    BY <1>2 DEF IInv, TypeOK, Records
  <2>2. [objects[current] EXCEPT !.state = "acked"] = record
    BY <2>1
  <2> HIDE DEF record
  <2>3. [objects EXCEPT ![current].state = "acked"] = [objects EXCEPT ![current] = record]
    BY <2>2
  <2> QED BY <1>1, <2>3
<1>4. Honest(record, created', refusals')
  <2>1. created'[objects[current].message] > 0
    BY <1>1, <1>2 DEF IInv, TypeOK
  <2> QED BY <2>1 DEF Honest
<1>5. record.attempts <= MaxRetries /\ record.attempts \in 0..(MaxRetries + 1)
  BY <1>2, NumberTypes DEF IInv
<1>6. /\ record = [message |-> objects[current].message, state |-> record.state, attempts |-> record.attempts]
      /\ record.state = "acked"
  OBVIOUS
<1> HIDE DEF record
<1> QED BY <1>1, <1>3, <1>4, <1>5, <1>6, SettlesStep

LEMMA CountFailureStep ==
  ASSUME IInv, pumpAt \in {"dispatching", "acking"}, CountFailure,
         UNCHANGED <<process, seen, recordOf, made, caller, due, current, disk, deliveries, refusals, expiries, crashes>>,
         created' = created \/ created' = [created EXCEPT ![objects[current].message] = @ + 1],
         \/ faults' = faults /\ pumpAt = "dispatching" /\ created' = created
         \/ faults' = faults + 1 /\ (pumpAt = "dispatching" \/ created' = created)
  PROVE  IInv'
<1> DEFINE attempts == objects[current].attempts + 1
<1> DEFINE record == [message |-> objects[current].message,
                      state |-> IF Exhausted(attempts) THEN "poison" ELSE "retrying", attempts |-> attempts]
<1>1. /\ objects' = [objects EXCEPT ![current] = record] /\ pumpAt' = "counting"
      /\ saves' = [saves EXCEPT ![0] = Listed(recordOf, FALSE)]
  BY DEF CountFailure
<1>2. attempts \in 1..(MaxRetries + 1) /\ MaxRetries \in Nat
  BY CurrentTypes, NumberTypes DEF IInv
<1>3. Honest(record, created', refusals')
  BY <1>2 DEF Honest, Exhausted
<1>4. record.attempts \in 0..(MaxRetries + 1)
  BY <1>2
<1>5. /\ record = [message |-> objects[current].message, state |-> record.state, attempts |-> record.attempts]
      /\ record.state \in {"retrying", "poison"}
  OBVIOUS
<1> HIDE DEF record
<1> QED BY <1>1, <1>3, <1>4, <1>5, SettlesStep

LEMMA DispatchFailsStep == IInv /\ DispatchFails => IInv'
<1> SUFFICES ASSUME IInv, DispatchFails PROVE IInv'
  OBVIOUS
<1>1. /\ pumpAt = "dispatching" /\ CountFailure
      /\ UNCHANGED <<process, seen, recordOf, made, caller, due, current, disk, deliveries, refusals, expiries, crashes>>
      /\ \/ created' = created /\ faults' = faults
         \/ created' = [created EXCEPT ![objects[current].message] = @ + 1] /\ faults' = faults + 1
  BY DEF DispatchFails
<1> QED BY <1>1, CountFailureStep

------------------------------------------------------------------------------
(* persist. *)

LEMMA SaveWritesStep == ASSUME NEW s \in Ids \cup {0} PROVE IInv /\ SaveWrites(s) => IInv'
<1> SUFFICES ASSUME IInv, SaveWrites(s) PROVE IInv'
  OBVIOUS
<1> USE DEF IInv
<1> DEFINE table == saves[s].file.table
           listed == [id \in Ids |-> IF id \in InTable(table) THEN objects[id] ELSE NoRecord]
           save == [at |-> "written", drain |-> saves[s].drain, file |-> [table |-> table, objects |-> listed]]
<1>1. /\ saves[s].at = "listed" /\ saves' = [saves EXCEPT ![s] = save]
      /\ UNCHANGED <<process, seen, objects, recordOf, made, pumpAt, caller, due, current, disk, created,
                     deliveries, refusals, expiries, faults, crashes>>
  BY DEF SaveWrites, tableVars, pumpVars, countVars
<1>2. saves[s] \in Saves /\ table \in Tables /\ saves[s].drain \in BOOLEAN
  BY DEF TypeOK, Saves, Files
<1>3. listed \in Stores
  BY EmptyTypes DEF TypeOK, Stores
<1>4. save \in Saves
  BY <1>2, <1>3 DEF Saves, Files, Stores
<1>5. SaveFits(save, objects, created, refusals, made)
  <2>1. SaveFits(saves[s], objects, created, refusals, made)
    BY DEF StoresFit
  <2>2. AllHonest(listed, created, refusals)
    <3>1. AllHonest(objects, created, refusals)
      BY DEF StoresFit
    <3>2. Honest(NoRecord, created, refusals)
      BY DEF Honest, NoRecord
    <3> QED BY <3>1, <3>2 DEF AllHonest
  <2>3. Fits(table, objects, made)
    BY <2>1 DEF SaveFits
  <2>4. Fits(table, listed, made)
    <3>1. \A m \in Messages : table[m] # 0 => table[m] \in Ids /\ table[m] \in InTable(table)
      BY <1>2 DEF Tables, InTable
    <3>2. \A m \in Messages : table[m] # 0 => listed[table[m]] = objects[table[m]]
      BY <3>1
    <3> QED BY <2>3, <3>2 DEF Fits
  <2> HIDE DEF table, listed
  <2> QED BY <2>2, <2>3, <2>4 DEF SaveFits
<1> HIDE DEF save, table, listed
<1>6. TypeOK'
  <2>1. saves' \in [Ids \cup {0} -> Saves]
    BY <1>1, <1>4 DEF TypeOK
  <2> QED BY <1>1, <2>1 DEF TypeOK
<1>7. StoresFit'
  <2>1. \A x \in Ids \cup {0} : SaveFits(saves'[x], objects, created, refusals, made)
    BY <1>1, <1>5 DEF StoresFit, TypeOK
  <2> QED BY <1>1, <2>1 DEF StoresFit
<1>8. process # "down"
  BY <1>1 DEF PassFits, NoSave
<1>9. Active' = Active
  BY <1>1 DEF Active
<1>10. PassFits'
  BY <1>1, <1>8, <1>9 DEF PassFits
<1>11. Accounted'
  <2>1. \A m \in Messages : (InPass(m)' <=> InPass(m)) /\ (Awaits(m)' <=> Awaits(m))
    BY <1>1, <1>9 DEF InPass, Awaits
  <2>2. Bound' = Bound
    BY <1>1 DEF Bound
  <2> QED BY <1>1, <1>6, <2>1, <2>2, HopesKept, NumberTypes
<1> QED BY <1>6, <1>7, <1>10, <1>11

LEMMA SaveEndsStep == ASSUME NEW s \in Ids \cup {0} PROVE IInv /\ SaveEnds(s) => IInv'
<1> SUFFICES ASSUME IInv, SaveEnds(s) PROVE IInv'
  OBVIOUS
<1> USE DEF IInv
<1> DEFINE rest == [saves EXCEPT ![s] = NoSave]
<1>1. /\ saves[s].at = "written" /\ disk' = saves[s].file
      /\ UNCHANGED <<process, seen, recordOf, made, created, deliveries, refusals, expiries, faults, crashes>>
  BY DEF SaveEnds, countVars
<1>2. process = "up"
  BY <1>1 DEF PassFits, NoSave, TypeOK
<1>3. rest \in [Ids \cup {0} -> Saves] /\ \A x \in Ids \cup {0} : rest[x] = saves[x] \/ rest[x] = NoSave
  BY EmptyTypes DEF TypeOK
<1>4. \/ \E ids \in DueSets : Proceed(objects, ids, rest) /\ pumpAt = "idle" /\ caller' = "accept"
      \/ Proceed(objects, due, rest) /\ caller' = caller
      \/ /\ saves' = rest /\ UNCHANGED <<objects, caller, due, current>>
         /\ pumpAt' = pumpAt \/ (pumpAt = "marking" /\ pumpAt' = "dispatching")
  BY DEF SaveEnds, pumpVars
<1> HIDE DEF rest
<1>5. CASE \E ids \in DueSets : Proceed(objects, ids, rest) /\ pumpAt = "idle" /\ caller' = "accept"
  <2>1. PICK ids \in DueSets : Proceed(objects, ids, rest)
    BY <1>5
  <2>2. ids \in SUBSET Ids /\ caller' \in {"timer", "accept"}
    BY <1>5, DueReady
  <2> QED BY <1>1, <1>2, <1>3, <1>5, <2>1, <2>2, ProceedStep
<1>6. CASE Proceed(objects, due, rest) /\ caller' = caller
  <2>1. due \in SUBSET Ids /\ caller' \in {"timer", "accept"}
    BY <1>6 DEF TypeOK
  <2> QED BY <1>1, <1>2, <1>3, <1>6, <2>1, ProceedStep
<1>7. CASE /\ saves' = rest /\ UNCHANGED <<objects, caller, due, current>>
           /\ pumpAt' = pumpAt \/ (pumpAt = "marking" /\ pumpAt' = "dispatching")
  <2>1. TypeOK'
    <3>1. disk' \in Files
      BY <1>1 DEF TypeOK, Saves
    <3> QED BY <1>1, <1>3, <1>7, <3>1 DEF TypeOK
  <2>2. StoresFit'
    <3>1. \A x \in Ids \cup {0} : saves'[x] = saves[x] \/ saves'[x] = NoSave
      BY <1>3, <1>7
    <3>2. /\ made <= made' /\ made' <= deliveries' /\ refusals <= refusals'
          /\ \A m \in Messages : created[m] <= created'[m]
      BY <1>1, NumberTypes DEF StoresFit
    <3>3. AllHonest(objects', created', refusals') /\ Fits(recordOf', objects', made')
      BY <1>1, <1>7 DEF StoresFit
    <3>4. \A id \in Ids : id <= made => objects'[id].message = objects[id].message
      BY <1>7
    <3>5. disk' = disk \/ \E x \in Ids \cup {0} : saves[x].at = "written" /\ disk' = saves[x].file
      BY <1>1
    <3> QED BY <2>1, <3>1, <3>2, <3>3, <3>4, <3>5, StoresKept
  <2>3. Active' = Active
    BY <1>7 DEF Active
  <2>4. PassFits'
    BY <1>1, <1>2, <1>7, <2>3 DEF PassFits, Ready
  <2>5. Accounted'
    <3>1. \A m \in Messages : (InPass(m)' <=> InPass(m)) /\ (Awaits(m)' <=> Awaits(m))
      BY <1>1, <1>2, <1>7, <2>3 DEF InPass, Awaits
    <3>2. Bound' = Bound
      BY <1>1 DEF Bound
    <3> QED BY <1>1, <2>1, <3>1, <3>2, HopesKept, NumberTypes
  <2> QED BY <2>1, <2>2, <2>4, <2>5
<1> QED BY <1>4, <1>5, <1>6, <1>7

LEMMA SaveFailsStep == ASSUME NEW s \in Ids \cup {0} PROVE IInv /\ SaveFails(s) => IInv'
<1> SUFFICES ASSUME IInv, SaveFails(s) PROVE IInv'
  OBVIOUS
<1> USE DEF IInv
<1>1. /\ saves[s].at # "none" /\ faults' = faults + 1
      /\ UNCHANGED <<made, disk, created, deliveries, refusals, expiries>>
  BY DEF SaveFails
<1>2. process = "up"
  BY <1>1 DEF PassFits, NoSave, TypeOK
<1>3. faults' \in Nat /\ faults <= faults'
  BY <1>1, NumberTypes
<1>4. \/ /\ saves' = [saves EXCEPT ![s] = NoSave]
         /\ UNCHANGED <<process, seen, objects, recordOf, caller, crashes>>
         /\ UNCHANGED <<pumpAt, due, current>> \/ (pumpAt' = "idle" /\ due' = {} /\ current' = 0)
      \/ pumpAt = "acking" /\ CountFailure /\ UNCHANGED <<process, seen, recordOf, caller, due, current, crashes>>
      \/ ProcessEnds
  BY DEF SaveFails, pumpVars
<1>5. CASE /\ saves' = [saves EXCEPT ![s] = NoSave]
           /\ UNCHANGED <<process, seen, objects, recordOf, caller, crashes>>
           /\ UNCHANGED <<pumpAt, due, current>> \/ (pumpAt' = "idle" /\ due' = {} /\ current' = 0)
  <2>1. TypeOK'
    <3>1. saves' \in [Ids \cup {0} -> Saves]
      BY <1>5, EmptyTypes DEF TypeOK
    <3>2. due' \in SUBSET Ids /\ current' \in Ids \cup {0}
          /\ pumpAt' \in {"idle", "marking", "dispatching", "acking", "counting"}
      BY <1>5 DEF TypeOK
    <3> QED BY <1>1, <1>3, <1>5, <3>1, <3>2 DEF TypeOK
  <2>2. StoresFit'
    <3>1. \A x \in Ids \cup {0} : saves'[x] = saves[x] \/ saves'[x] = NoSave
      BY <1>5 DEF TypeOK
    <3>2. \A x \in Ids \cup {0} : SaveFits(saves'[x], objects, created, refusals, made)
      BY <3>1, NewSaveFits DEF StoresFit
    <3> QED BY <1>1, <1>5, <3>2 DEF StoresFit
  <2>3. Active' = Active \/ Active' = {}
    BY <1>5 DEF Active
  <2>4. PassFits'
    BY <1>1, <1>2, <1>5, <2>3 DEF PassFits, Ready
  <2>5. Accounted'
    <3>1. \A m \in Messages : InPass(m)' => InPass(m)
      BY <1>5, <2>3 DEF InPass
    <3>2. \A m \in Messages : Hopes(m)' <= Hopes(m) + 1
      BY <1>5, <3>1 DEF Hopes, One
    <3>3. Bound' = Bound + 1
      BY <1>1, <1>5, NumberTypes DEF Bound
    <3>4. \A m \in Messages : created'[m] + Hopes(m)' + Bound <= created[m] + Hopes(m) + Bound'
      BY <1>1, <3>2, <3>3, NumberTypes, HopesTypes
    <3> QED BY <2>1, <3>4, HopesFall
  <2> QED BY <2>1, <2>2, <2>4, <2>5
<1>6. CASE pumpAt = "acking" /\ CountFailure /\ UNCHANGED <<process, seen, recordOf, caller, due, current, crashes>>
  BY <1>1, <1>6, CountFailureStep
<1>7. CASE ProcessEnds
  BY <1>1, <1>3, <1>7, EndsStep
<1> QED BY <1>4, <1>5, <1>6, <1>7

------------------------------------------------------------------------------
LEMMA NextSound == IInv /\ [Next]_vars => IInv'
<1> SUFFICES ASSUME IInv, [Next]_vars PROVE IInv'
  OBVIOUS
<1>1. CASE Initialize
  BY <1>1, InitializeStep
<1>2. CASE Crash
  BY <1>2, CrashStep
<1>3. ASSUME NEW m \in Messages, AcceptNew(m) \/ AcceptDuplicate(m) \/ AcceptRefused(m) \/ Expire(m) PROVE IInv'
  BY <1>3, AcceptNewStep, AcceptDuplicateStep, AcceptRefusedStep, ExpireStep
<1>4. CASE PumpStarts \/ DispatchSucceeds \/ DispatchFails
  BY <1>4, PumpStartsStep, DispatchSucceedsStep, DispatchFailsStep
<1>5. ASSUME NEW s \in Ids \cup {0}, SaveWrites(s) \/ SaveEnds(s) \/ SaveFails(s) PROVE IInv'
  BY <1>5, SaveWritesStep, SaveEndsStep, SaveFailsStep
<1>6. CASE UNCHANGED vars
  <2>1. UNCHANGED <<process, seen, objects, recordOf, made, pumpAt, caller, due, current, saves, disk, created,
                    deliveries, refusals, expiries, faults, crashes>>
    BY <1>6 DEF vars, tableVars, pumpVars, countVars
  <2>2. TypeOK'
    BY <2>1 DEF IInv, TypeOK
  <2>3. StoresFit'
    BY <2>1 DEF IInv, StoresFit
  <2>4. Active' = Active
    BY <2>1 DEF Active
  <2>5. PassFits'
    BY <2>1, <2>4 DEF IInv, PassFits
  <2>6. Accounted'
    <3>1. \A m \in Messages : (InPass(m)' <=> InPass(m)) /\ (Awaits(m)' <=> Awaits(m))
      BY <2>1, <2>4 DEF InPass, Awaits
    <3>2. Bound' = Bound
      BY <2>1 DEF Bound
    <3> QED BY <2>1, <2>2, <3>1, <3>2, HopesKept, NumberTypes DEF IInv
  <2> QED BY <2>2, <2>3, <2>5, <2>6 DEF IInv
<1> QED BY <1>1, <1>2, <1>3, <1>4, <1>5, <1>6 DEF Next

LEMMA InvariantHolds == Spec => []IInv
<1>1. Init => IInv
  BY InitSound
<1>2. IInv /\ [Next]_vars => IInv'
  BY NextSound
<1> QED BY <1>1, <1>2, PTL DEF Spec

(* Every variable of the bridge keeps its type: objects, the table, the saves and the file
   (supervisor.ts: accept, processQueue, persist, load). *)
THEOREM TypeCorrect == Spec => []TypeOK
<1>1. IInv => TypeOK
  BY DEF IInv
<1> QED BY <1>1, InvariantHolds, PTL

(* The file calls a message acknowledged only when its task exists, and a record is given up
   exactly when its retries are spent, whatever saves overlap, fail or come back after a crash. *)
THEOREM LabelsCorrect == Spec => []LabelsAreTrue
<1>1. IInv => LabelsAreTrue
  <2> SUFFICES ASSUME IInv PROVE LabelsAreTrue
    OBVIOUS
  <2>1. AllHonest(disk.objects, created, refusals) /\ AllHonest(objects, created, refusals)
    BY DEF IInv, StoresFit
  <2> QED BY <2>1 DEF AllHonest, Honest, LabelsAreTrue, AckedOnDiskWasCreated, RetryBudget
<1> QED BY <1>1, InvariantHolds, PTL

(* A message becomes at most one task, and one more for a save that failed, an entry of the
   verifier that expired, and two for an end of the process (which forgets what was seen and loads
   a record that may be dispatched again). *)
THEOREM TaskBoundCorrect == Spec => []TaskBound
<1>1. IInv => TaskBound
  <2> SUFFICES ASSUME IInv, NEW m \in Messages PROVE created[m] <= Bound
    BY DEF TaskBound, Bound
  <2>1. created[m] + Hopes(m) <= Bound /\ created[m] \in Nat /\ Bound \in Nat
    BY NumberTypes DEF IInv, Accounted
  <2> QED BY <2>1, HopesTypes
<1> QED BY <1>1, InvariantHolds, PTL
=============================================================================
