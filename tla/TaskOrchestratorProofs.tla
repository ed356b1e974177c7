----------------------- MODULE TaskOrchestratorProofs -----------------------
(***************************************************************************)
(* Safety of TaskOrchestrator for every number of tasks, executions,       *)
(* retries, repairs, requests, faults and crashes.                         *)
(*                                                                         *)
(* The invariant is a predicate of a table of tasks, a queue and a set of  *)
(* executions, so that it can be said of the intermediate tables a handler *)
(* passes on: to its catch block, to updateParentState, to the pump.       *)
(*                                                                         *)
(* The second half looks at every step through one of a few kinds          *)
(* (StepRuns, StepPumps, ...) that say what it does to the tasks and the   *)
(* executions, and proves from them what relates several executions: one   *)
(* turn at a time, the number of starts, and the state of parents.         *)
(***************************************************************************)
EXTENDS TaskOrchestrator, FiniteSetTheorems, SequenceTheorems, TLAPS

Working == InTurn \cup {"repairing"}

Scheduled(ts, q) ==
  \A id \in TaskIds : ts[id].status = "queued" => \E i \in DOMAIN q : q[i] = id

Worked(ts, rs) ==
  \A id \in TaskIds : ts[id].status = "running" => \E c \in Copies : rs[<<id, c>>].at \in Working

Escalated(ts) ==
  \A id \in TaskIds : ts[id].status = "failed" =>
    ts[id].escalated /\ (ChildrenIn(ts, id) = {} => ts[id].retries > MaxRetries)

(* Ids that were not given out stand for no task, and no execution has one. *)
Unused(ts, last) == \A id \in TaskIds : id > last => ts[id].status = "absent"
RunsUsed(rs, last) == \A r \in RunIds : rs[r].at # "none" => Task(r) <= last

Good(ts, q, rs, last) ==
  /\ ts \in Stores /\ q \in Seq(TaskIds) /\ rs \in [RunIds -> Runs]
  /\ Scheduled(ts, q)
  /\ Worked(ts, rs)
  /\ Escalated(ts)
  /\ Unused(ts, last)
  /\ RunsUsed(rs, last)

DownIsEmpty ==
  process = "down" => /\ running = {} /\ runs = [r \in RunIds |-> NoRun]
                      /\ calls = {} /\ ~flushing /\ sweep = 0

DiskGood == Escalated(disk) /\ Unused(disk, used)

IInv == TypeOK /\ DownIsEmpty /\ DiskGood /\ Good(tasks, queue, runs, used)

------------------------------------------------------------------------------
(* Lemmas about the operators the actions are built from. *)

LEMMA Appended ==
  ASSUME NEW q \in Seq(TaskIds), NEW id \in TaskIds
  PROVE  /\ Append(q, id) \in Seq(TaskIds)
         /\ \E i \in DOMAIN Append(q, id) : Append(q, id)[i] = id
         /\ \A i \in DOMAIN q : i \in DOMAIN Append(q, id) /\ Append(q, id)[i] = q[i]
<1>1. Append(q, id) \in Seq(TaskIds) /\ Len(Append(q, id)) = Len(q) + 1
      /\ DOMAIN q = 1..Len(q) /\ DOMAIN Append(q, id) = 1..(Len(q) + 1)
      /\ Len(q) \in Nat
  OBVIOUS
<1>2. Append(q, id)[Len(q) + 1] = id
  OBVIOUS
<1>3. \A i \in DOMAIN q : Append(q, id)[i] = q[i]
  OBVIOUS
<1> QED BY <1>1, <1>2, <1>3

(* A table in which nothing vanished, no failure is new and retries only grew. *)
LEMMA EscalatedStep ==
  ASSUME NEW a \in Stores, NEW b \in Stores, Escalated(a),
         \A id \in TaskIds :
           /\ a[id].status # "absent" => b[id].status # "absent" /\ b[id].parent = a[id].parent
           /\ b[id].status = "failed" =>
                \/ /\ a[id].status = "failed" /\ (a[id].escalated => b[id].escalated)
                   /\ b[id].retries >= a[id].retries
                \/ b[id].escalated /\ (ChildrenIn(a, id) # {} \/ b[id].retries > MaxRetries)
  PROVE  Escalated(b)
<1> SUFFICES ASSUME NEW id \in TaskIds, b[id].status = "failed"
             PROVE  b[id].escalated /\ (ChildrenIn(b, id) = {} => b[id].retries > MaxRetries)
  BY DEF Escalated
<1>1. ChildrenIn(a, id) \subseteq ChildrenIn(b, id)
  BY DEF ChildrenIn
<1>2. a[id].retries \in Nat /\ b[id].retries \in Nat /\ MaxRetries \in Nat
  BY BudgetAssumption DEF Stores, Tasks
<1>3. CASE a[id].status = "failed" /\ (a[id].escalated => b[id].escalated)
           /\ b[id].retries >= a[id].retries
  BY <1>1, <1>2, <1>3 DEF Escalated
<1>4. CASE b[id].escalated /\ (ChildrenIn(a, id) # {} \/ b[id].retries > MaxRetries)
  BY <1>1, <1>2, <1>4
<1> QED BY <1>3, <1>4

LEMMA ParentUpdatedGood ==
  ASSUME TypeOK, Good(tasks, queue, runs, used), NEW id \in TaskIds
  PROVE  /\ Good(ParentUpdated(id), queue, runs, used)
         /\ \A t \in TaskIds : ParentUpdated(id)[t].status = "absent" => tasks[t].status = "absent"
<1>1. CASE tasks[id].parent = 0
  BY <1>1 DEF ParentUpdated
<1>2. CASE tasks[id].parent # 0
  <2> DEFINE p == tasks[id].parent
             new == FanInStatus(p)
             ts == ParentUpdated(id)
  <2>1. p \in TaskIds /\ tasks \in Stores
    BY <1>2 DEF TypeOK, Stores, Tasks
  <2>2. new \in {"failed", "done", "blocked"}
    BY DEF FanInStatus
  <2>3. new = "failed" => ChildrenIn(tasks, p) # {}
    BY DEF FanInStatus, Children
  <2>4. ts = [tasks EXCEPT ![p].escalated = @ \/ new = "failed",
                           ![p].status = IF ParentRefuses(id) THEN @ ELSE new]
    BY <1>2 DEF ParentUpdated
  <2>5. ParentRefuses(id) \/ tasks[p].status = new \/ new \in AllowedTransitions[tasks[p].status]
    BY <1>2 DEF ParentRefuses, CanMove
  <2>6. tasks[p].status \in Statuses
    BY <2>1 DEF Stores, Tasks
  <2>7. ~ParentRefuses(id) => tasks[p].status # "absent"
    BY <2>2, <2>5 DEF AllowedTransitions
  <2> HIDE DEF new
  <2>8. ts[p].status = (IF ParentRefuses(id) THEN tasks[p].status ELSE new)
        /\ ts[p].escalated = (tasks[p].escalated \/ new = "failed")
        /\ ts[p].retries = tasks[p].retries /\ ts[p].parent = tasks[p].parent
        /\ ts[p].repairs = tasks[p].repairs /\ ts[p].cancel = tasks[p].cancel
    BY <2>1, <2>4 DEF Stores, Tasks
  <2>9. \A t \in TaskIds \ {p} : ts[t] = tasks[t]
    BY <2>1, <2>4 DEF Stores
  <2>10. ts \in Stores
    <3>1. (tasks[p].escalated \/ new = "failed") \in BOOLEAN
      OBVIOUS
    <3>2. (IF ParentRefuses(id) THEN tasks[p].status ELSE new) \in Statuses
      BY <2>2, <2>6 DEF Statuses
    <3>3. ts[p] = [tasks[p] EXCEPT !.escalated = tasks[p].escalated \/ new = "failed",
                                   !.status = IF ParentRefuses(id) THEN tasks[p].status ELSE new]
      BY <2>1, <2>4 DEF Stores
    <3>4. ts[p] \in Tasks
      <4>1. tasks[p] \in Tasks
        BY <2>1 DEF Stores
      <4>2. ASSUME NEW e \in BOOLEAN, NEW s \in Statuses,
                   ts[p] = [tasks[p] EXCEPT !.escalated = e, !.status = s]
            PROVE  ts[p] \in Tasks
        BY <4>1, <4>2 DEF Tasks
      <4> HIDE DEF ts, p
      <4> QED BY <4>2, <3>1, <3>2, <3>3, Zenon
    <3> QED BY <3>4, <2>1, <2>4, <2>9 DEF Stores
  <2> HIDE DEF ts
  <2>11. Scheduled(ts, queue) /\ Worked(ts, runs) /\ Unused(ts, used)
    BY <2>2, <2>7, <2>8, <2>9, <2>1 DEF Good, Scheduled, Worked, Unused
  <2>12. Escalated(ts)
    <3>1. \A t \in TaskIds :
           /\ ts[t].parent = tasks[t].parent
           /\ tasks[t].status # "absent" => ts[t].status # "absent"
           /\ ts[t].retries >= tasks[t].retries
           /\ tasks[t].escalated => ts[t].escalated
           /\ ts[t].status = "failed" =>
                \/ tasks[t].status = "failed"
                \/ ts[t].escalated /\ (ChildrenIn(tasks, t) # {} \/ ts[t].retries > MaxRetries)
      <4> TAKE t \in TaskIds
      <4>1. tasks[t].retries \in Nat
        BY <2>1 DEF Stores, Tasks
      <4>2. CASE t = p
        <5>1. tasks[t].escalated => ts[t].escalated
          BY <4>2, <2>8
        <5>2. ts[t].status = "failed" => tasks[t].status = "failed" \/ new = "failed"
          BY <4>2, <2>8
        <5>3. new = "failed" => ts[t].escalated /\ ChildrenIn(tasks, t) # {}
          BY <4>2, <2>8, <2>3
        <5>4. ts[t].parent = tasks[t].parent /\ ts[t].retries >= tasks[t].retries
          BY <4>1, <4>2, <2>8
        <5>5. tasks[t].status # "absent" => ts[t].status # "absent"
          BY <4>2, <2>2, <2>8
        <5> QED BY <5>1, <5>2, <5>3, <5>4, <5>5
      <4>3. CASE t # p
        BY <4>1, <4>3, <2>9
      <4> QED BY <4>2, <4>3
    <3> QED BY <3>1, <2>1, <2>10, EscalatedStep DEF Good
  <2>13. \A t \in TaskIds : ts[t].status = "absent" => tasks[t].status = "absent"
    BY <2>2, <2>7, <2>8, <2>9
  <2> QED BY <2>10, <2>11, <2>12, <2>13 DEF Good, ts
<1> QED BY <1>1, <1>2

(* The pump keeps the invariant, whatever table, queue and executions it is called with. *)
LEMMA PumpGood ==
  ASSUME NEW ts, NEW q, NEW busy \in SUBSET TaskIds, NEW rs,
         Good(ts, q, rs, used), Cardinality(busy) <= MaxConcurrency,
         starts \in [TaskIds -> Nat], used \in Nat,
         Pump(ts, q, busy, rs), UNCHANGED used
  PROVE  /\ Good(tasks', queue', runs', used')
         /\ running' \in SUBSET TaskIds
         /\ Cardinality(running') <= MaxConcurrency
         /\ starts' \in [TaskIds -> Nat]
<1>1. CASE process = "stopping"
  BY <1>1 DEF Pump, Good, Scheduled, Worked, Escalated, Unused, RunsUsed
<1>2. CASE process # "stopping"
  <2>1. PICK n \in 0..Len(q) :
          /\ PumpStops(ts, q, busy, n)
          /\ \A m \in 0..Len(q) : PumpStops(ts, q, busy, m) => n <= m
          /\ \A id \in StartedBy(ts, q, n) : \E c \in Copies : FirstFree(rs, <<id, c>>)
          /\ tasks' = [id \in TaskIds |-> IF id \in StartedBy(ts, q, n)
                                          THEN [ts[id] EXCEPT !.status = "running"]
                                          ELSE ts[id]]
          /\ queue' = SubSeq(q, n + 1, Len(q))
          /\ running' = busy \cup StartedBy(ts, q, n)
          /\ runs' = [r \in RunIds |-> IF r[1] \in StartedBy(ts, q, n) /\ FirstFree(rs, r)
                                       THEN [NoRun EXCEPT !.at = "starting"] ELSE rs[r]]
          /\ starts' = [id \in TaskIds |-> IF id \in StartedBy(ts, q, n)
                                           THEN starts[id] + 1 ELSE starts[id]]
    BY <1>2 DEF Pump
  <2> DEFINE S == StartedBy(ts, q, n)
  <2>2. ts \in Stores /\ q \in Seq(TaskIds) /\ rs \in [RunIds -> Runs]
    BY DEF Good
  <2>3. /\ Len(q) \in Nat /\ DOMAIN q = 1..Len(q) /\ \A i \in 1..Len(q) : q[i] \in TaskIds
        /\ n \in Nat /\ n <= Len(q)
    BY <2>2
  <2>4. S \subseteq TaskIds /\ \A id \in S : ts[id].status = "queued"
    BY <2>3 DEF StartedBy
  <2>5. \A i \in 1..n : ts[q[i]].status = "queued" => q[i] \in S
    BY DEF StartedBy
  <2> HIDE DEF S
  <2>6. tasks' \in Stores
    <3>1. ASSUME NEW id \in TaskIds
          PROVE  [ts[id] EXCEPT !.status = "running"] \in Tasks /\ ts[id] \in Tasks
      BY <2>2 DEF Stores, Tasks, Statuses
    <3> QED BY <2>1, <3>1 DEF Stores
  <2>7. \A id \in TaskIds :
          /\ tasks'[id].status = (IF id \in S THEN "running" ELSE ts[id].status)
          /\ tasks'[id].parent = ts[id].parent /\ tasks'[id].retries = ts[id].retries
          /\ tasks'[id].escalated = ts[id].escalated
    BY <2>1, <2>2 DEF S, Stores, Tasks
  <2>8. /\ queue' \in Seq(TaskIds)
        /\ Len(queue') = Len(q) - n
        /\ DOMAIN queue' = 1..(Len(q) - n)
        /\ \A i \in 1..(Len(q) - n) : queue'[i] = q[n + i]
    <3>1. \A i \in (n + 1)..Len(q) : q[i] \in TaskIds
      BY <2>3
    <3>2. /\ queue' \in Seq(TaskIds)
          /\ Len(queue') = IF n + 1 <= Len(q) THEN Len(q) - (n + 1) + 1 ELSE 0
          /\ \A i \in 1..(Len(q) - (n + 1) + 1) : queue'[i] = q[(n + 1) + i - 1]
      <4>1. (n + 1) \in Int /\ Len(q) \in Int
        BY <2>3
      <4> QED BY <2>1, <3>1, <4>1, SubSeqProperties
    <3>3. Len(queue') = Len(q) - n
      <4>1. n + 1 <= Len(q) => Len(q) - (n + 1) + 1 = Len(q) - n
        <5>1. \A a, b \in Nat : b - (a + 1) + 1 = b - a
          OBVIOUS
        <5> QED BY <2>3, <5>1
      <4>2. ~(n + 1 <= Len(q)) => Len(q) - n = 0
        <5>1. \A a, b \in Nat : a <= b /\ ~(a + 1 <= b) => b - a = 0
          OBVIOUS
        <5> QED BY <2>3, <5>1
      <4> QED BY <3>2, <4>1, <4>2
    <3>7. \A i \in 1..(Len(q) - n) : (n + 1) + i - 1 = n + i
      BY <2>3
    <3>4. (Len(q) - (n + 1)) + 1 = Len(q) - n
      BY <2>3
    <3>5. \A i \in 1..(Len(q) - n) : queue'[i] = q[n + i]
      BY <3>2, <3>7, <3>4
    <3>6. DOMAIN queue' = 1..Len(queue')
      BY <3>2
    <3> QED BY <3>2, <3>3, <3>5, <3>6
  <2>9. runs' \in [RunIds -> Runs]
    BY <2>1, <2>2 DEF NoRun, Runs, Places, InTurn
  <2>10. starts' \in [TaskIds -> Nat]
    BY <2>1
  <2>11. Scheduled(tasks', queue')
    <3> SUFFICES ASSUME NEW id \in TaskIds, tasks'[id].status = "queued"
                 PROVE  \E i \in DOMAIN queue' : queue'[i] = id
      BY DEF Scheduled
    <3>1. id \notin S /\ ts[id].status = "queued"
      BY <2>7
    <3>2. PICK i \in DOMAIN q : q[i] = id
      BY <3>1 DEF Good, Scheduled
    <3>3. i \in (n + 1)..Len(q)
      BY <2>3, <2>5, <3>1, <3>2
    <3>4. i - n \in 1..(Len(q) - n) /\ n + (i - n) = i
      BY <2>3, <3>3
    <3>5. i - n \in DOMAIN queue' /\ queue'[i - n] = id
      BY <2>8, <3>2, <3>4
    <3> QED BY <3>5
  <2>12. Worked(tasks', runs')
    <3> SUFFICES ASSUME NEW id \in TaskIds, tasks'[id].status = "running"
                 PROVE  \E c \in Copies : runs'[<<id, c>>].at \in Working
      BY DEF Worked
    <3>1. CASE id \in S
      <4>1. PICK c \in Copies : FirstFree(rs, <<id, c>>)
        BY <2>1, <3>1 DEF S
      <4>2. <<id, c>> \in RunIds /\ <<id, c>>[1] = id
        BY DEF RunIds
      <4>3. runs'[<<id, c>>] = [NoRun EXCEPT !.at = "starting"]
        BY <2>1, <3>1, <4>1, <4>2 DEF S
      <4>4. runs'[<<id, c>>].at = "starting"
        BY <4>3 DEF NoRun
      <4> QED BY <4>4 DEF Working, InTurn
    <3>2. CASE id \notin S
      <4>1. PICK c \in Copies : rs[<<id, c>>].at \in Working
        BY <2>7, <3>2 DEF Good, Worked
      <4>2. <<id, c>> \in RunIds /\ <<id, c>>[1] = id
        BY DEF RunIds
      <4>3. runs'[<<id, c>>] = rs[<<id, c>>]
        BY <2>1, <3>2, <4>2 DEF S
      <4> QED BY <4>1, <4>3
    <3> QED BY <3>1, <3>2
  <2>13. Escalated(tasks')
    <3>1. \A id \in TaskIds : ts[id].retries \in Nat
      BY <2>2 DEF Stores, Tasks
    <3>2. \A id \in TaskIds :
           /\ tasks'[id].parent = ts[id].parent
           /\ ts[id].status # "absent" => tasks'[id].status # "absent"
           /\ tasks'[id].retries >= ts[id].retries
           /\ ts[id].escalated => tasks'[id].escalated
           /\ tasks'[id].status = "failed" => ts[id].status = "failed"
      BY <2>7, <3>1
    <3>3. Escalated(ts)
      BY DEF Good
    <3> QED BY <2>2, <2>6, <3>2, <3>3, EscalatedStep
  <2>14. Unused(tasks', used')
    BY <2>4, <2>7 DEF Good, Unused
  <2>15. RunsUsed(runs', used')
    <3> SUFFICES ASSUME NEW r \in RunIds, runs'[r].at # "none" PROVE Task(r) <= used'
      BY DEF RunsUsed
    <3>1. r[1] \in TaskIds
      BY DEF RunIds
    <3>2. CASE r[1] \in S
      <4>1. ~(r[1] > used)
        BY <2>4, <3>1, <3>2 DEF Good, Unused
      <4> QED BY <4>1, <3>1, SizeAssumption DEF Task, TaskIds
    <3>3. CASE r[1] \notin S
      BY <2>1, <3>3 DEF S, Good, RunsUsed
    <3> QED BY <3>2, <3>3
  <2>16. Cardinality(running') <= MaxConcurrency
    <3>1. IsFiniteSet(TaskIds) /\ IsFiniteSet(busy) /\ IsFiniteSet(S)
      <4>1. IsFiniteSet(TaskIds)
        BY FS_Interval, SizeAssumption DEF TaskIds
      <4> QED BY <4>1, <2>4, FS_Subset
    <3>2. CASE n = 0
      <4>1. S = {}
        BY <3>2 DEF S, StartedBy
      <4> QED BY <2>1, <4>1 DEF S
    <3>3. CASE n # 0
      <4> DEFINE before == StartedBy(ts, q, n - 1)
      <4>1. n - 1 \in 0..Len(q) /\ ~(n <= n - 1)
        BY <2>3, <3>3
      <4>2. ~PumpStops(ts, q, busy, n - 1)
        BY <2>1, <4>1
      <4>3. S \subseteq before \cup {q[n]} /\ before \subseteq S
        BY <2>3, <3>3 DEF S, StartedBy
      <4>4. IsFiniteSet(before) /\ IsFiniteSet(busy \cup before)
        <5>1. IsFiniteSet(before)
          BY <3>1, <4>3, FS_Subset
        <5> QED BY <5>1, <3>1, FS_Union
      <4>5. Cardinality(busy \cup before) < MaxConcurrency
        <5>1. ~(Cardinality(busy \cup before) >= MaxConcurrency)
          BY <4>2 DEF PumpStops
        <5>2. Cardinality(busy \cup before) \in Nat
          BY <4>4, FS_CardinalityType
        <5> QED BY <5>1, <5>2, SizeAssumption
      <4> HIDE DEF before
      <4>6. /\ IsFiniteSet((busy \cup before) \cup {q[n]})
            /\ Cardinality((busy \cup before) \cup {q[n]}) <= Cardinality(busy \cup before) + 1
        <5>1. IsFiniteSet((busy \cup before) \cup {q[n]})
              /\ Cardinality((busy \cup before) \cup {q[n]}) =
                   IF q[n] \in busy \cup before THEN Cardinality(busy \cup before)
                   ELSE Cardinality(busy \cup before) + 1
          BY <4>4, FS_AddElement
        <5>2. Cardinality(busy \cup before) \in Nat
          BY <4>4, FS_CardinalityType
        <5> QED BY <5>1, <5>2
      <4>7. running' \subseteq (busy \cup before) \cup {q[n]}
        BY <2>1, <4>3 DEF S
      <4>8. Cardinality(running') <= Cardinality((busy \cup before) \cup {q[n]})
        BY <4>6, <4>7, FS_Subset
      <4>9. Cardinality(running') \in Nat /\ Cardinality(busy \cup before) \in Nat
            /\ Cardinality((busy \cup before) \cup {q[n]}) \in Nat
        BY <4>4, <4>6, <4>7, FS_Subset, FS_CardinalityType
      <4> QED BY <4>5, <4>6, <4>8, <4>9, SizeAssumption
    <3> QED BY <3>2, <3>3
  <2>17. running' \in SUBSET TaskIds
    BY <2>1, <2>4 DEF S
  <2> QED BY <2>6, <2>8, <2>9, <2>10, <2>11, <2>12, <2>13, <2>14, <2>15, <2>16, <2>17 DEF Good
<1> QED BY <1>1, <1>2

(* One task changes, and the queue may grow. *)
LEMMA TaskMoves ==
  ASSUME NEW ts, NEW q, NEW rs, NEW last \in Nat, Good(ts, q, rs, last),
         NEW t \in TaskIds, t <= last, NEW new \in Tasks, NEW more \in Seq(TaskIds),
         \A i \in DOMAIN q : i \in DOMAIN more /\ more[i] = q[i],
         new.parent = ts[t].parent, new.retries >= ts[t].retries,
         ts[t].status # "absent" => new.status # "absent",
         new.status = "failed" /\ ts[t].escalated => new.escalated,
         new.status = "running" => ts[t].status = "running",
         new.status = "queued" => ts[t].status = "queued" \/ \E i \in DOMAIN more : more[i] = t,
         new.status = "failed" =>
           ts[t].status = "failed" \/ (new.escalated /\ new.retries > MaxRetries)
  PROVE  Good([ts EXCEPT ![t] = new], more, rs, last)
<1> DEFINE after == [ts EXCEPT ![t] = new]
<1>1. ts \in Stores /\ after \in Stores
  BY DEF Good, Stores
<1>2. after[t] = new /\ \A id \in TaskIds \ {t} : after[id] = ts[id]
  BY <1>1 DEF Stores
<1> HIDE DEF after
<1>3. Scheduled(after, more)
  <2> SUFFICES ASSUME NEW id \in TaskIds, after[id].status = "queued"
               PROVE  \E i \in DOMAIN more : more[i] = id
    BY DEF Scheduled
  <2>1. CASE ts[id].status = "queued"
    <3>1. PICK i \in DOMAIN q : q[i] = id
      BY <2>1 DEF Good, Scheduled
    <3> QED BY <3>1
  <2>2. CASE ts[id].status # "queued"
    BY <1>2, <2>2
  <2> QED BY <2>1, <2>2
<1>4. Worked(after, rs)
  BY <1>2 DEF Good, Worked
<1>5. Escalated(after)
  <2>1. \A id \in TaskIds : ts[id].retries \in Nat
    BY <1>1 DEF Stores, Tasks
  <2>2. \A id \in TaskIds :
           /\ after[id].parent = ts[id].parent
           /\ ts[id].status # "absent" => after[id].status # "absent"
           /\ after[id].retries >= ts[id].retries
           /\ after[id].status = "failed" /\ ts[id].escalated => after[id].escalated
           /\ after[id].status = "failed" =>
                ts[id].status = "failed" \/ (after[id].escalated /\ after[id].retries > MaxRetries)
    <3> TAKE id \in TaskIds
    <3>1. CASE id = t
      BY <1>2, <3>1
    <3>2. CASE id # t
      BY <1>2, <2>1, <3>2
    <3> QED BY <3>1, <3>2
  <2>3. Escalated(ts)
    BY DEF Good
  <2> QED BY <1>1, <2>2, <2>3, EscalatedStep
<1>6. Unused(after, last)
  <2>1. ASSUME NEW id \in TaskIds, id > last PROVE id # t
    BY <2>1, SizeAssumption DEF TaskIds
  <2>2. \A id \in TaskIds : id > last => ts[id].status = "absent"
    BY DEF Good, Unused
  <2> QED BY <1>2, <2>1, <2>2 DEF Unused
<1> QED BY <1>1, <1>3, <1>4, <1>5, <1>6 DEF Good, after

(* One execution moves on: it may leave its turn only if its task is not "running" any more. *)
LEMMA RunMoves ==
  ASSUME NEW ts, NEW q, NEW rs, NEW last \in Nat, Good(ts, q, rs, last),
         NEW r \in RunIds, NEW run \in Runs, rs[r].at # "none",
         \/ run.at \in Working
         \/ rs[r].at \notin Working
         \/ ts[Task(r)].status # "running"
  PROVE  Good(ts, q, [rs EXCEPT ![r] = run], last)
<1> DEFINE after == [rs EXCEPT ![r] = run]
<1>1. rs \in [RunIds -> Runs] /\ after \in [RunIds -> Runs]
  BY DEF Good
<1>2. after[r] = run /\ \A s \in RunIds \ {r} : after[s] = rs[s]
  BY <1>1
<1> HIDE DEF after
<1>3. Worked(ts, after)
  <2> SUFFICES ASSUME NEW id \in TaskIds, ts[id].status = "running"
               PROVE  \E c \in Copies : after[<<id, c>>].at \in Working
    BY DEF Worked
  <2>1. PICK c \in Copies : rs[<<id, c>>].at \in Working
    BY DEF Good, Worked
  <2>2. <<id, c>> \in RunIds
    BY DEF RunIds
  <2>3. CASE <<id, c>> = r
    <3>1. Task(r) = id
      BY <2>3 DEF Task
    <3>2. run.at \in Working
      BY <2>1, <2>3, <3>1
    <3> QED BY <1>2, <2>3, <3>2
  <2>4. CASE <<id, c>> # r
    BY <1>2, <2>1, <2>2, <2>4
  <2> QED BY <2>3, <2>4
<1>4. RunsUsed(after, last)
  BY <1>2 DEF Good, RunsUsed
<1> QED BY <1>1, <1>3, <1>4 DEF Good, after

------------------------------------------------------------------------------
(* Lemmas about the error path, for any table the handler passes on. *)

LEMMA FailureCounted ==
  ASSUME TypeOK, NEW ts, Good(ts, queue, runs, used), NEW r \in RunIds, runs[r].at # "none",
         CountFailure(r, ts)
  PROVE  Good(tasks', queue', runs', used)
<1> DEFINE id == Task(r)
           failures == ts[id].retries + 1
           legal == CanMove(ts[id].status, "failed")
<1>1. /\ id \in TaskIds /\ ts \in Stores /\ queue \in Seq(TaskIds) /\ used \in Nat
      /\ runs \in [RunIds -> Runs] /\ runs[r] \in Runs /\ id <= used
  BY DEF TypeOK, Good, RunsUsed, RunIds, Task, Runs
<1>2. ts[id] \in Tasks /\ failures \in Nat /\ failures >= ts[id].retries
  BY <1>1 DEF Stores, Tasks
<1> HIDE DEF id
<1>3. CASE ~Spent(failures)
  <2> DEFINE new == [ts[id] EXCEPT !.retries = failures, !.status = "queued"]
             run == [runs[r] EXCEPT !.at = "failing"]
  <2>1. /\ tasks' = [ts EXCEPT ![id].retries = failures, ![id].status = "queued"]
        /\ queue' = Append(queue, id)
        /\ runs' = [runs EXCEPT ![r].at = "failing"]
    BY <1>3 DEF CountFailure, Goes, id
  <2>2. tasks' = [ts EXCEPT ![id] = new] /\ runs' = [runs EXCEPT ![r] = run]
    BY <1>1, <2>1 DEF Stores
  <2>3. /\ new \in Tasks /\ new.status = "queued" /\ new.retries = failures
        /\ new.parent = ts[id].parent /\ new.escalated = ts[id].escalated
    BY <1>2 DEF Tasks, Statuses
  <2>4. run \in Runs
    BY <1>1 DEF Runs, Places
  <2> HIDE DEF new, run
  <2>5. Good(tasks', queue', runs, used)
    <3>1. /\ queue' \in Seq(TaskIds) /\ \E i \in DOMAIN queue' : queue'[i] = id
          /\ \A i \in DOMAIN queue : i \in DOMAIN queue' /\ queue'[i] = queue[i]
      BY <1>1, <2>1, Appended
    <3> QED BY <1>1, <1>2, <2>2, <2>3, <3>1, TaskMoves
  <2>6. tasks'[id].status # "running"
    BY <1>1, <2>2, <2>3 DEF Stores
  <2> QED BY <1>1, <2>2, <2>4, <2>5, <2>6, RunMoves DEF id
<1>4. CASE Spent(failures)
  <2> DEFINE status == IF legal THEN "failed" ELSE ts[id].status
             new == [ts[id] EXCEPT !.retries = failures, !.escalated = TRUE, !.status = status]
             place == IF legal THEN "failing" ELSE "cleaning"
             run == [runs[r] EXCEPT !.at = place, !.rejected = ~legal]
  <2>1. /\ tasks' = [ts EXCEPT ![id].retries = failures, ![id].escalated = TRUE,
                               ![id].status = IF legal THEN "failed" ELSE @]
        /\ queue' = queue
        /\ runs' = [runs EXCEPT ![r].at = IF legal THEN "failing" ELSE "cleaning",
                                ![r].rejected = ~legal]
    BY <1>4 DEF CountFailure, id
  <2>2. status \in Statuses /\ status # "running" /\ (ts[id].status # "absent" => status # "absent")
        /\ (status = "queued" => ts[id].status = "queued")
    <3>1. ts[id].status \in Statuses
      BY <1>2 DEF Tasks
    <3> QED BY <3>1 DEF CanMove, AllowedTransitions, Statuses
  <2>3. place \in {"failing", "cleaning"}
    OBVIOUS
  <2>4. tasks' = [ts EXCEPT ![id] = new]
    BY <1>1, <2>1 DEF Stores
  <2>5. runs' = [runs EXCEPT ![r] = run]
    BY <1>1, <2>1
  <2> HIDE DEF status, place, legal
  <2>6. /\ new \in Tasks /\ new.status = status /\ new.retries = failures
        /\ new.parent = ts[id].parent /\ new.escalated
    BY <1>2, <2>2 DEF Tasks
  <2>7. run \in Runs
    <3>1. (~legal) \in BOOLEAN
      OBVIOUS
    <3>2. ASSUME NEW rejected \in BOOLEAN
          PROVE  [runs[r] EXCEPT !.at = place, !.rejected = rejected] \in Runs
      BY <1>1, <2>3 DEF Runs, Places
    <3> QED BY <3>1, <3>2, Zenon
  <2> HIDE DEF new, run
  <2>8. Good(tasks', queue', runs, used)
    <3>1. failures > MaxRetries
      BY <1>4 DEF Spent
    <3>2. Good([ts EXCEPT ![id] = new], queue, runs, used)
      BY <1>1, <1>2, <2>2, <2>6, <3>1, TaskMoves
    <3> QED BY <2>1, <2>4, <3>2
  <2>9. tasks'[id].status # "running"
    BY <1>1, <2>2, <2>4, <2>6 DEF Stores
  <2> QED BY <1>1, <2>5, <2>7, <2>8, <2>9, RunMoves DEF id
<1> QED BY <1>3, <1>4

LEMMA Caught ==
  ASSUME TypeOK, NEW ts, Good(ts, queue, runs, used), NEW r \in RunIds, runs[r].at # "none",
         Catch(r, ts)
  PROVE  Good(tasks', queue', runs', used)
<1> DEFINE id == Task(r)
<1>1. CASE /\ runs[r].worktree /\ ts[id].repairs < MaxRepairs /\ ~ts[id].cancel
           /\ tasks' = [ts EXCEPT ![id].repairs = @ + 1]
           /\ UNCHANGED queue
           /\ Goes(r, "repairing")
  <2> DEFINE new == [ts[id] EXCEPT !.repairs = @ + 1]
             run == [runs[r] EXCEPT !.at = "repairing"]
  <2>1. /\ id \in TaskIds /\ ts \in Stores /\ queue \in Seq(TaskIds) /\ used \in Nat
        /\ runs \in [RunIds -> Runs] /\ runs[r] \in Runs /\ id <= used
    BY DEF TypeOK, Good, RunsUsed, RunIds, Task, Runs
  <2> HIDE DEF id
  <2>2. tasks' = [ts EXCEPT ![id] = new] /\ runs' = [runs EXCEPT ![r] = run]
    BY <1>1, <2>1 DEF Stores, Goes
  <2>3. ts[id] \in Tasks /\ ts[id].repairs + 1 \in 0..MaxRepairs
    BY <1>1, <2>1, BudgetAssumption DEF Stores, Tasks
  <2>4. /\ new \in Tasks /\ new.status = ts[id].status /\ new.retries = ts[id].retries
        /\ new.parent = ts[id].parent /\ new.escalated = ts[id].escalated
    BY <2>3 DEF Tasks
  <2>5. new.retries >= ts[id].retries
    BY <2>3, <2>4 DEF Tasks
  <2>6. run \in Runs /\ run.at \in Working
    BY <2>1 DEF Runs, Places, Working
  <2> HIDE DEF new, run
  <2>7. Good(tasks', queue', runs, used)
    <3>1. new.status = "failed" => ts[id].status = "failed"
      BY <2>4
    <3>2. Good([ts EXCEPT ![id] = new], queue, runs, used)
      BY <2>1, <2>4, <2>5, <3>1, TaskMoves
    <3> QED BY <1>1, <2>2, <3>2
  <2> QED BY <2>1, <2>2, <2>6, <2>7, RunMoves
<1>2. CASE CountFailure(r, ts)
  BY <1>2, FailureCounted
<1> QED BY <1>1, <1>2 DEF Catch

LEMMA Decided ==
  ASSUME TypeOK, NEW ts, Good(ts, queue, runs, used), NEW r \in RunIds, runs[r].at # "none",
         NEW status \in {"done", "blocked", "cancelled"}, NEW place \in Places,
         Outcome(r, ts, status, place)
  PROVE  Good(tasks', queue', runs', used)
<1> DEFINE id == Task(r)
<1>1. CASE CanMove(ts[id].status, status)
  <2> DEFINE new == [ts[id] EXCEPT !.status = status]
             run == [runs[r] EXCEPT !.at = place]
  <2>1. /\ id \in TaskIds /\ ts \in Stores /\ queue \in Seq(TaskIds) /\ used \in Nat
        /\ runs \in [RunIds -> Runs] /\ runs[r] \in Runs /\ id <= used
    BY DEF TypeOK, Good, RunsUsed, RunIds, Task, Runs
  <2>2. /\ tasks' = [ts EXCEPT ![id].status = status] /\ queue' = queue
        /\ runs' = [runs EXCEPT ![r].at = place]
    BY <1>1 DEF Outcome, Goes
  <2> HIDE DEF id
  <2>3. tasks' = [ts EXCEPT ![id] = new] /\ runs' = [runs EXCEPT ![r] = run]
    BY <2>1, <2>2 DEF Stores
  <2>4. ts[id] \in Tasks
    BY <2>1 DEF Stores
  <2>5. /\ new \in Tasks /\ new.status = status /\ new.retries = ts[id].retries
        /\ new.parent = ts[id].parent /\ new.escalated = ts[id].escalated
        /\ new.retries >= ts[id].retries
    BY <2>4 DEF Tasks, Statuses
  <2>6. run \in Runs
    BY <2>1 DEF Runs
  <2> HIDE DEF new, run
  <2>7. Good([ts EXCEPT ![id] = new], queue, runs, used)
    BY <2>1, <2>5, TaskMoves
  <2>8. Good(tasks', queue', runs, used)
    BY <2>2, <2>3, <2>7
  <2>9. tasks'[id].status # "running"
    BY <2>1, <2>3, <2>5 DEF Stores
  <2> QED BY <2>1, <2>3, <2>6, <2>8, <2>9, RunMoves DEF id
<1>2. CASE ~CanMove(ts[id].status, status)
  BY <1>2, Caught DEF Outcome
<1> QED BY <1>1, <1>2

(* What is left to show of a step of an execution once Good is shown. *)
LEMMA Framed ==
  ASSUME IInv, NEW r \in RunIds, runs[r].at # "none",
         Good(tasks', queue', runs', used),
         UNCHANGED runFrame, worktrees' \in SUBSET TaskIds, flushing' \in BOOLEAN,
         disk' = disk \/ disk' = tasks, faults' \in Nat
  PROVE  IInv'
<1>1. process # "down"
  BY DEF IInv, DownIsEmpty, NoRun
<1>2. disk' \in Stores /\ Escalated(disk') /\ Unused(disk', used)
  BY DEF IInv, TypeOK, DiskGood, Good
<1>3. TypeOK'
  <2>1. tasks' \in Stores /\ queue' \in Seq(TaskIds) /\ runs' \in [RunIds -> Runs]
    BY DEF Good
  <2> QED BY <1>2, <2>1 DEF IInv, TypeOK, runFrame
<1>4. DownIsEmpty'
  BY <1>1 DEF DownIsEmpty, runFrame
<1>5. DiskGood' /\ Good(tasks, queue, runs, used)'
  BY <1>2 DEF DiskGood, runFrame
<1> QED BY <1>3, <1>4, <1>5 DEF IInv

(* An execution that only waits for something else, in or out of its turn. *)
LEMMA Waits ==
  ASSUME TypeOK, Good(tasks, queue, runs, used), NEW r \in RunIds, runs[r].at # "none",
         NEW run \in Runs, run.at \in Working \/ runs[r].at \notin Working,
         runs' = [runs EXCEPT ![r] = run], UNCHANGED <<tasks, queue>>
  PROVE  Good(tasks', queue', runs', used)
<1>1. used \in Nat
  BY DEF TypeOK
<1>2. Good(tasks, queue, [runs EXCEPT ![r] = run], used)
  BY <1>1, RunMoves
<1> QED BY <1>2

LEMMA Moves ==
  ASSUME TypeOK, Good(tasks, queue, runs, used), NEW r \in RunIds, runs[r].at # "none",
         NEW place \in Places, place \in Working \/ runs[r].at \notin Working,
         Goes(r, place), UNCHANGED <<tasks, queue>>
  PROVE  Good(tasks', queue', runs', used)
<1> DEFINE run == [runs[r] EXCEPT !.at = place]
<1>1. runs \in [RunIds -> Runs]
  BY DEF TypeOK
<1>2. run \in Runs /\ run.at = place
  BY <1>1 DEF Runs
<1>3. runs' = [runs EXCEPT ![r] = run]
  BY <1>1 DEF Goes
<1> HIDE DEF run
<1> QED BY <1>2, <1>3, Waits

LEMMA ParentFollows ==
  ASSUME TypeOK, Good(tasks, queue, runs, used), NEW r \in RunIds,
         runs[r].at \in {"settling", "requeuing", "failing"}, FollowedByParent(r)
  PROVE  Good(tasks', queue', runs', used) /\ flushing' \in BOOLEAN
<1> DEFINE run == [runs[r] EXCEPT !.at = "cleaning"]
<1>1. Task(r) \in TaskIds /\ runs \in [RunIds -> Runs] /\ used \in Nat
  BY DEF TypeOK, RunIds, Task
<1>2. Good(ParentUpdated(Task(r)), queue, runs, used)
  BY <1>1, ParentUpdatedGood
<1>3. run \in Runs /\ runs[r].at # "none" /\ runs[r].at \notin Working
  BY <1>1 DEF Runs, Places, Working, InTurn
<1>4. runs' = [runs EXCEPT ![r] = run] /\ tasks' = ParentUpdated(Task(r)) /\ queue' = queue
  BY <1>1 DEF FollowedByParent, Goes
<1> HIDE DEF run
<1>5. flushing' \in BOOLEAN
  BY DEF FollowedByParent
<1> QED BY <1>1, <1>2, <1>3, <1>4, <1>5, RunMoves

------------------------------------------------------------------------------
(* One lemma per group of actions. *)

LEMMA TurnSteps ==
  ASSUME IInv, NEW r \in RunIds,
         \/ Begin(r) \/ BeginFails(r) \/ LaunchWorker(r) \/ LaunchFails(r)
         \/ TurnEnds(r) \/ Complete(r) \/ (\E escalate \in BOOLEAN : Block(r, escalate))
         \/ Record(r) \/ WorkFails(r)
  PROVE  IInv'
<1>0. TypeOK /\ Good(tasks, queue, runs, used) /\ runs[r] \in Runs /\ Task(r) \in TaskIds
      /\ flushing \in BOOLEAN /\ faults \in Nat /\ worktrees \in SUBSET TaskIds
      /\ (faults + 1) \in Nat /\ runs \in [RunIds -> Runs]
  BY DEF IInv, TypeOK, RunIds, Task
<1>1. CASE Begin(r)
  <2>1. Good(tasks', queue', runs', used)
    <3>1. "launching" \in Places /\ "launching" \in Working
      BY DEF Places, InTurn, Working
    <3> QED BY <1>0, <1>1, <3>1, Moves DEF Begin
  <2> QED BY <1>0, <1>1, <2>1, Framed DEF Begin, Saved
<1>2. CASE BeginFails(r)
  <2>1. Good(tasks', queue', runs', used)
    BY <1>0, <1>2, Caught DEF BeginFails
  <2> QED BY <1>0, <1>2, <2>1, Framed DEF BeginFails, SaveFault
<1>3. CASE LaunchWorker(r)
  <2> DEFINE run == [runs[r] EXCEPT !.at = "working", !.worktree = TRUE]
  <2>1. runs' = [runs EXCEPT ![r] = run]
    BY <1>0, <1>3 DEF LaunchWorker
  <2>2. run \in Runs /\ run.at = "working"
    BY <1>0 DEF Runs, Places, InTurn
  <2> HIDE DEF run
  <2>3. Good(tasks', queue', runs', used)
    BY <1>0, <1>3, <2>1, <2>2, Waits DEF LaunchWorker, InTurn, Working
  <2>4. worktrees' \in SUBSET TaskIds
    BY <1>0, <1>3 DEF LaunchWorker
  <2> QED BY <1>0, <1>3, <2>3, <2>4, Framed DEF LaunchWorker, Saved
<1>4. CASE LaunchFails(r)
  <2>1. Good(tasks', queue', runs', used)
    BY <1>0, <1>4, Caught DEF LaunchFails
  <2>2. worktrees' \in SUBSET TaskIds
    BY <1>0, <1>4 DEF LaunchFails
  <2> QED BY <1>0, <1>4, <2>1, <2>2, Framed DEF LaunchFails, fileFrame
<1>5. CASE TurnEnds(r)
  <2>1. CASE tasks[Task(r)].cancel
    <3>1. Good(tasks', queue', runs', used)
      BY <1>0, <1>5, <2>1, Decided DEF TurnEnds, Places
    <3> QED BY <1>0, <1>5, <3>1, Framed DEF TurnEnds, fileFrame
  <2>2. CASE ~tasks[Task(r)].cancel
    <3>1. "closing" \in Places /\ "closing" \in Working
      BY DEF Places, InTurn, Working
    <3>2. Good(tasks', queue', runs', used)
      BY <1>0, <1>5, <2>2, <3>1, Moves DEF TurnEnds
    <3> QED BY <1>0, <1>5, <3>2, Framed DEF TurnEnds, fileFrame
  <2> QED BY <2>1, <2>2
<1>6. CASE Complete(r)
  <2>1. Good(tasks', queue', runs', used)
    BY <1>0, <1>6, Decided DEF Complete, Places
  <2> QED BY <1>0, <1>6, <2>1, Framed DEF Complete, fileFrame
<1>7. ASSUME NEW escalate \in BOOLEAN, Block(r, escalate) PROVE IInv'
  <2> DEFINE id == Task(r)
  <2>1. tasks \in Stores /\ id <= used /\ used \in Nat
    BY <1>0, <1>7 DEF Good, RunsUsed, TypeOK, Block
  <2>2. PICK flag \in BOOLEAN : flag = (tasks[id].escalated \/ escalate)
    OBVIOUS
  <2> DEFINE new == [tasks[id] EXCEPT !.escalated = flag]
             ts == [tasks EXCEPT ![id] = new]
  <2> HIDE DEF id
  <2>3. [tasks EXCEPT ![id].escalated = @ \/ escalate] = ts
    BY <1>0, <2>1, <2>2, Zenon DEF Stores, id
  <2>4. tasks[id] \in Tasks
    BY <1>0, <2>1 DEF Stores, id
  <2>5. /\ new \in Tasks /\ new.status = tasks[id].status /\ new.retries = tasks[id].retries
        /\ new.parent = tasks[id].parent /\ new.escalated = flag
        /\ new.retries >= tasks[id].retries
    BY <2>4 DEF Tasks
  <2>6. tasks[id].escalated => new.escalated
    BY <2>2, <2>5
  <2> HIDE DEF new
  <2>7. Good(ts, queue, runs, used)
    <3>1. queue \in Seq(TaskIds)
      BY <1>0 DEF Good
    <3> QED BY <1>0, <2>1, <2>5, <2>6, <3>1, TaskMoves DEF id
  <2>8. Good(tasks', queue', runs', used)
    BY <1>0, <1>7, <2>3, <2>7, Decided DEF Block, Places, id
  <2> QED BY <1>0, <1>7, <2>8, Framed DEF Block, fileFrame
<1>8. CASE Record(r)
  <2>1. Good(tasks', queue', runs', used)
    <3>1. "settling" \in Places /\ "recording" \notin Working
      BY DEF Places, InTurn, Working
    <3> QED BY <1>0, <1>8, <3>1, Moves DEF Record
  <2> QED BY <1>0, <1>8, <2>1, Framed DEF Record, fileFrame
<1>9. CASE WorkFails(r)
  <2>1. Good(tasks', queue', runs', used)
    BY <1>0, <1>9, Caught DEF WorkFails
  <2> QED BY <1>0, <1>9, <2>1, Framed DEF WorkFails, fileFrame
<1> QED BY <1>1, <1>2, <1>3, <1>4, <1>5, <1>6, <1>7, <1>8, <1>9

LEMMA EndSteps ==
  ASSUME IInv, NEW r \in RunIds,
         \/ Settle(r) \/ SettleFails(r) \/ Repaired(r) \/ NotRepaired(r)
         \/ Requeue(r) \/ RequeueFails(r) \/ Fail(r) \/ FailFails(r) \/ CleanUp(r)
  PROVE  IInv'
<1>0. TypeOK /\ Good(tasks, queue, runs, used) /\ runs[r] \in Runs /\ Task(r) \in TaskIds
      /\ flushing \in BOOLEAN /\ faults \in Nat /\ worktrees \in SUBSET TaskIds
      /\ (faults + 1) \in Nat /\ runs \in [RunIds -> Runs]
  BY DEF IInv, TypeOK, RunIds, Task
<1>b. Good(ParentUpdated(Task(r)), queue, runs, used)
  BY <1>0, ParentUpdatedGood
<1>1. CASE Settle(r)
  <2>1. Good(tasks', queue', runs', used) /\ flushing' \in BOOLEAN
    <3>1. CASE ParentRefuses(Task(r))
      BY <1>0, <1>1, <1>b, <3>1, Caught DEF Settle
    <3>2. CASE ~ParentRefuses(Task(r))
      BY <1>0, <1>1, <3>2, ParentFollows DEF Settle
    <3> QED BY <3>1, <3>2
  <2> QED BY <1>0, <1>1, <2>1, Framed DEF Settle, Saved
<1>2. CASE SettleFails(r)
  <2>1. Good(tasks', queue', runs', used)
    BY <1>0, <1>2, Caught DEF SettleFails
  <2> QED BY <1>0, <1>2, <2>1, Framed DEF SettleFails, SaveFault
<1>3. CASE Repaired(r)
  <2> DEFINE id == Task(r)
             new == [tasks[id] EXCEPT !.status = "queued"]
             run == [runs[r] EXCEPT !.at = "requeuing"]
  <2>1. tasks \in Stores /\ id <= used /\ used \in Nat /\ id \in TaskIds /\ queue \in Seq(TaskIds)
    BY <1>0, <1>3 DEF Good, RunsUsed, TypeOK, Repaired
  <2>2. /\ tasks' = [tasks EXCEPT ![id].status = "queued"] /\ queue' = Append(queue, id)
        /\ runs' = [runs EXCEPT ![r].at = "requeuing"] /\ runs[r].at # "none"
    BY <1>3 DEF Repaired, Goes
  <2> HIDE DEF id
  <2>3. tasks' = [tasks EXCEPT ![id] = new] /\ runs' = [runs EXCEPT ![r] = run]
    BY <1>0, <2>1, <2>2 DEF Stores
  <2>4. tasks[id] \in Tasks
    BY <2>1 DEF Stores
  <2>5. /\ new \in Tasks /\ new.status = "queued" /\ new.retries = tasks[id].retries
        /\ new.parent = tasks[id].parent /\ new.escalated = tasks[id].escalated
        /\ new.retries >= tasks[id].retries
    BY <2>4 DEF Tasks, Statuses
  <2>6. run \in Runs
    BY <1>0 DEF Runs, Places
  <2> HIDE DEF new, run
  <2>7. Good([tasks EXCEPT ![id] = new], queue', runs, used)
    <3>1. /\ queue' \in Seq(TaskIds) /\ \E i \in DOMAIN queue' : queue'[i] = id
          /\ \A i \in DOMAIN queue : i \in DOMAIN queue' /\ queue'[i] = queue[i]
      BY <2>1, <2>2, Appended
    <3> QED BY <1>0, <2>1, <2>5, <3>1, TaskMoves
  <2>8. tasks'[id].status # "running"
    BY <2>1, <2>3, <2>5 DEF Stores
  <2>9. Good(tasks', queue', runs', used)
    <3>1. Good(tasks', queue', runs, used) /\ tasks'[Task(r)].status # "running"
      BY <2>3, <2>7, <2>8 DEF id
    <3>2. Good(tasks', queue', [runs EXCEPT ![r] = run], used)
      BY <2>1, <2>2, <2>6, <3>1, RunMoves
    <3> QED BY <2>3, <3>2
  <2> QED BY <1>0, <1>3, <2>2, <2>9, Framed DEF Repaired, fileFrame
<1>4. CASE NotRepaired(r)
  <2>1. Good(tasks', queue', runs', used)
    BY <1>0, <1>4, FailureCounted DEF NotRepaired
  <2> QED BY <1>0, <1>4, <2>1, Framed DEF NotRepaired, fileFrame
<1>5. CASE Requeue(r)
  <2>1. Good(tasks', queue', runs', used) /\ flushing' \in BOOLEAN
    <3>1. CASE ParentRefuses(Task(r))
      BY <1>0, <1>5, <1>b, <3>1, FailureCounted DEF Requeue
    <3>2. CASE ~ParentRefuses(Task(r))
      BY <1>0, <1>5, <3>2, ParentFollows DEF Requeue
    <3> QED BY <3>1, <3>2
  <2> QED BY <1>0, <1>5, <2>1, Framed DEF Requeue, Saved
<1>6. CASE RequeueFails(r)
  <2>1. Good(tasks', queue', runs', used)
    BY <1>0, <1>6, FailureCounted DEF RequeueFails
  <2> QED BY <1>0, <1>6, <2>1, Framed DEF RequeueFails, SaveFault
<1>7. CASE Fail(r)
  <2>1. Good(tasks', queue', runs', used) /\ flushing' \in BOOLEAN
    <3>1. CASE ParentRefuses(Task(r))
      <4> DEFINE run == [runs[r] EXCEPT !.at = "cleaning", !.rejected = TRUE]
      <4>1. run \in Runs
        BY <1>0 DEF Runs, Places
      <4>5. used \in Nat
        BY <1>0 DEF TypeOK
      <4>2. runs' = [runs EXCEPT ![r] = run]
        BY <1>0, <1>7, <3>1 DEF Fail, Rejects
      <4>3. runs[r].at # "none" /\ runs[r].at \notin Working
        BY <1>7 DEF Fail, Working, InTurn
      <4>4. tasks' = ParentUpdated(Task(r)) /\ queue' = queue /\ flushing' = flushing
        BY <1>7, <3>1 DEF Fail
      <4> HIDE DEF run
      <4> QED BY <1>0, <1>b, <4>1, <4>2, <4>3, <4>4, <4>5, RunMoves
    <3>2. CASE ~ParentRefuses(Task(r))
      BY <1>0, <1>7, <3>2, ParentFollows DEF Fail
    <3> QED BY <3>1, <3>2
  <2> QED BY <1>0, <1>7, <2>1, Framed DEF Fail, Saved
<1>8. CASE FailFails(r)
  <2> DEFINE run == [runs[r] EXCEPT !.at = "cleaning", !.rejected = TRUE]
  <2>1. run \in Runs
    BY <1>0 DEF Runs, Places
  <2>2. runs' = [runs EXCEPT ![r] = run]
    BY <1>0, <1>8 DEF FailFails, Rejects
  <2> HIDE DEF run
  <2>3. Good(tasks', queue', runs', used)
    BY <1>0, <1>8, <2>1, <2>2, Waits DEF FailFails, InTurn, Working
  <2> QED BY <1>0, <1>8, <2>3, Framed DEF FailFails, SaveFault
<1>9. CASE CleanUp(r)
  <2>1. Good(tasks', queue', runs', used)
    <3>1. "removing" \in Places /\ "cleaning" \notin Working
      BY DEF Places, InTurn, Working
    <3> QED BY <1>0, <1>9, <3>1, Moves DEF CleanUp
  <2> QED BY <1>0, <1>9, <2>1, Framed DEF CleanUp, fileFrame
<1> QED BY <1>1, <1>2, <1>3, <1>4, <1>5, <1>6, <1>7, <1>8, <1>9

(* What is left to show of a step of a live process once Good is shown. *)
LEMMA Kept ==
  ASSUME IInv, process # "down", Good(tasks', queue', runs', used'),
         process' \in {"up", "stopping"}, running' \in SUBSET TaskIds,
         Cardinality(running') <= MaxConcurrency, starts' \in [TaskIds -> Nat],
         worktrees' \in SUBSET TaskIds, sweep' \in TaskIds \cup {0},
         calls' \in SUBSET Calls, flushing' \in BOOLEAN, disk' = disk \/ disk' = tasks,
         used' \in 0..MaxTasks, used' >= used,
         requests' \in Nat, faults' \in Nat, crashes' \in Nat
  PROVE  IInv'
<1>1. disk' \in Stores /\ Escalated(disk') /\ Unused(disk', used)
  BY DEF IInv, TypeOK, DiskGood, Good
<1>2. Unused(disk', used')
  <2>1. \A id \in TaskIds : id > used' => id > used
    BY SizeAssumption DEF IInv, TypeOK, TaskIds
  <2> QED BY <1>1, <2>1 DEF Unused
<1>3. TypeOK'
  <2>1. tasks' \in Stores /\ queue' \in Seq(TaskIds) /\ runs' \in [RunIds -> Runs]
    BY DEF Good
  <2> QED BY <1>1, <2>1 DEF TypeOK
<1>4. DownIsEmpty'
  BY DEF DownIsEmpty
<1>5. DiskGood' /\ Good(tasks, queue, runs, used)'
  BY <1>1, <1>2 DEF DiskGood
<1> QED BY <1>3, <1>4, <1>5 DEF IInv

(* The end of the process: memory is empty, and the file is what it was. *)
LEMMA ProcessEndsGood ==
  ASSUME IInv, ProcessEnds, worktrees' \in SUBSET TaskIds, disk' = disk \/ disk' = tasks,
         faults' \in Nat
  PROVE  IInv'
<1>1. EmptyStore \in Stores /\ \A id \in TaskIds : EmptyStore[id].status = "absent"
  BY BudgetAssumption DEF EmptyStore, NewTask, Stores, Tasks, Statuses
<1>2. NoRun \in Runs /\ NoRun.at = "none"
  BY DEF NoRun, Runs
<1>3. disk' \in Stores /\ Escalated(disk') /\ Unused(disk', used)
  BY DEF IInv, TypeOK, DiskGood, Good
<1>4. /\ tasks' = EmptyStore /\ queue' = <<>> /\ running' = {} /\ process' = "down"
      /\ runs' = [r \in RunIds |-> NoRun] /\ sweep' = 0 /\ calls' = {} /\ flushing' = FALSE
      /\ crashes' = crashes + 1 /\ used' = used /\ starts' = starts /\ requests' = requests
  BY DEF ProcessEnds
<1>5. Good(tasks', queue', runs', used)
  <2>1. \A r \in RunIds : runs'[r] = NoRun
    BY <1>4
  <2>2. <<>> \in Seq(TaskIds)
    OBVIOUS
  <2>3. runs' \in [RunIds -> Runs]
    BY <1>2, <1>4
  <2> QED BY <1>1, <1>2, <1>4, <2>1, <2>2, <2>3
         DEF Good, Scheduled, Worked, Escalated, Unused, RunsUsed
<1>6. Cardinality(running') <= MaxConcurrency
  <2>1. Cardinality({}) = 0
    BY FS_EmptySet
  <2> QED BY <1>4, <2>1, SizeAssumption
<1>7. TypeOK'
  <2>1. tasks' \in Stores /\ queue' \in Seq(TaskIds) /\ runs' \in [RunIds -> Runs]
    BY <1>5 DEF Good
  <2>2. /\ starts \in [TaskIds -> Nat] /\ used \in 0..MaxTasks /\ requests \in Nat
        /\ crashes + 1 \in Nat
    BY DEF IInv, TypeOK
  <2>3. flushing' \in BOOLEAN
    BY <1>4
  <2>4. running' \in SUBSET TaskIds /\ calls' \in SUBSET Calls /\ sweep' \in TaskIds \cup {0}
    BY <1>4
  <2>5. process' \in {"down", "up", "stopping"}
    BY <1>4
  <2>6. starts' \in [TaskIds -> Nat] /\ used' \in 0..MaxTasks /\ requests' \in Nat /\ crashes' \in Nat
    BY <1>4, <2>2
  <2> QED BY <1>3, <1>6, <2>1, <2>3, <2>4, <2>5, <2>6 DEF TypeOK
<1>8. DownIsEmpty' /\ DiskGood' /\ Good(tasks, queue, runs, used)'
  BY <1>3, <1>4, <1>5 DEF DownIsEmpty, DiskGood
<1> QED BY <1>7, <1>8 DEF IInv

LEMMA LastSteps ==
  ASSUME IInv, NEW r \in RunIds, RunEnds(r) \/ RunRejects(r)
  PROVE  IInv'
<1>0. TypeOK /\ Good(tasks, queue, runs, used)
  BY DEF IInv
<1>1. CASE RunEnds(r)
  <2>1. /\ runs[r].at \notin Working /\ runs[r].at # "none"
        /\ worktrees' \in SUBSET TaskIds /\ (disk' = disk \/ disk' = tasks) /\ faults' = faults
    BY <1>0, <1>1 DEF TypeOK, RunEnds, LastStep, Working, InTurn, Saved
  <2>2. process # "down" /\ process \in {"up", "stopping", "down"}
    BY <1>0, <2>1 DEF IInv, DownIsEmpty, NoRun, TypeOK
  <2>3. Good(tasks, queue, [runs EXCEPT ![r] = NoRun], used)
    <3>1. NoRun \in Runs /\ used \in Nat
      BY <1>0 DEF NoRun, Runs, TypeOK
    <3> QED BY <1>0, <2>1, <3>1, RunMoves
  <2> DEFINE busy == running \ {Task(r)}
  <2>4. busy \in SUBSET TaskIds /\ Cardinality(busy) <= MaxConcurrency
    <3>1. IsFiniteSet(running)
      <4>1. IsFiniteSet(TaskIds)
        BY FS_Interval, SizeAssumption DEF TaskIds
      <4> QED BY <1>0, <4>1, FS_Subset DEF TypeOK
    <3>2. busy \subseteq running
      OBVIOUS
    <3> HIDE DEF busy
    <3>3. /\ Cardinality(busy) \in Nat /\ Cardinality(running) \in Nat
          /\ Cardinality(busy) <= Cardinality(running)
      BY <3>1, <3>2, FS_Subset, FS_CardinalityType
    <3> QED BY <1>0, <3>2, <3>3, SizeAssumption DEF TypeOK
  <2>5. Pump(tasks, queue, busy, [runs EXCEPT ![r] = NoRun]) /\ used' = used
    BY <1>1 DEF RunEnds
  <2> HIDE DEF busy
  <2>6. /\ Good(tasks', queue', runs', used') /\ running' \in SUBSET TaskIds
        /\ Cardinality(running') <= MaxConcurrency /\ starts' \in [TaskIds -> Nat]
    <3>1. starts \in [TaskIds -> Nat] /\ used \in Nat
      BY <1>0 DEF TypeOK
    <3> QED BY <2>3, <2>4, <2>5, <3>1, PumpGood
  <2>7. /\ process' = process /\ sweep' = sweep /\ calls' = calls /\ flushing' = flushing
        /\ used' = used /\ requests' = requests /\ crashes' = crashes
    BY <1>1 DEF RunEnds
  <2> QED BY <1>0, <2>1, <2>2, <2>6, <2>7, Kept DEF TypeOK
<1>2. CASE RunRejects(r)
  <2>1. /\ worktrees' \in SUBSET TaskIds /\ (disk' = disk \/ disk' = tasks)
        /\ faults' \in Nat
    BY <1>0, <1>2 DEF TypeOK, RunRejects, LastStep, Saved, SaveFault
  <2> QED BY <1>2, <2>1, ProcessEndsGood DEF RunRejects
<1> QED BY <1>1, <1>2

LEMMA CallSteps ==
  ASSUME IInv, NEW call \in Calls, CallReturns(call) \/ CallFails(call)
  PROVE  IInv'
<1>0. TypeOK /\ Good(tasks, queue, runs, used)
  BY DEF IInv
<1>1. process # "down" /\ process \in {"up", "stopping"}
  BY <1>0 DEF IInv, DownIsEmpty, CallReturns, CallFails, TypeOK
<1>2. CASE CallReturns(call)
  <2>1. /\ Good(tasks', queue', runs', used') /\ running' \in SUBSET TaskIds
        /\ Cardinality(running') <= MaxConcurrency /\ starts' \in [TaskIds -> Nat]
    <3>0. /\ starts \in [TaskIds -> Nat] /\ used \in Nat /\ used' = used
          /\ running \in SUBSET TaskIds /\ Cardinality(running) <= MaxConcurrency
      BY <1>0, <1>2 DEF TypeOK, CallReturns
    <3>1. CASE call.op = "cancel"
      BY <1>0, <1>2, <3>0, <3>1 DEF CallReturns
    <3>2. CASE call.op # "cancel"
      <4>1. Pump(tasks, queue, running, runs)
        BY <1>2, <3>2 DEF CallReturns
      <4> QED BY <1>0, <3>0, <4>1, PumpGood
    <3> QED BY <3>1, <3>2
  <2>2. /\ process' = process /\ sweep' = sweep /\ flushing' = flushing /\ used' = used
        /\ worktrees' = worktrees /\ requests' = requests /\ crashes' = crashes
        /\ calls' \in SUBSET Calls /\ disk' = tasks /\ faults' = faults
    BY <1>0, <1>2 DEF CallReturns, Saved, TypeOK
  <2> QED BY <1>0, <1>1, <2>1, <2>2, Kept DEF TypeOK
<1>3. CASE CallFails(call)
  <2>1. /\ process' = process /\ sweep' = sweep /\ flushing' = flushing /\ used' = used
        /\ worktrees' = worktrees /\ requests' = requests /\ crashes' = crashes
        /\ tasks' = tasks /\ queue' = queue /\ running' = running /\ runs' = runs
        /\ starts' = starts /\ disk' = disk /\ faults' \in Nat /\ calls' \in SUBSET Calls
    BY <1>0, <1>3 DEF CallFails, SaveFault, TypeOK
  <2> QED BY <1>0, <1>1, <2>1, Kept DEF TypeOK
<1> QED BY <1>2, <1>3

LEMMA Starts ==
  ASSUME IInv, Initialize
  PROVE  IInv'
<1> DEFINE store == Recovered(disk)
<1>0. TypeOK /\ DownIsEmpty /\ DiskGood /\ process = "down" /\ disk \in Stores /\ used \in Nat
  BY DEF IInv, Initialize, TypeOK
<1>1. \A id \in TaskIds :
        /\ store[id] \in Tasks /\ store[id].parent = disk[id].parent
        /\ store[id].retries = disk[id].retries /\ store[id].escalated = disk[id].escalated
        /\ store[id].status = IF disk[id].status = "running" THEN "queued" ELSE disk[id].status
  <2> TAKE id \in TaskIds
  <2>1. disk[id] \in Tasks
    BY <1>0 DEF Stores
  <2>2. store[id] = IF disk[id].status = "running"
                    THEN [disk[id] EXCEPT !.status = "queued"] ELSE disk[id]
    BY DEF Recovered
  <2> HIDE DEF store
  <2> QED BY <2>1, <2>2 DEF Tasks, Statuses
<1>2. store = [id \in TaskIds |-> store[id]]
  BY DEF Recovered
<1>3. PICK q \in LoadedQueues(store) : Pump(store, q, {}, runs)
  BY DEF Initialize
<1> HIDE DEF store
<1>4. store \in Stores
  BY <1>1, <1>2 DEF Stores
<1>5. q \in Seq(TaskIds)
  BY DEF LoadedQueues
<1>6. Scheduled(store, q) /\ Worked(store, runs)
  BY <1>1 DEF LoadedQueues, Scheduled, Worked
<1>7. Escalated(store)
  <2>1. \A id \in TaskIds : disk[id].retries \in Nat
    BY <1>0 DEF Stores, Tasks
  <2>2. Escalated(disk)
    BY <1>0 DEF DiskGood
  <2> QED BY <1>0, <1>1, <1>4, <2>1, <2>2, EscalatedStep
<1>8. Unused(store, used)
  BY <1>0, <1>1 DEF DiskGood, Unused
<1>9. runs \in [RunIds -> Runs] /\ RunsUsed(runs, used)
  BY <1>0 DEF DownIsEmpty, NoRun, RunsUsed, TypeOK
<1>10. Good(store, q, runs, used)
  BY <1>4, <1>5, <1>6, <1>7, <1>8, <1>9 DEF Good
<1>11. /\ Good(tasks', queue', runs', used') /\ running' \in SUBSET TaskIds
       /\ Cardinality(running') <= MaxConcurrency /\ starts' \in [TaskIds -> Nat]
  <2>1. Cardinality({}) <= MaxConcurrency
    BY FS_EmptySet, SizeAssumption
  <2>2. starts \in [TaskIds -> Nat] /\ used' = used /\ {} \in SUBSET TaskIds
    BY <1>0 DEF TypeOK, Initialize
  <2> QED BY <1>0, <1>3, <1>10, <2>1, <2>2, PumpGood
<1>12. TypeOK'
  <2>1. tasks' \in Stores /\ queue' \in Seq(TaskIds) /\ runs' \in [RunIds -> Runs]
    BY <1>11 DEF Good
  <2> QED BY <1>0, <1>11, <2>1 DEF TypeOK, Initialize
<1>13. DownIsEmpty'
  BY DEF Initialize, DownIsEmpty
<1>14. DiskGood'
  BY <1>0 DEF Initialize, DiskGood
<1> QED BY <1>11, <1>12, <1>13, <1>14 DEF IInv

LEMMA ProcessSteps ==
  ASSUME IInv, Stop \/ Crash \/ Flush \/ (\E id \in TaskIds : SweepStarts(id)) \/ SweepEnds
  PROVE  IInv'
<1>0. TypeOK /\ Good(tasks, queue, runs, used) /\ DownIsEmpty
  BY DEF IInv
<1>1. CASE Stop
  BY <1>0, <1>1, Kept DEF Stop, TypeOK
<1>2. CASE Crash
  <2>1. worktrees' = worktrees /\ disk' = disk /\ faults' = faults /\ ProcessEnds
    BY <1>2 DEF Crash
  <2> QED BY <1>0, <2>1, ProcessEndsGood DEF TypeOK
<1>3. CASE Flush
  <2>1. process # "down" /\ process \in {"up", "stopping"}
    BY <1>0, <1>3 DEF Flush, DownIsEmpty, TypeOK
  <2>2. /\ process' = process /\ tasks' = tasks /\ queue' = queue /\ running' = running
        /\ runs' = runs /\ worktrees' = worktrees /\ sweep' = sweep /\ calls' = calls
        /\ flushing' \in BOOLEAN /\ disk' = tasks /\ used' = used /\ starts' = starts
        /\ requests' = requests /\ faults' = faults /\ crashes' = crashes
    BY <1>3 DEF Flush, Saved, runFrame
  <2> QED BY <1>0, <2>1, <2>2, Kept DEF TypeOK
<1>4. ASSUME NEW id \in TaskIds, SweepStarts(id) PROVE IInv'
  <2>1. process # "down" /\ process \in {"up", "stopping"}
    BY <1>0, <1>4 DEF SweepStarts, TypeOK
  <2> QED BY <1>0, <1>4, <2>1, Kept DEF SweepStarts, fileFrame, TypeOK
<1>5. CASE SweepEnds
  <2>1. process # "down" /\ process \in {"up", "stopping"}
    BY <1>0, <1>5 DEF SweepEnds, DownIsEmpty, TypeOK
  <2> QED BY <1>0, <1>5, <2>1, Kept DEF SweepEnds, TypeOK
<1> QED BY <1>1, <1>2, <1>3, <1>4, <1>5

(* A submission: ids after the last one now stand for tasks that are on the queue, or blocked. *)
LEMMA TasksAdded ==
  ASSUME TypeOK, Good(tasks, queue, runs, used),
         NEW last \in used..MaxTasks, NEW ts \in Stores, NEW q \in Seq(TaskIds),
         \A id \in TaskIds : ~(id > used /\ id <= last) => ts[id] = tasks[id],
         \A id \in TaskIds : id > used /\ id <= last =>
           \/ ts[id].status = "blocked"
           \/ ts[id].status = "queued" /\ \E i \in DOMAIN q : q[i] = id,
         \A i \in DOMAIN queue : i \in DOMAIN q /\ q[i] = queue[i]
  PROVE  Good(ts, q, runs, last)
<1>0. used \in Nat /\ last \in Nat /\ used <= last /\ TaskIds \subseteq Nat
  BY SizeAssumption DEF TypeOK, TaskIds
<1>1. \A id \in TaskIds : id > used => tasks[id].status = "absent"
  BY DEF Good, Unused
<1>2. Scheduled(ts, q)
  <2> SUFFICES ASSUME NEW id \in TaskIds, ts[id].status = "queued"
               PROVE  \E i \in DOMAIN q : q[i] = id
    BY DEF Scheduled
  <2>1. CASE id > used /\ id <= last
    BY <2>1
  <2>2. CASE ~(id > used /\ id <= last)
    <3>1. PICK i \in DOMAIN queue : queue[i] = id
      BY <2>2 DEF Good, Scheduled
    <3> QED BY <3>1
  <2> QED BY <2>1, <2>2
<1>3. Worked(ts, runs)
  <2>1. \A id \in TaskIds : ts[id].status = "running" => ts[id] = tasks[id]
    OBVIOUS
  <2> QED BY <2>1 DEF Good, Worked
<1>4. Escalated(ts)
  <2>1. \A id \in TaskIds : tasks[id].retries \in Nat
    BY DEF TypeOK, Stores, Tasks
  <2>2. \A id \in TaskIds :
          /\ tasks[id].status # "absent" => ts[id].status # "absent" /\ ts[id].parent = tasks[id].parent
          /\ ts[id].status = "failed" =>
               /\ tasks[id].status = "failed" /\ (tasks[id].escalated => ts[id].escalated)
               /\ ts[id].retries >= tasks[id].retries
    <3> TAKE id \in TaskIds
    <3>1. CASE id > used /\ id <= last
      BY <1>1, <3>1
    <3>2. CASE ~(id > used /\ id <= last)
      BY <2>1, <3>2
    <3> QED BY <3>1, <3>2
  <2>3. tasks \in Stores /\ Escalated(tasks)
    BY DEF Good
  <2> QED BY <2>2, <2>3, EscalatedStep
<1>5. Unused(ts, last)
  <2>1. ASSUME NEW id \in TaskIds, id > last PROVE id > used /\ ts[id] = tasks[id]
    BY <1>0, <2>1
  <2> QED BY <1>1, <2>1 DEF Unused
<1>6. runs \in [RunIds -> Runs] /\ RunsUsed(runs, last)
  <2>1. \A r \in RunIds : runs[r].at # "none" => Task(r) <= used
    BY DEF Good, RunsUsed
  <2>2. \A r \in RunIds : Task(r) \in Nat
    BY <1>0 DEF RunIds, Task
  <2>3. \A r \in RunIds : Task(r) <= used => Task(r) <= last
    BY <1>0, <2>2
  <2> QED BY <2>1, <2>3 DEF Good, RunsUsed
<1> QED BY <1>2, <1>3, <1>4, <1>5, <1>6 DEF Good

LEMMA SubmitSteps ==
  ASSUME IInv, SubmitTask \/ \E n \in Fanouts : SubmitFanout(n)
  PROVE  IInv'
<1>0. /\ TypeOK /\ Good(tasks, queue, runs, used) /\ tasks \in Stores /\ queue \in Seq(TaskIds)
      /\ used \in Nat /\ used <= MaxTasks /\ MaxTasks \in Nat /\ TaskIds = 1..MaxTasks
  BY SizeAssumption DEF IInv, TypeOK, TaskIds
<1>1. ASSUME NEW parent \in TaskIds \cup {0}, NEW status \in {"queued", "blocked"}
      PROVE  NewTask(status, parent) \in Tasks /\ NewTask(status, parent).status = status
  BY BudgetAssumption DEF NewTask, Tasks, Statuses
<1>2. ASSUME SubmitTask PROVE IInv'
  <2> DEFINE id == used + 1
  <2>1. /\ id \in TaskIds /\ id \in used..MaxTasks
    BY <1>0, <1>2 DEF SubmitTask
  <2>2. /\ tasks' = [tasks EXCEPT ![id] = NewTask("queued", 0)] /\ queue' = Append(queue, id)
        /\ used' = id /\ process # "down"
    BY <1>2 DEF SubmitTask
  <2>3. /\ \A t \in TaskIds : t > used /\ t <= id => t = id
        /\ id > used /\ id <= id
    BY <1>0
  <2> HIDE DEF id
  <2>4. tasks' \in Stores /\ tasks'[id].status = "queued" /\ \A t \in TaskIds \ {id} : tasks'[t] = tasks[t]
    BY <1>0, <1>1, <2>1, <2>2 DEF Stores
  <2>5. /\ queue' \in Seq(TaskIds) /\ \E i \in DOMAIN queue' : queue'[i] = id
        /\ \A i \in DOMAIN queue : i \in DOMAIN queue' /\ queue'[i] = queue[i]
    BY <1>0, <2>1, <2>2, Appended
  <2>6. Good(tasks', queue', runs, id)
    <3>1. \A t \in TaskIds : ~(t > used /\ t <= id) => tasks'[t] = tasks[t]
      BY <2>3, <2>4
    <3>2. \A t \in TaskIds : t > used /\ t <= id =>
            \/ tasks'[t].status = "blocked"
            \/ tasks'[t].status = "queued" /\ \E i \in DOMAIN queue' : queue'[i] = t
      BY <2>3, <2>4, <2>5
    <3> QED BY <1>0, <2>1, <2>4, <2>5, <3>1, <3>2, TasksAdded
  <2>7. calls' \in SUBSET Calls
    BY <1>0, <1>2, <2>1 DEF SubmitTask, TypeOK, Calls, id
  <2>8. used' \in 0..MaxTasks /\ used' >= used
    BY <1>0, <2>1, <2>2
  <2>9. /\ process' = process /\ running' = running /\ runs' = runs /\ worktrees' = worktrees
        /\ sweep' = sweep /\ flushing' = flushing /\ disk' = disk /\ starts' = starts
        /\ requests' = requests /\ faults' = faults /\ crashes' = crashes
    BY <1>2 DEF SubmitTask
  <2> QED BY <1>0, <2>2, <2>6, <2>7, <2>8, <2>9, Kept DEF TypeOK
<1>3. ASSUME NEW n \in Fanouts, SubmitFanout(n) PROVE IInv'
  <2> DEFINE parent == used + 1
             last == parent + n
             ids == [i \in 1..n |-> parent + i]
  <2>1. /\ n \in Nat /\ parent \in TaskIds /\ last \in used..MaxTasks /\ last \in Nat
        /\ \A i \in 1..n : parent + i \in TaskIds
    <3>1. n \in Nat /\ parent + n <= MaxTasks
      BY <1>3, FanoutAssumption DEF SubmitFanout
    <3> QED BY <1>0, <3>1
  <2>2. /\ tasks' = [id \in TaskIds |->
                       IF id = parent THEN NewTask("blocked", 0)
                       ELSE IF id > parent /\ id <= parent + n THEN NewTask("queued", parent)
                       ELSE tasks[id]]
        /\ queue' = queue \o ids
        /\ used' = last /\ process # "down"
    BY <1>3 DEF SubmitFanout
  <2>3. ids \in Seq(TaskIds) /\ Len(ids) = n /\ DOMAIN ids = 1..n
    BY <2>1
  <2>4. /\ queue' \in Seq(TaskIds) /\ DOMAIN queue' = 1..(Len(queue) + n)
        /\ \A i \in DOMAIN queue : i \in DOMAIN queue' /\ queue'[i] = queue[i]
        /\ \A i \in 1..n : Len(queue) + i \in DOMAIN queue' /\ queue'[Len(queue) + i] = parent + i
    <3> HIDE DEF ids
    <3>1. /\ queue' \in Seq(TaskIds) /\ Len(queue') = Len(queue) + n
          /\ DOMAIN queue = 1..Len(queue) /\ Len(queue) \in Nat
          /\ DOMAIN queue' = 1..Len(queue')
      <4>1. queue' \in Seq(TaskIds) /\ Len(queue') = Len(queue) + n
        BY <1>0, <2>2, <2>3, ConcatProperties
      <4>2. Len(queue) \in Nat /\ DOMAIN queue = 1..Len(queue) /\ DOMAIN queue' = 1..Len(queue')
        BY <1>0, <4>1
      <4> QED BY <4>1, <4>2
    <3>2. \A i \in 1..Len(queue) : queue'[i] = queue[i]
      BY <1>0, <2>2, <2>3
    <3>3. \A i \in 1..n : queue'[Len(queue) + i] = ids[i]
      BY <1>0, <2>1, <2>2, <2>3
    <3>4. \A i \in 1..n : ids[i] = parent + i
      BY DEF ids
    <3>5. \A a, b \in Nat : \A i \in 1..b : a + i \in 1..(a + b)
      OBVIOUS
    <3>6. \A a, b \in Nat : \A i \in 1..a : i \in 1..(a + b)
      OBVIOUS
    <3> QED BY <2>1, <3>1, <3>2, <3>3, <3>4, <3>5, <3>6
  <2>5. tasks' \in Stores
    <3>1. tasks' = [id \in TaskIds |-> tasks'[id]]
      BY <2>2
    <3>2. \A id \in TaskIds : tasks'[id] \in Tasks
      BY <1>0, <1>1, <2>1, <2>2 DEF Stores
    <3> QED BY <3>1, <3>2 DEF Stores
  <2>6. \A id \in TaskIds : ~(id > used /\ id <= last) => tasks'[id] = tasks[id]
    <3>1. \A id \in TaskIds : id = parent \/ (id > parent /\ id <= last) => id > used /\ id <= last
      BY <1>0, <2>1
    <3> QED BY <2>2, <3>1
  <2>7. \A id \in TaskIds : id > used /\ id <= last =>
          \/ tasks'[id].status = "blocked"
          \/ tasks'[id].status = "queued" /\ \E i \in DOMAIN queue' : queue'[i] = id
    <3> TAKE id \in TaskIds
    <3> HAVE id > used /\ id <= last
    <3>1. CASE id = parent
      BY <1>1, <2>2, <3>1
    <3>2. CASE id # parent
      <4>1. id > parent /\ id - parent \in 1..n /\ parent + (id - parent) = id
        BY <1>0, <2>1, <3>2
      <4>2. tasks'[id] = NewTask("queued", parent)
        BY <2>2, <3>2, <4>1
      <4>3. tasks'[id].status = "queued"
        BY <1>1, <2>1, <4>2
      <4> HIDE DEF parent, last
      <4>4. queue'[Len(queue) + (id - parent)] = id /\ Len(queue) + (id - parent) \in DOMAIN queue'
        BY <2>4, <4>1
      <4> QED BY <4>3, <4>4
    <3> QED BY <3>1, <3>2
  <2>8. calls' \in SUBSET Calls
    BY <1>0, <1>3, <2>1 DEF SubmitFanout, TypeOK, Calls
  <2>9. used' \in 0..MaxTasks /\ used' >= used
    BY <1>0, <2>1, <2>2
  <2> HIDE DEF parent, last, ids
  <2>10. Good(tasks', queue', runs, last)
    BY <1>0, <2>1, <2>4, <2>5, <2>6, <2>7, TasksAdded
  <2>11. /\ process' = process /\ running' = running /\ runs' = runs /\ worktrees' = worktrees
         /\ sweep' = sweep /\ flushing' = flushing /\ disk' = disk /\ starts' = starts
         /\ requests' = requests /\ faults' = faults /\ crashes' = crashes
    BY <1>3 DEF SubmitFanout
  <2> QED BY <1>0, <2>2, <2>8, <2>9, <2>10, <2>11, Kept DEF TypeOK
<1> QED BY <1>2, <1>3

LEMMA OperatorSteps ==
  ASSUME IInv, NEW id \in TaskIds, RetryTask(id) \/ CancelQueued(id) \/ CancelRunning(id)
  PROVE  IInv'
<1>0. /\ TypeOK /\ Good(tasks, queue, runs, used) /\ tasks \in Stores /\ queue \in Seq(TaskIds)
      /\ used \in Nat /\ tasks[id] \in Tasks
  BY DEF IInv, TypeOK, Stores
<1>1. tasks[id].status # "absent" /\ \E op \in {"retry", "cancel"} : Requested(op, id)
  BY DEF RetryTask, CancelQueued, CancelRunning
<1>2. id <= used
  BY <1>0, <1>1, SizeAssumption DEF Good, Unused, TaskIds
<1>3. ASSUME Good(tasks', queue', runs, used) PROVE IInv'
  <2>1. /\ process' = process /\ running' = running /\ runs' = runs /\ worktrees' = worktrees
        /\ sweep' = sweep /\ flushing' = flushing /\ disk' = disk /\ starts' = starts
        /\ requests' = requests + 1 /\ faults' = faults /\ crashes' = crashes /\ used' = used
        /\ process # "down" /\ calls' \in SUBSET Calls
    BY <1>0, <1>1 DEF Requested, TypeOK, Calls
  <2>2. requests' \in Nat
    BY <1>0, <2>1 DEF TypeOK
  <2> QED BY <1>0, <1>3, <2>1, <2>2, Kept DEF TypeOK
<1>4. CASE RetryTask(id)
  <2> DEFINE new == [tasks[id] EXCEPT !.status = "queued", !.cancel = FALSE, !.escalated = FALSE]
  <2>1. tasks' = [tasks EXCEPT ![id] = new] /\ queue' = Append(queue, id)
    BY <1>0, <1>4 DEF RetryTask, Stores
  <2>2. /\ new \in Tasks /\ new.status = "queued" /\ new.retries = tasks[id].retries
        /\ new.parent = tasks[id].parent /\ new.retries >= tasks[id].retries
    <3>1. ASSUME NEW b \in BOOLEAN, new = [tasks[id] EXCEPT !.status = "queued", !.cancel = b, !.escalated = b]
          PROVE  /\ new \in Tasks /\ new.status = "queued" /\ new.retries = tasks[id].retries
                 /\ new.parent = tasks[id].parent /\ new.retries >= tasks[id].retries
      <4> HIDE DEF new
      <4>1. /\ new.status = "queued" /\ new.retries = tasks[id].retries
            /\ new.repairs = tasks[id].repairs /\ new.parent = tasks[id].parent
            /\ new.cancel = b /\ new.escalated = b
        BY <1>0, <3>1 DEF Tasks
      <4>2. new = [status |-> "queued", retries |-> tasks[id].retries,
                   repairs |-> tasks[id].repairs, cancel |-> b, escalated |-> b,
                   parent |-> tasks[id].parent]
        BY <1>0, <3>1 DEF Tasks
      <4>3. "queued" \in Statuses /\ tasks[id].retries \in Nat /\ tasks[id].repairs \in 0..MaxRepairs
            /\ tasks[id].parent \in TaskIds \cup {0}
        BY <1>0 DEF Tasks, Statuses
      <4>4. new \in Tasks
        BY <4>2, <4>3 DEF Tasks
      <4> QED BY <4>1, <4>3, <4>4
    <3>2. FALSE \in BOOLEAN
      OBVIOUS
    <3> QED BY <3>1, <3>2, Zenon
  <2> HIDE DEF new
  <2>3. /\ queue' \in Seq(TaskIds) /\ \E i \in DOMAIN queue' : queue'[i] = id
        /\ \A i \in DOMAIN queue : i \in DOMAIN queue' /\ queue'[i] = queue[i]
    BY <1>0, <2>1, Appended
  <2>4. Good([tasks EXCEPT ![id] = new], queue', runs, used)
    BY <1>0, <1>2, <2>2, <2>3, TaskMoves
  <2> QED BY <1>3, <2>1, <2>4
<1>5. CASE CancelQueued(id)
  <2> DEFINE new == [tasks[id] EXCEPT !.status = "cancelled"]
             others == {i \in DOMAIN queue : queue[i] # id}
  <2>1. tasks' = [tasks EXCEPT ![id] = new]
    BY <1>0, <1>5 DEF CancelQueued, Stores
  <2>2. /\ new \in Tasks /\ new.status = "cancelled" /\ new.retries = tasks[id].retries
        /\ new.parent = tasks[id].parent /\ new.retries >= tasks[id].retries
        /\ new.escalated = tasks[id].escalated
    BY <1>0 DEF Tasks, Statuses
  <2> HIDE DEF new
  <2>3. Good(tasks', queue, runs, used)
    <3>1. Good([tasks EXCEPT ![id] = new], queue, runs, used)
      BY <1>0, <1>2, <2>2, TaskMoves
    <3> QED BY <2>1, <3>1
  <2>4. PICK kept \in [1..Cardinality(others) -> others] :
          /\ \A k \in others : \E i \in DOMAIN kept : kept[i] = k
          /\ queue' = [i \in DOMAIN kept |-> queue[kept[i]]]
    BY <1>5 DEF CancelQueued, RemoveFromQueue
  <2>5. Cardinality(others) \in Nat
    <3>1. IsFiniteSet(DOMAIN queue)
      <4>1. Len(queue) \in Nat /\ DOMAIN queue = 1..Len(queue)
        BY <1>0
      <4>2. IsFiniteSet(1..Len(queue))
        BY <4>1, FS_Interval
      <4> QED BY <4>1, <4>2
    <3>2. others \subseteq DOMAIN queue
      OBVIOUS
    <3> QED BY <3>1, <3>2, FS_Subset, FS_CardinalityType
  <2>6. queue' \in Seq(TaskIds)
    <3> DEFINE size == Cardinality(others)
    <3>1. size \in Nat /\ DOMAIN kept = 1..size
      BY <2>4, <2>5
    <3>2. \A i \in 1..size : queue[kept[i]] \in TaskIds
      <4>1. \A i \in DOMAIN queue : queue[i] \in TaskIds
        BY <1>0
      <4>2. \A i \in 1..size : kept[i] \in DOMAIN queue
        BY <2>4
      <4> QED BY <4>1, <4>2
    <3> HIDE DEF size, others
    <3>3. queue' \in [1..size -> TaskIds]
      BY <2>4, <3>1, <3>2
    <3> QED BY <3>1, <3>3
  <2>7. Scheduled(tasks', queue')
    <3> SUFFICES ASSUME NEW t \in TaskIds, tasks'[t].status = "queued"
                 PROVE  \E i \in DOMAIN queue' : queue'[i] = t
      BY DEF Scheduled
    <3>1. t # id
      BY <1>0, <2>1, <2>2 DEF Stores
    <3>2. PICK k \in DOMAIN queue : queue[k] = t
      BY <2>3 DEF Good, Scheduled
    <3>3. k \in others
      BY <3>1, <3>2
    <3>4. PICK i \in DOMAIN kept : kept[i] = k
      BY <2>4, <3>3
    <3>5. i \in DOMAIN queue' /\ queue'[i] = t
      BY <2>4, <3>2, <3>4
    <3> QED BY <3>5
  <2>8. Good(tasks', queue', runs, used)
    BY <2>3, <2>6, <2>7 DEF Good
  <2> QED BY <1>3, <2>8
<1>6. CASE CancelRunning(id)
  <2> DEFINE new == [tasks[id] EXCEPT !.cancel = TRUE]
  <2>1. tasks' = [tasks EXCEPT ![id] = new] /\ queue' = queue
    BY <1>0, <1>6 DEF CancelRunning, Stores
  <2>2. /\ new \in Tasks /\ new.status = tasks[id].status /\ new.retries = tasks[id].retries
        /\ new.parent = tasks[id].parent /\ new.retries >= tasks[id].retries
        /\ new.escalated = tasks[id].escalated
    <3>1. ASSUME NEW b \in BOOLEAN, new = [tasks[id] EXCEPT !.cancel = b]
          PROVE  /\ new \in Tasks /\ new.status = tasks[id].status /\ new.retries = tasks[id].retries
                 /\ new.parent = tasks[id].parent /\ new.retries >= tasks[id].retries
                 /\ new.escalated = tasks[id].escalated
      <4> HIDE DEF new
      <4> QED BY <1>0, <3>1 DEF Tasks
    <3>2. TRUE \in BOOLEAN
      OBVIOUS
    <3> QED BY <3>1, <3>2, Zenon
  <2> HIDE DEF new
  <2>3. Good([tasks EXCEPT ![id] = new], queue, runs, used)
    BY <1>0, <1>2, <2>2, TaskMoves
  <2> QED BY <1>3, <2>1, <2>3
<1> QED BY <1>4, <1>5, <1>6

------------------------------------------------------------------------------
(* The invariant is one. *)

LEMMA InitIInv ==
  ASSUME Init
  PROVE  IInv
<1>1. EmptyStore \in Stores /\ \A id \in TaskIds : EmptyStore[id].status = "absent"
  BY BudgetAssumption DEF EmptyStore, NewTask, Stores, Tasks, Statuses
<1>2. NoRun \in Runs /\ NoRun.at = "none"
  BY DEF NoRun, Runs
<1>3. Cardinality({}) <= MaxConcurrency
  BY FS_EmptySet, SizeAssumption
<1>4. runs \in [RunIds -> Runs] /\ \A r \in RunIds : runs[r] = NoRun
  BY <1>2 DEF Init
<1>5. TypeOK
  <2>1. tasks \in Stores /\ disk \in Stores /\ queue \in Seq(TaskIds)
    BY <1>1 DEF Init
  <2>2. Cardinality(running) <= MaxConcurrency /\ running \in SUBSET TaskIds
    BY <1>3 DEF Init
  <2>3. flushing \in BOOLEAN
    BY DEF Init
  <2>4. used \in 0..MaxTasks /\ starts \in [TaskIds -> Nat]
        /\ requests \in Nat /\ faults \in Nat /\ crashes \in Nat
    BY SizeAssumption DEF Init
  <2>5. /\ process \in {"down", "up", "stopping"} /\ worktrees \in SUBSET TaskIds
        /\ sweep \in TaskIds \cup {0} /\ calls \in SUBSET Calls
    BY DEF Init
  <2> QED BY <1>4, <2>1, <2>2, <2>3, <2>4, <2>5 DEF TypeOK
<1>6. Good(tasks, queue, runs, used)
  BY <1>1, <1>2, <1>4, <1>5
     DEF Init, TypeOK, Good, Scheduled, Worked, Escalated, Unused, RunsUsed
<1>7. DownIsEmpty /\ DiskGood
  BY <1>1 DEF Init, DownIsEmpty, DiskGood, Escalated, Unused
<1> QED BY <1>5, <1>6, <1>7 DEF IInv

LEMMA NextIInv ==
  ASSUME IInv, [Next]_vars
  PROVE  IInv'
<1>1. CASE UNCHANGED vars
  <2>1. TypeOK' /\ DownIsEmpty'
    BY <1>1 DEF IInv, TypeOK, DownIsEmpty, vars
  <2>2. DiskGood' /\ Good(tasks, queue, runs, used)'
    BY <1>1 DEF IInv, DiskGood, vars
  <2> QED BY <2>1, <2>2 DEF IInv
<1>2. ASSUME NEW r \in RunIds, RunStep(r) PROVE IInv'
  BY <1>2, TurnSteps, EndSteps, LastSteps DEF RunStep
<1>3. CASE Next
  BY <1>2, <1>3, Starts, ProcessSteps, SubmitSteps, OperatorSteps, CallSteps DEF Next
<1> QED BY <1>1, <1>3

THEOREM InvariantHolds == Spec => []IInv
<1>1. Init => IInv
  BY InitIInv
<1>2. IInv /\ [Next]_vars => IInv'
  BY NextIInv
<1> QED BY <1>1, <1>2, PTL DEF Spec

(* The state has its type; no more executions are in this.running than
   TASK_MAX_CONCURRENCY. *)
THEOREM TypeCorrect == Spec => []TypeOK
<1>1. IInv => TypeOK
  BY DEF IInv
<1> QED BY <1>1, InvariantHolds, PTL

(* No operation, retry, repair, cancellation or restart loses a queued task. *)
THEOREM QueueCorrect == Spec => []QueuedIsScheduled
<1>1. IInv => QueuedIsScheduled
  BY DEF IInv, Good, Scheduled, QueuedIsScheduled
<1> QED BY <1>1, InvariantHolds, PTL

(* A running task is never orphaned: an execution in its turn, or repairing, has it. *)
THEOREM RunningCorrect == Spec => []RunningIsWorked
<1>1. IInv => RunningIsWorked
  BY DEF IInv, Good, Worked, Working, RunningIsWorked
<1> QED BY <1>1, InvariantHolds, PTL

(* A task fails only when its budget is spent or a child's is, and an operator is asked for. *)
THEOREM FailureCorrect == Spec => []FailedMeansEscalated
<1>1. IInv => FailedMeansEscalated
  BY DEF IInv, Good, Escalated, FailedMeansEscalated, Children
<1> QED BY <1>1, InvariantHolds, PTL

------------------------------------------------------------------------------
(* What the steps do to the tasks, their families, and the executions.  The *)
(* rest of the module looks at every step through one of these.             *)

(* The parent of a task is an older one that has none. *)
Family(ts) ==
  \A id \in TaskIds : ts[id].parent # 0 =>
    /\ ts[id].parent < id
    /\ ts[ts[id].parent].status # "absent"
    /\ ts[ts[id].parent].parent = 0

Families == Family(tasks) /\ Family(disk)

(* An execution that may still decide on its task, or has an outcome to save. *)
Live == Working \cup {"recording", "settling"}

(* A table that differs from tasks in what updateParentState did for id, and in flags. *)
Passed(ts, id) ==
  /\ ts \in Stores
  /\ \A u \in TaskIds : ts[u].parent = tasks[u].parent /\ ts[u].retries = tasks[u].retries
                        /\ ts[u].repairs = tasks[u].repairs
  /\ ts[id].status = tasks[id].status
  /\ \A u \in TaskIds \ {id} :
       \/ ts[u].status = tasks[u].status
       \/ u = tasks[id].parent /\ ~ParentRefuses(id) /\ ts[u].status = FanInStatus(u)

(* Only task id differs from such a table. *)
Differs(id, ts) ==
  /\ tasks' \in Stores
  /\ tasks'[id].parent = tasks[id].parent
  /\ \A u \in TaskIds \ {id} : tasks'[u] = ts[u]

(* r stands elsewhere now. *)
Moved(r, places) ==
  /\ runs[r].at # "none" /\ runs'[r].at \in places
  /\ \A s \in RunIds \ {r} : runs'[s] = runs[s]

(* It waits for something else, and decides nothing. *)
StepWaits(r) ==
  /\ tasks' = tasks
  /\ Moved(r, Places)
  /\ runs[r].at # "repairing" /\ runs'[r].at # "repairing"
  /\ runs[r].at \in Live <=> runs'[r].at \in Live
  /\ \/ runs'[r].at \notin {"cleaning", "removing"}
     \/ runs[r].at \in {"cleaning", "removing"} /\ runs'[r].rejected = runs[r].rejected
     \/ runs'[r].rejected

(* updateParentState has succeeded. *)
StepFollows(r) ==
  /\ runs[r].at \in {"settling", "requeuing", "failing"}
  /\ Moved(r, {"cleaning"})
  /\ ~ParentRefuses(Task(r)) /\ tasks' = ParentUpdated(Task(r))

(* It throws, at the end of runTask. *)
StepThrows(r) ==
  /\ runs[r].at = "failing"
  /\ Moved(r, {"cleaning"}) /\ runs'[r].rejected
  /\ Passed(tasks', Task(r))

StepDecides(r) ==
  /\ runs[r].at \in {"working", "closing"}
  /\ Moved(r, {"settling", "recording"})
  /\ \E ts \in Stores : Passed(ts, Task(r)) /\ Differs(Task(r), ts)
  /\ tasks'[Task(r)].status \in {"blocked", "done", "cancelled"}
  /\ tasks'[Task(r)].retries = tasks[Task(r)].retries
  /\ tasks'[Task(r)].repairs = tasks[Task(r)].repairs

StepTriesRepair(r) ==
  /\ runs[r].at \in Live \ {"repairing"}
  /\ Moved(r, {"repairing"})
  /\ \E ts \in Stores : Passed(ts, Task(r)) /\ Differs(Task(r), ts)
  /\ tasks'[Task(r)].status = tasks[Task(r)].status
  /\ tasks'[Task(r)].retries = tasks[Task(r)].retries
  /\ tasks'[Task(r)].repairs = tasks[Task(r)].repairs + 1

StepCounts(r) ==
  /\ runs[r].at \in Live \cup {"requeuing"}
  /\ runs[r].at = "requeuing" => ParentRefuses(Task(r)) \/ faults' # 0
  /\ \/ Moved(r, {"failing"})
     \/ Moved(r, {"cleaning"}) /\ runs'[r].rejected
  /\ \E ts \in Stores : Passed(ts, Task(r)) /\ Differs(Task(r), ts)
  /\ tasks'[Task(r)].retries = tasks[Task(r)].retries + 1
  /\ tasks'[Task(r)].repairs = tasks[Task(r)].repairs
  /\ \/ tasks'[Task(r)].status = "queued" /\ tasks'[Task(r)].retries <= MaxRetries
     \/ tasks'[Task(r)].status \in {"failed", tasks[Task(r)].status}

StepQueues(r) ==
  /\ runs[r].at = "repairing"
  /\ Moved(r, {"requeuing"})
  /\ Differs(Task(r), tasks)
  /\ tasks'[Task(r)].status = "queued"
  /\ tasks'[Task(r)].retries = tasks[Task(r)].retries
  /\ tasks'[Task(r)].repairs = tasks[Task(r)].repairs

StepRuns(r) ==
  /\ \/ StepWaits(r) \/ StepFollows(r) \/ StepThrows(r) \/ StepDecides(r)
     \/ StepTriesRepair(r) \/ StepCounts(r) \/ StepQueues(r)
  /\ disk' \in {disk, tasks} /\ faults' >= faults
  /\ UNCHANGED <<process, used, starts, requests, crashes>>

(* The pump, given tasks ts and executions rs, starts the tasks of a set. *)
Pumps(ts, rs) ==
  \E started \in SUBSET TaskIds :
    /\ tasks' \in Stores
    /\ \A id \in started : ts[id].status = "queued"
    /\ \A id \in TaskIds :
         /\ tasks'[id].parent = ts[id].parent /\ tasks'[id].retries = ts[id].retries
         /\ tasks'[id].repairs = ts[id].repairs
         /\ tasks'[id].status = IF id \in started THEN "running" ELSE ts[id].status
         /\ starts'[id] = IF id \in started THEN starts[id] + 1 ELSE starts[id]
    /\ \A id \in TaskIds \ started : \A c \in Copies : runs'[<<id, c>>] = rs[<<id, c>>]
    /\ \A id \in started : \E c \in Copies :
         /\ rs[<<id, c>>].at = "none" /\ runs'[<<id, c>>].at = "starting"
         /\ \A d \in Copies \ {c} : runs'[<<id, d>>] = rs[<<id, d>>]

StepLoads ==
  /\ process = "down" /\ process' # "down"
  /\ Pumps(Recovered(disk), runs)
  /\ UNCHANGED <<disk, used, requests, faults, crashes>>

(* An execution that is over leaves, or none does, and the pump runs. *)
Released(rs) ==
  \/ rs = runs
  \/ \E r \in RunIds : /\ runs[r].at \in {"cleaning", "removing"} /\ ~runs[r].rejected
                       /\ rs = [runs EXCEPT ![r] = NoRun]

StepPumps ==
  /\ process # "down"
  /\ \E rs \in [RunIds -> Runs] : Released(rs) /\ Pumps(tasks, rs)
  /\ disk' \in {disk, tasks} /\ faults' >= faults
  /\ UNCHANGED <<process, used, requests, crashes>>

StepAdds ==
  /\ process # "down"
  /\ tasks' \in Stores
  /\ used' \in Nat /\ used' > used
  /\ \A id \in TaskIds : ~(id > used /\ id <= used') => tasks'[id] = tasks[id]
  /\ \A id \in TaskIds : id > used /\ id <= used' =>
       \/ tasks'[id] = NewTask("queued", 0)
       \/ tasks'[id] = NewTask("blocked", 0)
       \/ \E p \in TaskIds : /\ p > used /\ p < id
                            /\ tasks'[id] = NewTask("queued", p) /\ tasks'[p] = NewTask("blocked", 0)
  /\ UNCHANGED <<process, runs, starts, disk, requests, faults, crashes>>

StepAsks(id) ==
  /\ process # "down"
  /\ requests' = requests + 1
  /\ Differs(id, tasks)
  /\ tasks'[id].retries = tasks[id].retries /\ tasks'[id].repairs = tasks[id].repairs
  /\ tasks[id].status # "absent"
  /\ \/ tasks'[id].status \in {"queued", tasks[id].status}
     \/ tasks[id].status = "queued" /\ tasks'[id].status = "cancelled"
  /\ UNCHANGED <<process, runs, starts, used, disk, faults, crashes>>

StepIdles ==
  /\ process # "down" /\ process' # "down"
  /\ disk' \in {disk, tasks} /\ faults' >= faults
  /\ UNCHANGED <<tasks, runs, starts, used, requests, crashes>>

StepEnds ==
  /\ process # "down" /\ ProcessEnds
  /\ disk' \in {disk, tasks} /\ faults' >= faults

------------------------------------------------------------------------------
LEMMA ParentPassed ==
  ASSUME tasks \in Stores, Family(tasks), NEW id \in TaskIds
  PROVE  /\ Passed(ParentUpdated(id), id) /\ Passed(tasks, id)
         /\ ParentUpdated(id)[id] = tasks[id]
         /\ tasks[id].parent # 0 /\ ~ParentRefuses(id) =>
              ParentUpdated(id)[tasks[id].parent].status = FanInStatus(tasks[id].parent)
<1> DEFINE p == tasks[id].parent
           new == FanInStatus(p)
           ts == ParentUpdated(id)
<1>0. Passed(tasks, id)
  BY DEF Passed
<1>1. CASE p = 0
  BY <1>0, <1>1 DEF ParentUpdated
<1>2. CASE p # 0
  <2>1. p \in TaskIds /\ p # id
    BY <1>2, SizeAssumption DEF Family, Stores, Tasks, TaskIds
  <2>2. PICK flag \in BOOLEAN : flag = (tasks[p].escalated \/ new = "failed")
    OBVIOUS
  <2>3. PICK status \in Statuses : status = IF ParentRefuses(id) THEN tasks[p].status ELSE new
    <3>1. new \in Statuses
      BY DEF FanInStatus, Statuses
    <3>2. tasks[p].status \in Statuses
      BY <2>1 DEF Stores, Tasks
    <3> QED BY <3>1, <3>2
  <2>4. ts = [tasks EXCEPT ![p].escalated = flag, ![p].status = status]
    <3>1. ts = [tasks EXCEPT ![p].escalated = @ \/ new = "failed",
                             ![p].status = IF ParentRefuses(id) THEN @ ELSE new]
      BY <1>2 DEF ParentUpdated
    <3>2. tasks[p] \in Tasks
      BY <2>1 DEF Stores
    <3>3. [tasks EXCEPT ![p].escalated = @ \/ new = "failed"] = [tasks EXCEPT ![p].escalated = flag]
      BY <2>1, <2>2, Zenon DEF Stores
    <3>4. ts = [[tasks EXCEPT ![p].escalated = @ \/ new = "failed"] EXCEPT
                             ![p].status = IF ParentRefuses(id) THEN @ ELSE new]
      BY <3>1
    <3>5. [tasks EXCEPT ![p].escalated = flag][p].status = tasks[p].status
      BY <2>1, <3>2 DEF Stores, Tasks
    <3> HIDE DEF ts, new, p
    <3> QED BY <2>3, <3>3, <3>4, <3>5
  <2> HIDE DEF ts, new
  <2>5. tasks[p] \in Tasks
    BY <2>1 DEF Stores
  <2>6. /\ ts \in Stores
        /\ ts[p].status = status /\ ts[p].retries = tasks[p].retries
        /\ ts[p].repairs = tasks[p].repairs /\ ts[p].parent = tasks[p].parent
        /\ \A u \in TaskIds \ {p} : ts[u] = tasks[u]
    <3> DEFINE t == [tasks[p] EXCEPT !.escalated = flag, !.status = status]
    <3>1. ts = [tasks EXCEPT ![p] = t]
      BY <2>1, <2>4, <2>5 DEF Stores
    <3>2. t \in Tasks /\ t.status = status /\ t.retries = tasks[p].retries
          /\ t.repairs = tasks[p].repairs /\ t.parent = tasks[p].parent
      BY <2>5 DEF Tasks
    <3> HIDE DEF t
    <3> QED BY <2>1, <3>1, <3>2 DEF Stores
  <2>7. \/ status = tasks[p].status
        \/ ~ParentRefuses(id) /\ status = FanInStatus(p)
    BY <2>3 DEF new
  <2>8. Passed(ts, id)
    BY <2>1, <2>6, <2>7 DEF Passed
  <2> QED BY <1>0, <2>1, <2>3, <2>6, <2>8 DEF ts, new
<1> QED BY <1>1, <1>2

(* The error path, with whatever table it is passed. *)
LEMMA CountsKind ==
  ASSUME TypeOK, NEW r \in RunIds, NEW ts, Passed(ts, Task(r)), CountFailure(r, ts),
         runs[r].at \in Live \cup {"requeuing"},
         runs[r].at = "requeuing" => ParentRefuses(Task(r)) \/ faults' # 0
  PROVE  StepCounts(r)
<1> DEFINE id == Task(r)
           failures == ts[id].retries + 1
           legal == CanMove(ts[id].status, "failed")
<1>1. /\ id \in TaskIds /\ ts \in Stores /\ ts[id] \in Tasks
      /\ runs \in [RunIds -> Runs] /\ runs[r] \in Runs /\ failures \in Nat
  BY DEF Passed, TypeOK, RunIds, Task, Stores, Tasks
<1>2. /\ ts[id].parent = tasks[id].parent /\ ts[id].retries = tasks[id].retries
      /\ ts[id].repairs = tasks[id].repairs /\ ts[id].status = tasks[id].status
  BY <1>1 DEF Passed
<1>3. runs[r].at # "none"
  BY DEF Live, Working, InTurn
<1> HIDE DEF id
<1>4. CASE ~Spent(failures)
  <2> DEFINE new == [ts[id] EXCEPT !.retries = failures, !.status = "queued"]
  <2>1. tasks' = [ts EXCEPT ![id] = new] /\ runs' = [runs EXCEPT ![r].at = "failing"]
    BY <1>1, <1>4 DEF CountFailure, Goes, Stores, id
  <2>2. new \in Tasks /\ new.status = "queued" /\ new.retries = failures
        /\ new.parent = ts[id].parent /\ new.repairs = ts[id].repairs
    BY <1>1 DEF Tasks, Statuses
  <2> HIDE DEF new
  <2>3. Differs(id, ts) /\ tasks'[id] = new
    BY <1>1, <1>2, <2>1, <2>2 DEF Differs, Stores
  <2>4. Moved(r, {"failing"})
    BY <1>1, <1>3, <2>1 DEF Moved, Runs
  <2>5. failures <= MaxRetries
    BY <1>1, <1>4, BudgetAssumption DEF Spent
  <2> QED BY <1>1, <1>2, <2>2, <2>3, <2>4, <2>5 DEF StepCounts, id
<1>5. CASE Spent(failures)
  <2> DEFINE status == IF legal THEN "failed" ELSE ts[id].status
             place == IF legal THEN "failing" ELSE "cleaning"
  <2>0. PICK rejected \in BOOLEAN : rejected = ~legal
    OBVIOUS
  <2> DEFINE new == [ts[id] EXCEPT !.retries = failures, !.escalated = TRUE, !.status = status]
             run == [runs[r] EXCEPT !.at = place, !.rejected = rejected]
  <2>1. tasks' = [ts EXCEPT ![id] = new]
    BY <1>1, <1>5 DEF CountFailure, Stores, id
  <2>2. runs' = [runs EXCEPT ![r] = run]
    <3>1. runs' = [runs EXCEPT ![r].at = place, ![r].rejected = ~legal]
      BY <1>5 DEF CountFailure, id
    <3>2. (~legal) = rejected
      BY <2>0
    <3>3. runs' = [runs EXCEPT ![r].at = place, ![r].rejected = rejected]
      BY <3>1, <3>2, Zenon
    <3> HIDE DEF place
    <3> QED BY <1>1, <3>3
  <2>3. status \in Statuses /\ status \in {"failed", ts[id].status} /\ place \in {"failing", "cleaning"}
        /\ (place = "cleaning" => ~legal)
    BY <1>1 DEF Statuses, Tasks
  <2> HIDE DEF status, place, legal
  <2>4. new \in Tasks /\ new.status = status /\ new.retries = failures
        /\ new.parent = ts[id].parent /\ new.repairs = ts[id].repairs
    BY <1>1, <2>3 DEF Tasks
  <2>5. run.at = place /\ run.rejected = rejected
    BY <1>1 DEF Runs
  <2> HIDE DEF new, run
  <2>6. Differs(id, ts) /\ tasks'[id] = new
    BY <1>1, <1>2, <2>1, <2>4 DEF Differs, Stores
  <2>7. runs'[r] = run /\ \A s \in RunIds \ {r} : runs'[s] = runs[s]
    BY <1>1, <2>2
  <2>8. Moved(r, {"failing"}) \/ (Moved(r, {"cleaning"}) /\ runs'[r].rejected)
    BY <1>3, <2>0, <2>3, <2>5, <2>7 DEF Moved
  <2> QED BY <1>1, <1>2, <2>3, <2>4, <2>6, <2>8 DEF StepCounts, id
<1> QED BY <1>4, <1>5

LEMMA CatchKind ==
  ASSUME TypeOK, NEW r \in RunIds, NEW ts, Passed(ts, Task(r)), Catch(r, ts),
         runs[r].at \in Live \ {"repairing"}
  PROVE  StepTriesRepair(r) \/ StepCounts(r)
<1> DEFINE id == Task(r)
<1>1. CASE /\ ts[id].repairs < MaxRepairs
           /\ tasks' = [ts EXCEPT ![id].repairs = @ + 1]
           /\ Goes(r, "repairing")
  <2>1. /\ id \in TaskIds /\ ts \in Stores /\ ts[id] \in Tasks
        /\ runs \in [RunIds -> Runs] /\ runs[r] \in Runs
    BY DEF Passed, TypeOK, RunIds, Task, Stores
  <2>2. /\ ts[id].parent = tasks[id].parent /\ ts[id].retries = tasks[id].retries
        /\ ts[id].repairs = tasks[id].repairs /\ ts[id].status = tasks[id].status
    BY <2>1 DEF Passed
  <2>3. runs[r].at # "none"
    BY DEF Live, Working, InTurn
  <2> HIDE DEF id
  <2> DEFINE new == [ts[id] EXCEPT !.repairs = @ + 1]
  <2>4. tasks' = [ts EXCEPT ![id] = new] /\ runs' = [runs EXCEPT ![r].at = "repairing"]
    BY <1>1, <2>1 DEF Goes, Stores
  <2>5. ts[id].repairs + 1 \in 0..MaxRepairs
    BY <1>1, <2>1, BudgetAssumption DEF Tasks
  <2>6. new \in Tasks /\ new.status = ts[id].status /\ new.retries = ts[id].retries
        /\ new.parent = ts[id].parent /\ new.repairs = ts[id].repairs + 1
    BY <2>1, <2>5 DEF Tasks
  <2> HIDE DEF new
  <2>7. Differs(id, ts) /\ tasks'[id] = new
    BY <2>1, <2>2, <2>4, <2>6 DEF Differs, Stores
  <2>8. Moved(r, {"repairing"})
    BY <2>1, <2>3, <2>4 DEF Moved, Runs
  <2> QED BY <2>1, <2>2, <2>6, <2>7, <2>8 DEF StepTriesRepair, id
<1>2. CASE CountFailure(r, ts)
  BY <1>2, CountsKind DEF Live, Working, InTurn
<1> QED BY <1>1, <1>2 DEF Catch

LEMMA OutcomeKind ==
  ASSUME TypeOK, NEW r \in RunIds, NEW ts, Passed(ts, Task(r)),
         NEW status \in {"done", "blocked", "cancelled"}, NEW place \in {"settling", "recording"},
         Outcome(r, ts, status, place), runs[r].at \in {"working", "closing"}
  PROVE  StepDecides(r) \/ StepTriesRepair(r) \/ StepCounts(r)
<1> DEFINE id == Task(r)
<1>1. CASE CanMove(ts[id].status, status)
  <2>1. /\ id \in TaskIds /\ ts \in Stores /\ ts[id] \in Tasks
        /\ runs \in [RunIds -> Runs] /\ runs[r] \in Runs
    BY DEF Passed, TypeOK, RunIds, Task, Stores
  <2>2. /\ ts[id].parent = tasks[id].parent /\ ts[id].retries = tasks[id].retries
        /\ ts[id].repairs = tasks[id].repairs /\ ts[id].status = tasks[id].status
    BY <2>1 DEF Passed
  <2>3. tasks' = [ts EXCEPT ![id].status = status] /\ runs' = [runs EXCEPT ![r].at = place]
    BY <1>1 DEF Outcome, Goes
  <2> HIDE DEF id
  <2> DEFINE new == [ts[id] EXCEPT !.status = status]
  <2>4. tasks' = [ts EXCEPT ![id] = new]
    BY <2>1, <2>3 DEF Stores
  <2>5. new \in Tasks /\ new.status = status /\ new.retries = ts[id].retries
        /\ new.parent = ts[id].parent /\ new.repairs = ts[id].repairs
    BY <2>1 DEF Tasks, Statuses
  <2> HIDE DEF new
  <2>6. Differs(id, ts) /\ tasks'[id] = new
    BY <2>1, <2>2, <2>4, <2>5 DEF Differs, Stores
  <2>7. Moved(r, {"settling", "recording"})
    BY <2>1, <2>3 DEF Moved, Runs
  <2> QED BY <2>1, <2>2, <2>5, <2>6, <2>7 DEF StepDecides, id
<1>2. CASE ~CanMove(ts[id].status, status)
  <2>1. runs[r].at \in Live \ {"repairing"}
    BY DEF Live, Working, InTurn
  <2> QED BY <1>2, <2>1, CatchKind DEF Outcome
<1> QED BY <1>1, <1>2


(* What an execution does up to the end of its turn. *)
LEMMA TurnKinds ==
  ASSUME IInv, Families, NEW r \in RunIds,
         \/ Begin(r) \/ BeginFails(r) \/ LaunchWorker(r) \/ LaunchFails(r)
         \/ TurnEnds(r) \/ Complete(r) \/ (\E escalate \in BOOLEAN : Block(r, escalate))
         \/ Record(r) \/ WorkFails(r)
  PROVE  StepRuns(r)
<1> DEFINE id == Task(r)
<1>0. /\ TypeOK /\ tasks \in Stores /\ id \in TaskIds /\ faults \in Nat
      /\ runs \in [RunIds -> Runs] /\ runs[r] \in Runs /\ Passed(tasks, id)
  BY ParentPassed DEF IInv, TypeOK, RunIds, Task, Families
<1>1. \/ StepWaits(r) \/ StepDecides(r) \/ StepTriesRepair(r) \/ StepCounts(r)
  <2>1. CASE Begin(r) \/ LaunchWorker(r) \/ Record(r)
    <3>1. tasks' = tasks /\ Moved(r, {"launching", "working", "settling"})
      BY <1>0, <2>1 DEF Begin, LaunchWorker, Record, Moved, Goes, Runs
    <3>2. runs[r].at \in {"starting", "launching", "recording"}
      BY <2>1 DEF Begin, LaunchWorker, Record
    <3> QED BY <3>1, <3>2 DEF StepWaits, Moved, Places, Live, Working, InTurn
  <2>2. CASE BeginFails(r) \/ LaunchFails(r) \/ WorkFails(r)
    <3>1. Catch(r, tasks) /\ runs[r].at \in Live \ {"repairing"}
      BY <2>2 DEF BeginFails, LaunchFails, WorkFails, Live, Working, InTurn
    <3> QED BY <1>0, <3>1, CatchKind
  <2>3. CASE TurnEnds(r)
    <3>1. CASE tasks[id].cancel
      BY <1>0, <2>3, <3>1, OutcomeKind DEF TurnEnds
    <3>2. CASE ~tasks[id].cancel
      <4>1. tasks' = tasks /\ Moved(r, {"closing"}) /\ runs[r].at = "working"
        BY <1>0, <2>3, <3>2 DEF TurnEnds, Moved, Goes, Runs
      <4> QED BY <4>1 DEF StepWaits, Moved, Places, Live, Working, InTurn
    <3> QED BY <3>1, <3>2
  <2>4. CASE Complete(r)
    BY <1>0, <2>4, OutcomeKind DEF Complete
  <2>5. ASSUME NEW escalate \in BOOLEAN, Block(r, escalate) PROVE StepDecides(r) \/ StepTriesRepair(r) \/ StepCounts(r)
    <3>1. PICK flag \in BOOLEAN : flag = (tasks[id].escalated \/ escalate)
      OBVIOUS
    <3> DEFINE ts == [tasks EXCEPT ![id].escalated = flag]
    <3>2. [tasks EXCEPT ![id].escalated = @ \/ escalate] = ts
      BY <1>0, <3>1, Zenon DEF Stores
    <3>3. Passed(ts, id)
      <4> HIDE DEF id
      <4>1. ts \in Stores /\ (\A u \in TaskIds \ {id} : ts[u] = tasks[u]) /\ ts[id].status = tasks[id].status
            /\ ts[id].parent = tasks[id].parent /\ ts[id].retries = tasks[id].retries
            /\ ts[id].repairs = tasks[id].repairs
        BY <1>0 DEF Stores, Tasks
      <4> HIDE DEF ts
      <4> QED BY <4>1 DEF Passed
    <3>4. Outcome(r, ts, "blocked", "settling") /\ runs[r].at = "closing"
      BY <2>5, <3>2 DEF Block
    <3> HIDE DEF ts
    <3> QED BY <1>0, <3>3, <3>4, OutcomeKind
  <2> QED BY <2>1, <2>2, <2>3, <2>4, <2>5
<1>2. disk' \in {disk, tasks} /\ faults' >= faults /\ UNCHANGED <<process, used, starts, requests, crashes>>
  <2>1. CASE Begin(r) \/ BeginFails(r) \/ LaunchWorker(r)
    BY <1>0, <2>1 DEF Begin, BeginFails, LaunchWorker, Saved, SaveFault, runFrame
  <2>2. CASE LaunchFails(r) \/ TurnEnds(r) \/ Complete(r) \/ Record(r) \/ WorkFails(r)
    BY <1>0, <2>2 DEF LaunchFails, TurnEnds, Complete, Record, WorkFails, runFrame, fileFrame
  <2>3. CASE \E escalate \in BOOLEAN : Block(r, escalate)
    BY <1>0, <2>3 DEF Block, runFrame, fileFrame
  <2> QED BY <2>1, <2>2, <2>3
<1> QED BY <1>1, <1>2 DEF StepRuns

(* And after it. *)
LEMMA EndKinds ==
  ASSUME IInv, Families, NEW r \in RunIds,
         \/ Settle(r) \/ SettleFails(r) \/ Repaired(r) \/ NotRepaired(r)
         \/ Requeue(r) \/ RequeueFails(r) \/ Fail(r) \/ FailFails(r) \/ CleanUp(r)
  PROVE  StepRuns(r)
<1> DEFINE id == Task(r)
<1>0. /\ TypeOK /\ tasks \in Stores /\ id \in TaskIds /\ faults \in Nat
      /\ runs \in [RunIds -> Runs] /\ runs[r] \in Runs
      /\ Passed(tasks, id) /\ Passed(ParentUpdated(id), id)
  BY ParentPassed DEF IInv, TypeOK, RunIds, Task, Families
<1>1. \/ StepWaits(r) \/ StepFollows(r) \/ StepThrows(r)
      \/ StepTriesRepair(r) \/ StepCounts(r) \/ StepQueues(r)
  <2>1. CASE runs[r].at \in {"settling", "requeuing", "failing"} /\ ~ParentRefuses(id) /\ FollowedByParent(r)
    <3>1. tasks' = ParentUpdated(id) /\ Moved(r, {"cleaning"})
      BY <1>0, <2>1 DEF FollowedByParent, Goes, Moved, Runs
    <3> QED BY <2>1, <3>1 DEF StepFollows
  <2>2. CASE \/ Settle(r) /\ ParentRefuses(id)
             \/ SettleFails(r)
    <3>1. runs[r].at \in Live \ {"repairing"}
      BY <2>2 DEF Settle, SettleFails, Live, Working, InTurn
    <3> QED BY <1>0, <2>2, <3>1, CatchKind DEF Settle, SettleFails
  <2>3. CASE \/ Requeue(r) /\ ParentRefuses(id)
             \/ RequeueFails(r) \/ NotRepaired(r)
    <3>1. runs[r].at \in Live \cup {"requeuing"}
      BY <2>3 DEF Requeue, RequeueFails, NotRepaired, Live, Working, InTurn
    <3>2. runs[r].at = "requeuing" => ParentRefuses(id) \/ faults' # 0
      BY <1>0, <2>3 DEF Requeue, RequeueFails, NotRepaired, SaveFault
    <3> QED BY <1>0, <2>3, <3>1, <3>2, CountsKind DEF Requeue, RequeueFails, NotRepaired
  <2>4. CASE Repaired(r)
    <3> DEFINE new == [tasks[id] EXCEPT !.status = "queued"]
    <3>1. tasks' = [tasks EXCEPT ![id] = new]
      BY <1>0, <2>4 DEF Repaired, Stores
    <3>2. new \in Tasks /\ new.status = "queued" /\ new.retries = tasks[id].retries
          /\ new.parent = tasks[id].parent /\ new.repairs = tasks[id].repairs
      <4>1. tasks[id] \in Tasks
        BY <1>0 DEF Stores
      <4> HIDE DEF id
      <4> QED BY <4>1 DEF Tasks, Statuses
    <3> HIDE DEF new
    <3>3. Differs(id, tasks) /\ tasks'[id] = new
      BY <1>0, <3>1, <3>2 DEF Differs, Stores
    <3>4. Moved(r, {"requeuing"})
      BY <1>0, <2>4 DEF Repaired, Goes, Moved, Runs
    <3> QED BY <2>4, <3>2, <3>3, <3>4 DEF StepQueues, Repaired
  <2>5. CASE Fail(r) /\ ParentRefuses(id)
    <3>1. tasks' = ParentUpdated(id) /\ Moved(r, {"cleaning"}) /\ runs'[r].rejected /\ runs[r].at = "failing"
      BY <1>0, <2>5 DEF Fail, Rejects, Moved, Runs
    <3> QED BY <1>0, <3>1 DEF StepThrows
  <2>6. CASE FailFails(r)
    <3>1. tasks' = tasks /\ Moved(r, {"cleaning"}) /\ runs'[r].rejected /\ runs[r].at = "failing"
      BY <1>0, <2>6 DEF FailFails, Rejects, Moved, Runs
    <3> QED BY <3>1 DEF StepWaits, Moved, Places, Live, Working, InTurn
  <2>7. CASE CleanUp(r)
    <3>1. tasks' = tasks /\ Moved(r, {"removing"}) /\ runs'[r].rejected = runs[r].rejected /\ runs[r].at = "cleaning"
      BY <1>0, <2>7 DEF CleanUp, Goes, Moved, Runs
    <3> QED BY <3>1 DEF StepWaits, Moved, Places, Live, Working, InTurn
  <2>8. /\ Settle(r) /\ ~ParentRefuses(id) => FollowedByParent(r) /\ runs[r].at = "settling"
        /\ Requeue(r) /\ ~ParentRefuses(id) => FollowedByParent(r) /\ runs[r].at = "requeuing"
        /\ Fail(r) /\ ~ParentRefuses(id) => FollowedByParent(r) /\ runs[r].at = "failing"
    BY DEF Settle, Requeue, Fail
  <2> QED BY <2>1, <2>2, <2>3, <2>4, <2>5, <2>6, <2>7, <2>8
<1>2. disk' \in {disk, tasks} /\ faults' >= faults /\ UNCHANGED <<process, used, starts, requests, crashes>>
  BY <1>0 DEF Settle, SettleFails, Repaired, NotRepaired, Requeue, RequeueFails, Fail, FailFails, CleanUp,
              Saved, SaveFault, runFrame, fileFrame
<1> QED BY <1>1, <1>2 DEF StepRuns

LEMMA PumpKind ==
  ASSUME NEW ts \in Stores, NEW q \in Seq(TaskIds), NEW busy, NEW rs \in [RunIds -> Runs],
         starts \in [TaskIds -> Nat], Pump(ts, q, busy, rs)
  PROVE  Pumps(ts, rs)
<1>1. CASE process = "stopping"
  <2>1. /\ {} \in SUBSET TaskIds /\ tasks' \in Stores
        /\ \A id \in TaskIds : tasks'[id] = ts[id] /\ starts'[id] = starts[id]
        /\ \A id \in TaskIds : \A c \in Copies : runs'[<<id, c>>] = rs[<<id, c>>]
    BY <1>1 DEF Pump
  <2> QED BY <2>1 DEF Pumps
<1>2. CASE process # "stopping"
  <2>1. PICK n \in 0..Len(q) :
          /\ \A id \in StartedBy(ts, q, n) : \E c \in Copies : FirstFree(rs, <<id, c>>)
          /\ tasks' = [id \in TaskIds |-> IF id \in StartedBy(ts, q, n)
                                          THEN [ts[id] EXCEPT !.status = "running"]
                                          ELSE ts[id]]
          /\ runs' = [r \in RunIds |-> IF r[1] \in StartedBy(ts, q, n) /\ FirstFree(rs, r)
                                       THEN [NoRun EXCEPT !.at = "starting"] ELSE rs[r]]
          /\ starts' = [id \in TaskIds |-> IF id \in StartedBy(ts, q, n)
                                           THEN starts[id] + 1 ELSE starts[id]]
    BY <1>2 DEF Pump
  <2> DEFINE S == StartedBy(ts, q, n)
  <2>2. S \in SUBSET TaskIds /\ \A id \in S : ts[id].status = "queued"
    <3>1. /\ Len(q) \in Nat /\ \A i \in 1..Len(q) : q[i] \in TaskIds
          /\ n \in Nat /\ n <= Len(q)
      OBVIOUS
    <3> QED BY <3>1 DEF StartedBy
  <2> HIDE DEF S
  <2>3. ASSUME NEW id \in TaskIds
        PROVE  /\ tasks'[id] \in Tasks
               /\ tasks'[id].parent = ts[id].parent /\ tasks'[id].retries = ts[id].retries
               /\ tasks'[id].repairs = ts[id].repairs
               /\ tasks'[id].status = IF id \in S THEN "running" ELSE ts[id].status
               /\ starts'[id] = IF id \in S THEN starts[id] + 1 ELSE starts[id]
    <3>1. ts[id] \in Tasks /\ tasks'[id] = IF id \in S THEN [ts[id] EXCEPT !.status = "running"] ELSE ts[id]
      BY <2>1 DEF S, Stores
    <3>2. starts'[id] = IF id \in S THEN starts[id] + 1 ELSE starts[id]
      BY <2>1 DEF S
    <3> QED BY <3>1, <3>2 DEF Tasks, Statuses
  <2>4. tasks' \in Stores
    BY <2>1, <2>3 DEF Stores
  <2>5. ASSUME NEW id \in TaskIds, NEW c \in Copies
        PROVE  runs'[<<id, c>>] = IF id \in S /\ FirstFree(rs, <<id, c>>)
                                  THEN [NoRun EXCEPT !.at = "starting"] ELSE rs[<<id, c>>]
    BY <2>1 DEF S, RunIds
  <2>6. ASSUME NEW id \in S
        PROVE  \E c \in Copies :
                 /\ rs[<<id, c>>].at = "none" /\ runs'[<<id, c>>].at = "starting"
                 /\ \A d \in Copies \ {c} : runs'[<<id, d>>] = rs[<<id, d>>]
    <3>1. PICK c \in Copies : FirstFree(rs, <<id, c>>)
      BY <2>1 DEF S
    <3>2. \A d \in Copies \ {c} : ~FirstFree(rs, <<id, d>>)
      BY <3>1, SizeAssumption DEF FirstFree, Copies
    <3>3. rs[<<id, c>>].at = "none"
      BY <3>1 DEF FirstFree
    <3>4. [NoRun EXCEPT !.at = "starting"].at = "starting" /\ id \in TaskIds
      BY <2>2 DEF NoRun
    <3> QED BY <2>5, <2>6, <3>1, <3>2, <3>3, <3>4
  <2> QED BY <2>2, <2>3, <2>4, <2>5, <2>6 DEF Pumps
<1> QED BY <1>1, <1>2

LEMMA AskKinds ==
  ASSUME IInv, NEW id \in TaskIds, RetryTask(id) \/ CancelQueued(id) \/ CancelRunning(id)
  PROVE  StepAsks(id)
<1>1. tasks \in Stores /\ tasks[id] \in Tasks
  BY DEF IInv, TypeOK, Stores
<1>2. /\ process # "down" /\ requests' = requests + 1 /\ tasks[id].status # "absent"
      /\ UNCHANGED <<process, runs, starts, used, disk, faults, crashes>>
  BY DEF RetryTask, CancelQueued, CancelRunning, Requested
<1>3. PICK no \in BOOLEAN, yes \in BOOLEAN : no = FALSE /\ yes = TRUE
  OBVIOUS
<1>4. \E new \in Tasks :
        /\ tasks' = [tasks EXCEPT ![id] = new]
        /\ new.parent = tasks[id].parent /\ new.retries = tasks[id].retries /\ new.repairs = tasks[id].repairs
        /\ \/ new.status \in {"queued", tasks[id].status}
           \/ tasks[id].status = "queued" /\ new.status = "cancelled"
  <2>1. CASE RetryTask(id)
    <3> DEFINE new == [tasks[id] EXCEPT !.status = "queued", !.cancel = no, !.escalated = no]
    <3>1. tasks' = [tasks EXCEPT ![id] = new]
      <4>1. tasks' = [tasks EXCEPT ![id].status = "queued", ![id].cancel = FALSE, ![id].escalated = FALSE]
        BY <2>1 DEF RetryTask
      <4>2. tasks' = [tasks EXCEPT ![id].status = "queued", ![id].cancel = no, ![id].escalated = no]
        BY <1>3, <4>1, Zenon
      <4> QED BY <1>1, <4>2 DEF Stores
    <3>2. new \in Tasks /\ new.parent = tasks[id].parent /\ new.retries = tasks[id].retries
          /\ new.repairs = tasks[id].repairs /\ new.status = "queued"
      BY <1>1 DEF Tasks, Statuses
    <3> HIDE DEF new
    <3> QED BY <3>1, <3>2
  <2>2. CASE CancelQueued(id)
    <3> DEFINE new == [tasks[id] EXCEPT !.status = "cancelled"]
    <3>1. tasks' = [tasks EXCEPT ![id] = new] /\ tasks[id].status = "queued"
      BY <1>1, <2>2 DEF CancelQueued, Stores
    <3>2. new \in Tasks /\ new.parent = tasks[id].parent /\ new.retries = tasks[id].retries
          /\ new.repairs = tasks[id].repairs /\ new.status = "cancelled"
      BY <1>1 DEF Tasks, Statuses
    <3> HIDE DEF new
    <3> QED BY <3>1, <3>2
  <2>3. CASE CancelRunning(id)
    <3> DEFINE new == [tasks[id] EXCEPT !.cancel = yes]
    <3>1. tasks' = [tasks EXCEPT ![id] = new]
      <4>1. tasks' = [tasks EXCEPT ![id].cancel = TRUE]
        BY <2>3 DEF CancelRunning
      <4>2. tasks' = [tasks EXCEPT ![id].cancel = yes]
        BY <1>3, <4>1, Zenon
      <4> QED BY <1>1, <4>2 DEF Stores
    <3>2. new \in Tasks /\ new.parent = tasks[id].parent /\ new.retries = tasks[id].retries
          /\ new.repairs = tasks[id].repairs /\ new.status = tasks[id].status
      BY <1>1 DEF Tasks
    <3> HIDE DEF new
    <3> QED BY <3>1, <3>2
  <2> QED BY <2>1, <2>2, <2>3
<1>5. PICK new \in Tasks :
        /\ tasks' = [tasks EXCEPT ![id] = new]
        /\ new.parent = tasks[id].parent /\ new.retries = tasks[id].retries /\ new.repairs = tasks[id].repairs
        /\ \/ new.status \in {"queued", tasks[id].status}
           \/ tasks[id].status = "queued" /\ new.status = "cancelled"
  BY <1>4
<1>6. Differs(id, tasks) /\ tasks'[id] = new
  BY <1>1, <1>5 DEF Differs, Stores
<1> QED BY <1>2, <1>5, <1>6 DEF StepAsks

LEMMA AddKinds ==
  ASSUME IInv, IInv', SubmitTask \/ \E n \in Fanouts : SubmitFanout(n)
  PROVE  StepAdds
<1>0. /\ tasks \in Stores /\ tasks' \in Stores /\ used \in Nat /\ used' \in Nat
      /\ TaskIds \subseteq Nat /\ used <= MaxTasks /\ MaxTasks \in Nat
  BY SizeAssumption DEF IInv, TypeOK, TaskIds
<1>1. CASE SubmitTask
  <2>1. used + 1 \in TaskIds /\ used' = used + 1 /\ tasks' = [tasks EXCEPT ![used + 1] = NewTask("queued", 0)]
    BY <1>0, <1>1 DEF SubmitTask, TaskIds
  <2>2. \A id \in TaskIds : id > used /\ id <= used' <=> id = used + 1
    BY <1>0, <2>1
  <2>3. tasks'[used + 1] = NewTask("queued", 0) /\ \A id \in TaskIds : id # used + 1 => tasks'[id] = tasks[id]
    BY <1>0, <2>1 DEF Stores
  <2>4. process # "down" /\ UNCHANGED <<process, runs, starts, disk, requests, faults, crashes>>
    BY <1>1 DEF SubmitTask
  <2>5. used' > used
    BY <1>0, <2>1
  <2> QED BY <1>0, <2>2, <2>3, <2>4, <2>5 DEF StepAdds
<1>2. ASSUME NEW n \in Fanouts, SubmitFanout(n) PROVE StepAdds
  <2> DEFINE p == used + 1
  <2>0. n \in Nat /\ p + n <= MaxTasks
    BY <1>2, FanoutAssumption DEF SubmitFanout
  <2>1. p \in TaskIds /\ used' = p + n /\ used' > used /\ p > used
    BY <1>0, <1>2, <2>0 DEF SubmitFanout, TaskIds
  <2>2. \A id \in TaskIds : tasks'[id] = IF id = p THEN NewTask("blocked", 0)
                                         ELSE IF id > p /\ id <= p + n THEN NewTask("queued", p) ELSE tasks[id]
    BY <1>2 DEF SubmitFanout
  <2>3. \A id \in TaskIds : id > used /\ id <= used' <=> id = p \/ (id > p /\ id <= p + n)
    BY <1>0, <2>0, <2>1
  <2>4. process # "down" /\ UNCHANGED <<process, runs, starts, disk, requests, faults, crashes>>
    BY <1>2 DEF SubmitFanout
  <2>5. \A id \in TaskIds : id > p => p < id
    BY <1>0, <2>1
  <2> HIDE DEF p
  <2>6. tasks'[p] = NewTask("blocked", 0)
    BY <2>1, <2>2
  <2>7. \A id \in TaskIds : ~(id > used /\ id <= used') => tasks'[id] = tasks[id]
    BY <2>2, <2>3
  <2>8. \A id \in TaskIds : id > used /\ id <= used' =>
          \/ tasks'[id] = NewTask("blocked", 0)
          \/ p > used /\ p < id /\ tasks'[id] = NewTask("queued", p) /\ tasks'[p] = NewTask("blocked", 0)
    BY <2>1, <2>2, <2>3, <2>5, <2>6
  <2> QED BY <1>0, <2>1, <2>4, <2>7, <2>8 DEF StepAdds
<1> QED BY <1>1, <1>2

(* Every step is of one of these kinds. *)
LEMMA Kinds ==
  ASSUME IInv, IInv', Families, Next
  PROVE  \/ StepLoads \/ StepPumps \/ StepAdds \/ StepIdles \/ StepEnds
         \/ \E id \in TaskIds : StepAsks(id)
         \/ \E r \in RunIds : StepRuns(r)
<1>0. /\ TypeOK /\ tasks \in Stores /\ queue \in Seq(TaskIds) /\ runs \in [RunIds -> Runs]
      /\ starts \in [TaskIds -> Nat] /\ faults \in Nat /\ disk \in Stores
      /\ runs \in [RunIds -> Runs] /\ NoRun \in Runs
  BY DEF IInv, TypeOK, NoRun, Runs
<1>1. CASE Initialize
  <2>1. PICK q \in LoadedQueues(Recovered(disk)) : Pump(Recovered(disk), q, {}, runs)
    BY <1>1 DEF Initialize
  <2>2. q \in Seq(TaskIds)
    BY DEF LoadedQueues
  <2>3. Recovered(disk) \in Stores
    <3>1. \A id \in TaskIds : disk[id] \in Tasks /\ [disk[id] EXCEPT !.status = "queued"] \in Tasks
      BY <1>0 DEF Stores, Tasks, Statuses
    <3> QED BY <3>1 DEF Recovered, Stores
  <2>4. Pumps(Recovered(disk), runs)
    BY <1>0, <2>1, <2>2, <2>3, PumpKind
  <2> QED BY <1>1, <2>4 DEF Initialize, StepLoads
<1>2. CASE Stop \/ Flush \/ (\E id \in TaskIds : SweepStarts(id)) \/ SweepEnds
  <2>1. process # "down"
    BY <1>2 DEF Stop, Flush, SweepStarts, SweepEnds, IInv, DownIsEmpty
  <2> QED BY <1>0, <1>2, <2>1 DEF Stop, Flush, SweepStarts, SweepEnds, Saved, runFrame, fileFrame, StepIdles
<1>3. CASE Crash
  BY <1>0, <1>3 DEF Crash, StepEnds
<1>4. ASSUME NEW call \in Calls, CallReturns(call) \/ CallFails(call) PROVE StepPumps \/ StepIdles
  <2>1. process # "down"
    BY <1>4 DEF CallReturns, CallFails, IInv, DownIsEmpty
  <2>2. disk' \in {disk, tasks} /\ faults' >= faults /\ UNCHANGED <<process, used, requests, crashes>>
    BY <1>0, <1>4 DEF CallReturns, CallFails, Saved, SaveFault
  <2>3. UNCHANGED <<tasks, runs, starts>> \/ Pump(tasks, queue, running, runs)
    BY <1>4 DEF CallReturns, CallFails
  <2>4. CASE UNCHANGED <<tasks, runs, starts>>
    BY <2>1, <2>2, <2>4 DEF StepIdles
  <2>5. CASE Pump(tasks, queue, running, runs)
    <3>1. Pumps(tasks, runs) /\ Released(runs)
      BY <1>0, <2>5, PumpKind DEF Released
    <3> QED BY <1>0, <2>1, <2>2, <3>1 DEF StepPumps
  <2> QED BY <2>3, <2>4, <2>5
<1>5. ASSUME NEW r \in RunIds, RunEnds(r) \/ RunRejects(r) PROVE StepPumps \/ StepEnds
  <2>1. /\ runs[r].at \in {"cleaning", "removing"} /\ disk' \in {disk, tasks} /\ faults' >= faults
    BY <1>0, <1>5 DEF RunEnds, RunRejects, LastStep, Saved, SaveFault
  <2>2. process # "down"
    BY <2>1 DEF IInv, DownIsEmpty, NoRun
  <2>3. CASE RunEnds(r)
    <3> DEFINE rs == [runs EXCEPT ![r] = NoRun]
    <3>1. rs \in [RunIds -> Runs] /\ Released(rs)
      BY <1>0, <2>1, <2>3 DEF Released, RunEnds
    <3>2. Pump(tasks, queue, running \ {Task(r)}, rs) /\ UNCHANGED <<process, used, requests, crashes>>
      BY <2>3 DEF RunEnds
    <3> HIDE DEF rs
    <3>3. Pumps(tasks, rs)
      BY <1>0, <3>1, <3>2, PumpKind
    <3> QED BY <2>1, <2>2, <3>1, <3>2, <3>3 DEF StepPumps
  <2>4. CASE RunRejects(r)
    BY <2>1, <2>2, <2>4 DEF StepEnds, RunRejects
  <2> QED BY <1>5, <2>3, <2>4
<1>6. ASSUME NEW r \in RunIds, RunStep(r) PROVE StepPumps \/ StepEnds \/ StepRuns(r)
  BY <1>5, <1>6, TurnKinds, EndKinds DEF RunStep
<1>7. ASSUME NEW id \in TaskIds, RetryTask(id) \/ CancelQueued(id) \/ CancelRunning(id) PROVE StepAsks(id)
  BY <1>7, AskKinds
<1>8. CASE SubmitTask \/ \E n \in Fanouts : SubmitFanout(n)
  BY <1>8, AddKinds
<1> QED BY <1>1, <1>2, <1>3, <1>4, <1>6, <1>7, <1>8 DEF Next


------------------------------------------------------------------------------
(* Families stay. *)

LEMMA FamilyKept ==
  ASSUME NEW a \in Stores, NEW b \in Stores, Family(a),
         \A id \in TaskIds : /\ b[id].parent = a[id].parent
                             /\ a[id].status # "absent" => b[id].status # "absent"
  PROVE  Family(b)
BY DEF Family, Stores, Tasks

LEMMA FanInOpen == \A p : FanInStatus(p) \in {"blocked", "failed", "done"}
BY DEF FanInStatus

(* A step of an execution: its own task changes, and perhaps the status of the parent. *)
LEMMA RunChanges ==
  ASSUME TypeOK, Family(tasks), NEW r \in RunIds, StepRuns(r)
  PROVE  /\ Task(r) \in TaskIds /\ tasks' \in Stores
         /\ \A u \in TaskIds : tasks'[u].parent = tasks[u].parent
         /\ \A u \in TaskIds \ {Task(r)} :
              /\ tasks'[u].retries = tasks[u].retries /\ tasks'[u].repairs = tasks[u].repairs
              /\ \/ tasks'[u].status = tasks[u].status
                 \/ /\ u = tasks[Task(r)].parent /\ ~ParentRefuses(Task(r))
                    /\ tasks'[u].status = FanInStatus(u)
         /\ StepWaits(r) \/ StepFollows(r) \/ StepThrows(r) =>
              /\ tasks'[Task(r)].status = tasks[Task(r)].status
              /\ tasks'[Task(r)].retries = tasks[Task(r)].retries
              /\ tasks'[Task(r)].repairs = tasks[Task(r)].repairs
<1> DEFINE id == Task(r)
<1>1. id \in TaskIds /\ tasks \in Stores
  BY DEF TypeOK, RunIds, Task
<1>2. Passed(tasks, id) /\ Passed(ParentUpdated(id), id)
  BY <1>1, ParentPassed
<1> HIDE DEF id
<1>3. ASSUME NEW ts \in Stores, Passed(ts, id), tasks' = ts \/ Differs(id, ts)
      PROVE  /\ tasks' \in Stores
             /\ \A u \in TaskIds : tasks'[u].parent = tasks[u].parent
             /\ \A u \in TaskIds \ {id} :
                  /\ tasks'[u].retries = tasks[u].retries /\ tasks'[u].repairs = tasks[u].repairs
                  /\ \/ tasks'[u].status = tasks[u].status
                     \/ u = tasks[id].parent /\ ~ParentRefuses(id) /\ tasks'[u].status = FanInStatus(u)
             /\ tasks' = ts => /\ tasks'[id].status = tasks[id].status
                               /\ tasks'[id].retries = tasks[id].retries
                               /\ tasks'[id].repairs = tasks[id].repairs
  BY <1>1, <1>3 DEF Passed, Differs
<1>4. CASE StepWaits(r)
  BY <1>1, <1>2, <1>3, <1>4 DEF StepWaits, id
<1>5. CASE StepFollows(r)
  <2>1. tasks' = ParentUpdated(id) /\ ParentUpdated(id) \in Stores
    BY <1>2, <1>5 DEF StepFollows, Passed, id
  <2> QED BY <1>1, <1>2, <1>3, <2>1 DEF id
<1>6. CASE StepThrows(r)
  <2>1. Passed(tasks', id) /\ tasks' \in Stores
    BY <1>6 DEF StepThrows, Passed, id
  <2> QED BY <1>1, <1>3, <2>1 DEF id
<1>7. CASE ~(StepWaits(r) \/ StepFollows(r) \/ StepThrows(r))
  <2>1. \E ts \in Stores : Passed(ts, id) /\ Differs(id, ts)
    BY <1>1, <1>2, <1>7 DEF StepRuns, StepDecides, StepTriesRepair, StepCounts, StepQueues, id
  <2> QED BY <1>1, <1>3, <1>7, <2>1 DEF id
<1> QED BY <1>4, <1>5, <1>6, <1>7

LEMMA NextFamilies ==
  ASSUME IInv, Families,
         \/ StepLoads \/ StepPumps \/ StepAdds \/ StepIdles \/ StepEnds
         \/ \E id \in TaskIds : StepAsks(id)
         \/ \E r \in RunIds : StepRuns(r)
  PROVE  Families'
<1>0. TypeOK /\ tasks \in Stores /\ disk \in Stores /\ Family(tasks) /\ Family(disk)
      /\ used \in Nat /\ TaskIds \subseteq Nat
  BY SizeAssumption DEF IInv, TypeOK, Families, TaskIds
<1>1. disk' \in {disk, tasks}
  BY DEF StepLoads, StepPumps, StepAdds, StepIdles, StepEnds, StepAsks, StepRuns
<1>2. Family(disk')
  BY <1>0, <1>1
<1>3. CASE StepLoads
  <2>1. /\ tasks' \in Stores
        /\ \A id \in TaskIds : /\ tasks'[id].parent = Recovered(disk)[id].parent
                               /\ tasks'[id].status \in {"running", Recovered(disk)[id].status}
    BY <1>3 DEF StepLoads, Pumps
  <2>2. \A id \in TaskIds : /\ Recovered(disk)[id].parent = disk[id].parent
                            /\ Recovered(disk)[id].status \in {"queued", disk[id].status}
    BY <1>0 DEF Recovered, Stores, Tasks
  <2>3. Family(tasks')
    BY <1>0, <2>1, <2>2, FamilyKept
  <2> QED BY <1>2, <2>3 DEF Families
<1>4. CASE StepPumps
  <2>1. /\ tasks' \in Stores
        /\ \A id \in TaskIds : tasks'[id].parent = tasks[id].parent /\ tasks'[id].status \in {"running", tasks[id].status}
    BY <1>4 DEF StepPumps, Pumps
  <2>2. Family(tasks')
    BY <1>0, <2>1, FamilyKept
  <2> QED BY <1>2, <2>2 DEF Families
<1>5. CASE StepAdds
  <2>1. \A p \in {0} \cup TaskIds : /\ NewTask("queued", p).parent = p /\ NewTask("blocked", p).parent = p
                                    /\ NewTask("queued", p).status # "absent" /\ NewTask("blocked", p).status # "absent"
    BY DEF NewTask
  <2>2. ASSUME NEW id \in TaskIds, tasks'[id].parent # 0
        PROVE  LET p == tasks'[id].parent IN p < id /\ tasks'[p].status # "absent" /\ tasks'[p].parent = 0
    <3>1. CASE id > used /\ id <= used'
      <4>1. PICK p \in TaskIds : /\ p > used /\ p < id
                                 /\ tasks'[id] = NewTask("queued", p) /\ tasks'[p] = NewTask("blocked", 0)
        BY <1>5, <2>1, <2>2, <3>1 DEF StepAdds
      <4>2. tasks'[id].parent = p /\ tasks'[p].parent = 0 /\ tasks'[p].status = "blocked"
        BY <4>1 DEF NewTask
      <4> QED BY <4>1, <4>2
    <3>2. CASE ~(id > used /\ id <= used')
      <4>1. tasks'[id] = tasks[id]
        BY <1>5, <3>2 DEF StepAdds
      <4> DEFINE p == tasks[id].parent
      <4>2. p \in TaskIds /\ p < id /\ tasks[p].status # "absent" /\ tasks[p].parent = 0
        BY <1>0, <2>2, <4>1 DEF Family, Stores, Tasks
      <4>3. ~(p > used)
        BY <4>2 DEF IInv, Good, Unused
      <4>4. tasks'[p] = tasks[p]
        BY <1>5, <4>2, <4>3 DEF StepAdds
      <4> QED BY <4>1, <4>2, <4>4
    <3> QED BY <3>1, <3>2
  <2> QED BY <1>2, <2>2 DEF Families, Family
<1>6. CASE StepIdles
  BY <1>0, <1>2, <1>6 DEF StepIdles, Families
<1>7. CASE StepEnds
  <2>1. \A id \in TaskIds : tasks'[id].parent = 0
    BY <1>7 DEF StepEnds, ProcessEnds, EmptyStore, NewTask
  <2> QED BY <1>2, <2>1 DEF Families, Family
<1>8. ASSUME NEW id \in TaskIds, StepAsks(id) PROVE Families'
  <2>1. /\ tasks' \in Stores
        /\ \A u \in TaskIds : /\ tasks'[u].parent = tasks[u].parent
                              /\ tasks[u].status # "absent" => tasks'[u].status # "absent"
    BY <1>0, <1>8 DEF StepAsks, Differs
  <2>2. Family(tasks')
    BY <1>0, <2>1, FamilyKept
  <2> QED BY <1>2, <2>2 DEF Families
<1>9. ASSUME NEW r \in RunIds, StepRuns(r) PROVE Families'
  <2>1. /\ Task(r) \in TaskIds /\ tasks' \in Stores
        /\ \A u \in TaskIds : tasks'[u].parent = tasks[u].parent
        /\ \A u \in TaskIds \ {Task(r)} :
             tasks'[u].status = tasks[u].status \/ tasks'[u].status = FanInStatus(u)
        /\ StepWaits(r) \/ StepFollows(r) \/ StepThrows(r) => tasks'[Task(r)].status = tasks[Task(r)].status
    BY <1>0, <1>9, RunChanges
  <2>2. \/ tasks'[Task(r)].status = tasks[Task(r)].status
        \/ tasks'[Task(r)].status \in {"blocked", "done", "cancelled", "queued", "failed"}
    BY <1>9, <2>1 DEF StepRuns, StepDecides, StepTriesRepair, StepCounts, StepQueues
  <2>3. Family(tasks')
    BY <1>0, <2>1, <2>2, FanInOpen, FamilyKept
  <2> QED BY <1>2, <2>3 DEF Families
<1> QED BY <1>3, <1>4, <1>5, <1>6, <1>7, <1>8, <1>9


------------------------------------------------------------------------------
(* One turn at a time. *)

Open == {"blocked", "failed", "done"}

(* A parent that nobody retried is never queued, so never executed, and can always follow its children. *)
Untouched ==
  requests = 0 => \A id \in TaskIds :
    /\ tasks[id].parent # 0 => /\ tasks[tasks[id].parent].status \in Open
                               /\ \A c \in Copies : runs[<<tasks[id].parent, c>>].at = "none"
    /\ disk[id].parent # 0 => disk[disk[id].parent].status \in Open

(* At most one execution may still decide on a task, and none on a queued one. *)
Solo ==
  requests = 0 /\ faults = 0 =>
    \A id \in TaskIds : \A c \in Copies : runs[<<id, c>>].at \in Live =>
      /\ tasks[id].status # "queued"
      /\ \A d \in Copies : runs[<<id, d>>].at \in Live => c = d

LEMMA UntouchedFollows ==
  ASSUME TypeOK, Untouched, requests = 0, NEW id \in TaskIds
  PROVE  ~ParentRefuses(id)
<1> DEFINE p == tasks[id].parent
<1> SUFFICES ASSUME p # 0 PROVE CanMove(tasks[p].status, FanInStatus(p))
  BY DEF ParentRefuses
<1>1. tasks[p].status \in Open /\ FanInStatus(p) \in Open
  BY FanInOpen DEF Untouched, Open
<1> QED BY <1>1 DEF CanMove, AllowedTransitions, Open

LEMMA NextUntouched ==
  ASSUME IInv, Families, Untouched,
         \/ StepLoads \/ StepPumps \/ StepAdds \/ StepIdles \/ StepEnds
         \/ \E id \in TaskIds : StepAsks(id)
         \/ \E r \in RunIds : StepRuns(r)
  PROVE  Untouched'
<1>0. /\ TypeOK /\ tasks \in Stores /\ disk \in Stores /\ Family(tasks) /\ Family(disk) /\ requests \in Nat
      /\ runs \in [RunIds -> Runs] /\ used \in Nat /\ TaskIds \subseteq Nat
  BY SizeAssumption DEF IInv, TypeOK, Families, TaskIds
<1> SUFFICES ASSUME requests' = 0
             PROVE  \A id \in TaskIds :
                      /\ tasks'[id].parent # 0 =>
                           /\ tasks'[tasks'[id].parent].status \in Open
                           /\ \A c \in Copies : runs'[<<tasks'[id].parent, c>>].at = "none"
                      /\ disk'[id].parent # 0 => disk'[disk'[id].parent].status \in Open
  BY DEF Untouched
<1>1. CASE \E id \in TaskIds : StepAsks(id)
  BY <1>0, <1>1 DEF StepAsks
<1> SUFFICES ASSUME ~\E id \in TaskIds : StepAsks(id)
             PROVE  \A id \in TaskIds :
                      /\ tasks'[id].parent # 0 =>
                           /\ tasks'[tasks'[id].parent].status \in Open
                           /\ \A c \in Copies : runs'[<<tasks'[id].parent, c>>].at = "none"
                      /\ disk'[id].parent # 0 => disk'[disk'[id].parent].status \in Open
  BY <1>1
<1>2. requests = 0
  BY DEF StepLoads, StepPumps, StepAdds, StepIdles, StepEnds, ProcessEnds, StepRuns
<1>3. disk' \in {disk, tasks}
  BY DEF StepLoads, StepPumps, StepAdds, StepIdles, StepEnds, StepRuns
<1>4. \A id \in TaskIds : disk'[id].parent # 0 => disk'[disk'[id].parent].status \in Open
  BY <1>2, <1>3 DEF Untouched
<1> SUFFICES ASSUME NEW id \in TaskIds, tasks'[id].parent # 0
             PROVE  /\ tasks'[tasks'[id].parent].status \in Open
                    /\ \A c \in Copies : runs'[<<tasks'[id].parent, c>>].at = "none"
  BY <1>4
<1> DEFINE p == tasks[id].parent
<1>5. p # 0 => /\ p \in TaskIds /\ tasks[p].status \in Open /\ p <= used
               /\ \A c \in Copies : runs[<<p, c>>].at = "none"
  <2>1. p # 0 => p \in TaskIds /\ tasks[p].status # "absent"
    BY <1>0 DEF Family, Stores, Tasks
  <2> HIDE DEF p
  <2>2. \A t \in TaskIds : tasks[t].status # "absent" => t <= used
    BY <1>0 DEF IInv, Good, Unused
  <2> QED BY <1>2, <2>1, <2>2 DEF Untouched, p
<1>6. CASE StepLoads
  <2> DEFINE q == disk[id].parent
  <2>1. PICK started \in SUBSET TaskIds :
          /\ \A u \in started : Recovered(disk)[u].status = "queued"
          /\ \A u \in TaskIds :
               /\ tasks'[u].parent = Recovered(disk)[u].parent
               /\ tasks'[u].status = IF u \in started THEN "running" ELSE Recovered(disk)[u].status
          /\ \A u \in TaskIds \ started : \A c \in Copies : runs'[<<u, c>>] = runs[<<u, c>>]
    BY <1>6 DEF StepLoads, Pumps
  <2>2. \A u \in TaskIds : /\ Recovered(disk)[u].parent = disk[u].parent
                           /\ Recovered(disk)[u].status = IF disk[u].status = "running" THEN "queued" ELSE disk[u].status
    BY <1>0 DEF Recovered, Stores, Tasks
  <2>3. tasks'[id].parent = q /\ q # 0
    BY <2>1, <2>2
  <2>4. q \in TaskIds
    BY <1>0, <2>3 DEF Stores, Tasks
  <2>5. disk[q].status \in Open
    BY <1>2, <2>3 DEF Untouched
  <2>6. q \notin started /\ tasks'[q].status = disk[q].status
    BY <2>1, <2>2, <2>4, <2>5 DEF Open
  <2>7. \A c \in Copies : runs'[<<q, c>>].at = "none"
    <3>1. \A c \in Copies : <<q, c>> \in RunIds
      BY <2>4 DEF RunIds
    <3> QED BY <1>6, <2>1, <2>4, <2>6, <3>1 DEF StepLoads, IInv, DownIsEmpty, NoRun
  <2> QED BY <2>3, <2>5, <2>6, <2>7
<1>7. CASE StepPumps
  <2>1. PICK rs \in [RunIds -> Runs] : Released(rs) /\ Pumps(tasks, rs)
    BY <1>7 DEF StepPumps
  <2>2. PICK started \in SUBSET TaskIds :
          /\ \A u \in started : tasks[u].status = "queued"
          /\ \A u \in TaskIds :
               /\ tasks'[u].parent = tasks[u].parent
               /\ tasks'[u].status = IF u \in started THEN "running" ELSE tasks[u].status
          /\ \A u \in TaskIds \ started : \A c \in Copies : runs'[<<u, c>>] = rs[<<u, c>>]
    BY <2>1 DEF Pumps
  <2>3. p # 0 /\ tasks'[id].parent = p
    BY <2>2
  <2>4. p \notin started /\ tasks'[p].status = tasks[p].status
    BY <1>5, <2>2, <2>3 DEF Open
  <2>5. \A c \in Copies : rs[<<p, c>>].at = "none"
    <3>1. \A c \in Copies : <<p, c>> \in RunIds
      BY <1>5, <2>3 DEF RunIds
    <3> HIDE DEF p
    <3> QED BY <1>0, <1>5, <2>1, <2>3, <3>1 DEF Released, NoRun
  <2> HIDE DEF p
  <2> QED BY <1>5, <2>2, <2>3, <2>4, <2>5
<1>8. CASE StepAdds
  <2>1. CASE id > used /\ id <= used'
    <3>1. PICK q \in TaskIds : /\ q > used /\ q < id
                               /\ tasks'[id] = NewTask("queued", q) /\ tasks'[q] = NewTask("blocked", 0)
      BY <1>8, <2>1 DEF StepAdds, NewTask
    <3>2. tasks'[id].parent = q /\ tasks'[q].status = "blocked"
      BY <3>1 DEF NewTask
    <3>3. \A c \in Copies : <<q, c>> \in RunIds /\ Task(<<q, c>>) = q
      BY DEF RunIds, Task
    <3>4. \A c \in Copies : runs[<<q, c>>].at = "none"
      <4>1. ~(q <= used)
        BY <1>0, <3>1
      <4> QED BY <3>3, <4>1 DEF IInv, Good, RunsUsed
    <3> QED BY <1>8, <3>2, <3>4 DEF StepAdds, Open
  <2>2. CASE ~(id > used /\ id <= used')
    <3>1. tasks'[id].parent = p /\ p # 0
      BY <1>8, <2>2 DEF StepAdds
    <3>2. ~(p > used)
      BY <1>0, <1>5, <3>1
    <3>3. tasks'[p] = tasks[p] /\ runs' = runs
      BY <1>5, <1>8, <3>1, <3>2 DEF StepAdds
    <3> QED BY <1>5, <3>1, <3>3
  <2> QED BY <2>1, <2>2
<1>9. CASE StepIdles
  BY <1>5, <1>9 DEF StepIdles
<1>10. CASE StepEnds
  BY <1>10 DEF StepEnds, ProcessEnds, EmptyStore, NewTask
<1>11. ASSUME NEW r \in RunIds, StepRuns(r)
       PROVE  /\ tasks'[tasks'[id].parent].status \in Open
              /\ \A c \in Copies : runs'[<<tasks'[id].parent, c>>].at = "none"
  <2>1. /\ Task(r) \in TaskIds
        /\ \A u \in TaskIds : tasks'[u].parent = tasks[u].parent
        /\ \A u \in TaskIds \ {Task(r)} :
             tasks'[u].status = tasks[u].status \/ tasks'[u].status = FanInStatus(u)
    BY <1>0, <1>11, RunChanges
  <2>2. runs[r].at # "none" /\ \A s \in RunIds \ {r} : runs'[s] = runs[s]
    BY <1>11 DEF StepRuns, StepWaits, StepFollows, StepThrows, StepDecides, StepTriesRepair, StepCounts,
                 StepQueues, Moved
  <2>3. p # 0 /\ tasks'[id].parent = p
    BY <2>1
  <2>4. \A c \in Copies : <<p, c>> \in RunIds /\ <<p, c>> # r
    BY <1>5, <2>2, <2>3 DEF RunIds
  <2>5. p # Task(r)
    BY <2>2, <2>3, <1>5 DEF RunIds, Task
  <2> QED BY <1>5, <2>1, <2>2, <2>3, <2>4, <2>5, FanInOpen DEF Open
<1> QED BY <1>6, <1>7, <1>8, <1>9, <1>10, <1>11

LEMMA NextSolo ==
  ASSUME IInv, Families, Untouched, Solo,
         \/ StepLoads \/ StepPumps \/ StepAdds \/ StepIdles \/ StepEnds
         \/ \E id \in TaskIds : StepAsks(id)
         \/ \E r \in RunIds : StepRuns(r)
  PROVE  Solo'
<1>0. /\ TypeOK /\ tasks \in Stores /\ disk \in Stores /\ Family(tasks) /\ requests \in Nat /\ faults \in Nat
      /\ runs \in [RunIds -> Runs] /\ used \in Nat /\ TaskIds \subseteq Nat
      /\ \A id \in TaskIds : \A c \in Copies : <<id, c>> \in RunIds /\ Task(<<id, c>>) = id
      /\ "none" \notin Live /\ "starting" \in Live
  BY SizeAssumption DEF IInv, TypeOK, Families, TaskIds, RunIds, Task, Live, Working, InTurn
<1> SUFFICES ASSUME requests' = 0, faults' = 0, NEW id \in TaskIds, NEW c \in Copies, runs'[<<id, c>>].at \in Live
             PROVE  /\ tasks'[id].status # "queued"
                    /\ \A d \in Copies : runs'[<<id, d>>].at \in Live => c = d
  BY DEF Solo
<1>1. CASE \E u \in TaskIds : StepAsks(u)
  BY <1>0, <1>1 DEF StepAsks
<1> SUFFICES ASSUME ~\E u \in TaskIds : StepAsks(u)
             PROVE  /\ tasks'[id].status # "queued"
                    /\ \A d \in Copies : runs'[<<id, d>>].at \in Live => c = d
  BY <1>1
<1>2. requests = 0 /\ faults = 0
  <2>1. requests' = requests
    BY DEF StepLoads, StepPumps, StepAdds, StepIdles, StepEnds, ProcessEnds, StepRuns
  <2>2. faults' >= faults
    BY <1>0 DEF StepLoads, StepPumps, StepAdds, StepIdles, StepEnds, StepRuns
  <2> QED BY <1>0, <2>1, <2>2
<1>3. \A a \in Copies : runs[<<id, a>>].at \in Live =>
        /\ tasks[id].status # "queued"
        /\ \A b \in Copies : runs[<<id, b>>].at \in Live => a = b
  BY <1>2 DEF Solo
<1>4. ASSUME NEW ts, NEW rs, Pumps(ts, rs),
             \A a \in Copies : rs[<<id, a>>].at \in Live =>
               /\ ts[id].status # "queued"
               /\ \A b \in Copies : rs[<<id, b>>].at \in Live => a = b
      PROVE  /\ tasks'[id].status # "queued"
             /\ \A d \in Copies : runs'[<<id, d>>].at \in Live => c = d
  <2>1. PICK started \in SUBSET TaskIds :
          /\ \A u \in started : ts[u].status = "queued"
          /\ \A u \in TaskIds :
               /\ tasks'[u].parent = ts[u].parent /\ tasks'[u].retries = ts[u].retries
               /\ tasks'[u].repairs = ts[u].repairs
               /\ tasks'[u].status = IF u \in started THEN "running" ELSE ts[u].status
               /\ starts'[u] = IF u \in started THEN starts[u] + 1 ELSE starts[u]
          /\ \A u \in TaskIds \ started : \A a \in Copies : runs'[<<u, a>>] = rs[<<u, a>>]
          /\ \A u \in started : \E a \in Copies :
               /\ rs[<<u, a>>].at = "none" /\ runs'[<<u, a>>].at = "starting"
               /\ \A b \in Copies \ {a} : runs'[<<u, b>>] = rs[<<u, b>>]
    BY <1>4 DEF Pumps
  <2>2. CASE id \in started
    <3>1. PICK a \in Copies : \A b \in Copies \ {a} : runs'[<<id, b>>] = rs[<<id, b>>]
      BY <2>1, <2>2
    <3>2. \A b \in Copies : rs[<<id, b>>].at \notin Live
      BY <1>4, <2>1, <2>2
    <3> QED BY <2>1, <2>2, <3>1, <3>2
  <2>3. CASE id \notin started
    BY <1>4, <2>1, <2>3
  <2> QED BY <2>2, <2>3
<1>5. CASE StepLoads
  <2>1. \A a \in Copies : runs[<<id, a>>].at \notin Live
    BY <1>0, <1>5 DEF StepLoads, IInv, DownIsEmpty, NoRun
  <2> QED BY <1>4, <1>5, <2>1 DEF StepLoads
<1>6. CASE StepPumps
  <2>1. PICK rs \in [RunIds -> Runs] : Released(rs) /\ Pumps(tasks, rs)
    BY <1>6 DEF StepPumps
  <2>2. \A a \in Copies : rs[<<id, a>>].at \in Live => runs[<<id, a>>].at \in Live
    BY <1>0, <2>1 DEF Released, NoRun
  <2>3. \A a \in Copies : rs[<<id, a>>].at \in Live =>
          /\ tasks[id].status # "queued"
          /\ \A b \in Copies : rs[<<id, b>>].at \in Live => a = b
    BY <1>3, <2>2
  <2> QED BY <1>4, <2>1, <2>3
<1>7. CASE StepAdds
  <2>1. runs' = runs /\ runs[<<id, c>>].at # "none"
    BY <1>0, <1>7 DEF StepAdds
  <2>2. ~(id > used)
    BY <1>0, <2>1 DEF IInv, Good, RunsUsed
  <2>3. tasks'[id] = tasks[id]
    BY <1>7, <2>2 DEF StepAdds
  <2> QED BY <1>3, <2>1, <2>3
<1>8. CASE StepIdles
  BY <1>3, <1>8 DEF StepIdles
<1>9. CASE StepEnds
  BY <1>0, <1>9 DEF StepEnds, ProcessEnds, NoRun
<1>10. ASSUME NEW r \in RunIds, StepRuns(r)
       PROVE  /\ tasks'[id].status # "queued"
              /\ \A d \in Copies : runs'[<<id, d>>].at \in Live => c = d
  <2>1. /\ Task(r) \in TaskIds
        /\ \A u \in TaskIds \ {Task(r)} :
             tasks'[u].status = tasks[u].status \/ tasks'[u].status = FanInStatus(u)
        /\ StepWaits(r) \/ StepFollows(r) \/ StepThrows(r) => tasks'[Task(r)].status = tasks[Task(r)].status
    BY <1>0, <1>10, RunChanges
  <2>2. \A s \in RunIds \ {r} : runs'[s] = runs[s]
    BY <1>10 DEF StepRuns, StepWaits, StepFollows, StepThrows, StepDecides, StepTriesRepair, StepCounts,
                 StepQueues, Moved
  <2>3. CASE Task(r) # id
    <3>1. \A a \in Copies : runs'[<<id, a>>] = runs[<<id, a>>]
      BY <1>0, <2>2, <2>3
    <3> QED BY <1>3, <2>1, <2>3, <3>1, FanInOpen
  <2>4. CASE Task(r) = id
    <3>1. PICK mine \in Copies : r = <<id, mine>>
      BY <2>4 DEF RunIds, Task
    <3>2. \A a \in Copies \ {mine} : runs'[<<id, a>>] = runs[<<id, a>>]
      BY <1>0, <2>2, <3>1
    <3>3. ~ParentRefuses(id)
      BY <1>0, <1>2, UntouchedFollows
    <3>4. CASE StepWaits(r)
      <4>1. \A a \in Copies : runs'[<<id, a>>].at \in Live => runs[<<id, a>>].at \in Live
        BY <3>1, <3>2, <3>4 DEF StepWaits
      <4> QED BY <1>3, <2>1, <2>4, <3>4, <4>1
    <3>5. CASE StepFollows(r) \/ StepThrows(r)
      <4>1. \A a \in Copies : runs'[<<id, a>>].at \in Live => runs[<<id, a>>].at \in Live
        BY <3>1, <3>2, <3>5 DEF StepFollows, StepThrows, Moved, Live, Working, InTurn
      <4> QED BY <1>3, <2>1, <2>4, <3>5, <4>1
    <3>6. CASE StepDecides(r) \/ StepTriesRepair(r)
      <4>1. runs[r].at \in Live
        BY <3>6 DEF StepDecides, StepTriesRepair, Live, Working, InTurn
      <4>2. \A a \in Copies : runs'[<<id, a>>].at \in Live => runs[<<id, a>>].at \in Live
        BY <3>1, <3>2, <4>1
      <4>3. tasks'[id].status = tasks[id].status \/ tasks'[id].status # "queued"
        BY <2>4, <3>6 DEF StepDecides, StepTriesRepair
      <4> QED BY <1>3, <4>2, <4>3
    <3>7. CASE StepCounts(r) \/ StepQueues(r)
      <4>1. runs[r].at \in Live
        BY <2>4, <3>3, <3>7 DEF StepCounts, StepQueues, Live, Working
      <4>2. runs'[r].at \notin Live
        BY <3>7 DEF StepCounts, StepQueues, Moved, Live, Working, InTurn
      <4>3. \A a \in Copies \ {mine} : runs[<<id, a>>].at \notin Live
        BY <1>3, <3>1, <4>1
      <4> QED BY <3>1, <3>2, <4>2, <4>3
    <3> QED BY <1>10, <3>4, <3>5, <3>6, <3>7 DEF StepRuns
  <2> QED BY <2>3, <2>4
<1> QED BY <1>5, <1>6, <1>7, <1>8, <1>9, <1>10


------------------------------------------------------------------------------
(* How often a task is started. *)

(* What a life of the process may start a task for: being submitted or found, a retry, a repair. *)
Life == 1 + MaxRetries + MaxRepairs

Repairing(id) == {c \in Copies : runs[<<id, c>>].at = "repairing"}

(* The starts a task may still have without being asked for. *)
Left(t) ==
  (IF t.status = "queued" THEN 1 ELSE 0)
  + (IF t.retries <= MaxRetries THEN MaxRetries - t.retries ELSE 0)
  + (MaxRepairs - t.repairs)

Granted(n) == Life * n

Budget ==
  \A id \in TaskIds :
    /\ id > used => starts[id] = 0
    /\ process = "down" => starts[id] <= Granted(crashes) + requests
    /\ process # "down" =>
         starts[id] + Left(tasks[id]) + Cardinality(Repairing(id)) <= Granted(crashes + 1) + requests

LEMMA GrantedStep ==
  ASSUME NEW n \in Nat
  PROVE  /\ Life \in Nat /\ Granted(n) \in Nat /\ Granted(n + 1) \in Nat
         /\ Granted(n + 1) = Granted(n) + Life
<1>1. Life \in Nat
  BY BudgetAssumption DEF Life
<1> HIDE DEF Life
<1> QED BY <1>1 DEF Granted

LEMMA LeftBound == ASSUME NEW t \in Tasks PROVE Left(t) \in Nat /\ Left(t) <= Life
BY BudgetAssumption DEF Left, Life, Tasks

LEMMA LeftKept ==
  ASSUME NEW a \in Tasks, NEW b \in Tasks, b.repairs = a.repairs,
         b.retries >= a.retries, b.status = "queued" => a.status = "queued"
  PROVE  Left(b) <= Left(a)
BY BudgetAssumption DEF Left, Tasks

LEMMA LeftSpent ==
  ASSUME NEW a \in Tasks, NEW b \in Tasks
  PROVE  /\ b.repairs = a.repairs /\ b.retries = a.retries + 1 /\ b.retries <= MaxRetries
              => Left(b) <= Left(a)
         /\ b.repairs = a.repairs + 1 /\ b.retries = a.retries /\ b.status = a.status
              => Left(b) + 1 = Left(a)
         /\ b.repairs = a.repairs /\ b.retries = a.retries => Left(b) <= Left(a) + 1
         /\ b.repairs = a.repairs /\ b.retries = a.retries /\ a.status = "queued" /\ b.status # "queued"
              => Left(b) + 1 = Left(a)
BY BudgetAssumption DEF Left, Tasks

LEMMA RepairingType ==
  ASSUME NEW id PROVE IsFiniteSet(Repairing(id)) /\ Cardinality(Repairing(id)) \in Nat
<1>1. IsFiniteSet(Copies)
  BY FS_Interval, SizeAssumption DEF Copies
<1>2. Repairing(id) \subseteq Copies
  BY DEF Repairing
<1>3. IsFiniteSet(Repairing(id))
  BY <1>1, <1>2, FS_Subset
<1> QED BY <1>3, FS_CardinalityType

(* The pump changes a queued task into a start. *)
LEMMA PumpBudget ==
  ASSUME NEW ts \in Stores, NEW rs \in [RunIds -> Runs], Pumps(ts, rs), NEW id \in TaskIds,
         starts \in [TaskIds -> Nat], starts' \in [TaskIds -> Nat]
  PROVE  /\ starts'[id] + Left(tasks'[id]) = starts[id] + Left(ts[id])
         /\ Repairing(id)' = {c \in Copies : rs[<<id, c>>].at = "repairing"}
         /\ starts'[id] # starts[id] => ts[id].status = "queued"
<1>1. PICK started \in SUBSET TaskIds :
        /\ tasks' \in Stores
        /\ \A u \in started : ts[u].status = "queued"
        /\ \A u \in TaskIds :
             /\ tasks'[u].parent = ts[u].parent /\ tasks'[u].retries = ts[u].retries
             /\ tasks'[u].repairs = ts[u].repairs
             /\ tasks'[u].status = IF u \in started THEN "running" ELSE ts[u].status
             /\ starts'[u] = IF u \in started THEN starts[u] + 1 ELSE starts[u]
        /\ \A u \in TaskIds \ started : \A c \in Copies : runs'[<<u, c>>] = rs[<<u, c>>]
        /\ \A u \in started : \E c \in Copies :
             /\ rs[<<u, c>>].at = "none" /\ runs'[<<u, c>>].at = "starting"
             /\ \A d \in Copies \ {c} : runs'[<<u, d>>] = rs[<<u, d>>]
  BY DEF Pumps
<1>2. ts[id] \in Tasks /\ tasks'[id] \in Tasks /\ starts[id] \in Nat
  BY <1>1 DEF Stores
<1>3. Left(ts[id]) \in Nat /\ Left(tasks'[id]) \in Nat
  BY <1>2, LeftBound
<1>4. CASE id \in started
  <2>1. Left(tasks'[id]) + 1 = Left(ts[id]) /\ starts'[id] = starts[id] + 1
    BY <1>1, <1>2, <1>4, LeftSpent
  <2>2. PICK c \in Copies : /\ rs[<<id, c>>].at = "none" /\ runs'[<<id, c>>].at = "starting"
                            /\ \A d \in Copies \ {c} : runs'[<<id, d>>] = rs[<<id, d>>]
    BY <1>1, <1>4
  <2>3. Repairing(id)' = {d \in Copies : rs[<<id, d>>].at = "repairing"}
    BY <2>2 DEF Repairing
  <2> QED BY <1>1, <1>2, <1>3, <1>4, <2>1, <2>3
<1>5. CASE id \notin started
  <2>1. Left(tasks'[id]) = Left(ts[id]) /\ starts'[id] = starts[id]
    BY <1>1, <1>5 DEF Left
  <2>2. Repairing(id)' = {d \in Copies : rs[<<id, d>>].at = "repairing"}
    BY <1>1, <1>5 DEF Repairing
  <2> QED BY <2>1, <2>2
<1> QED BY <1>4, <1>5

(* An execution changes a retry or a repair into a place on the queue. *)
LEMMA RunBudget ==
  ASSUME IInv, Family(tasks), NEW r \in RunIds, StepRuns(r), NEW id \in TaskIds
  PROVE  Left(tasks'[id]) + Cardinality(Repairing(id)') <= Left(tasks[id]) + Cardinality(Repairing(id))
<1>0. /\ TypeOK /\ tasks[id] \in Tasks /\ tasks \in Stores
      /\ \A u \in TaskIds : \A c \in Copies : <<u, c>> \in RunIds /\ Task(<<u, c>>) = u
  BY DEF IInv, TypeOK, Stores, RunIds, Task
<1>1. /\ Task(r) \in TaskIds /\ tasks' \in Stores
      /\ \A u \in TaskIds \ {Task(r)} :
           /\ tasks'[u].retries = tasks[u].retries /\ tasks'[u].repairs = tasks[u].repairs
           /\ tasks'[u].status = tasks[u].status \/ tasks'[u].status = FanInStatus(u)
      /\ StepWaits(r) \/ StepFollows(r) \/ StepThrows(r) =>
           /\ tasks'[Task(r)].status = tasks[Task(r)].status
           /\ tasks'[Task(r)].retries = tasks[Task(r)].retries
           /\ tasks'[Task(r)].repairs = tasks[Task(r)].repairs
  BY <1>0, RunChanges
<1>2. \A s \in RunIds \ {r} : runs'[s] = runs[s]
  BY DEF StepRuns, StepWaits, StepFollows, StepThrows, StepDecides, StepTriesRepair, StepCounts,
         StepQueues, Moved
<1>3. tasks'[id] \in Tasks
  BY <1>1 DEF Stores
<1>4. Left(tasks[id]) \in Nat /\ Left(tasks'[id]) \in Nat
  BY <1>0, <1>3, LeftBound
<1>5. /\ IsFiniteSet(Repairing(id)) /\ Cardinality(Repairing(id)) \in Nat
      /\ IsFiniteSet(Repairing(id)') /\ Cardinality(Repairing(id)') \in Nat
  <2>1. \A u : IsFiniteSet(Repairing(u)) /\ Cardinality(Repairing(u)) \in Nat
    BY RepairingType
  <2>2. IsFiniteSet(Copies) /\ Repairing(id)' \subseteq Copies
    BY FS_Interval, SizeAssumption DEF Copies, Repairing
  <2> HIDE DEF Repairing
  <2> QED BY <2>1, <2>2, FS_Subset, FS_CardinalityType
<1>6. CASE Task(r) # id
  <2>1. Repairing(id)' = Repairing(id)
    <3>1. \A c \in Copies : runs'[<<id, c>>] = runs[<<id, c>>]
      BY <1>0, <1>2, <1>6
    <3> QED BY <3>1 DEF Repairing
  <2>2. tasks'[id].status = "queued" => tasks[id].status = "queued"
    BY <1>1, <1>6, FanInOpen
  <2>3. Left(tasks'[id]) <= Left(tasks[id])
    <3>1. tasks'[id].retries >= tasks[id].retries
      BY <1>0, <1>1, <1>6 DEF Tasks
    <3> QED BY <1>0, <1>1, <1>3, <1>6, <2>2, <3>1, LeftKept
  <2> QED BY <1>4, <1>5, <2>1, <2>3
<1>7. CASE Task(r) = id
  <2>1. PICK mine \in Copies : r = <<id, mine>>
    BY <1>7 DEF RunIds, Task
  <2>2. \A c \in Copies \ {mine} : runs'[<<id, c>>] = runs[<<id, c>>]
    BY <1>0, <1>2, <2>1
  <2>3. /\ runs'[r].at # "repairing" /\ runs[r].at # "repairing" => Repairing(id)' = Repairing(id)
        /\ runs'[r].at # "repairing" => Repairing(id)' = Repairing(id) \ {mine}
        /\ runs[r].at = "repairing" => mine \in Repairing(id)
        /\ runs'[r].at = "repairing" => Repairing(id)' = Repairing(id) \cup {mine}
        /\ runs[r].at # "repairing" => mine \notin Repairing(id)
    BY <2>1, <2>2 DEF Repairing
  <2>4. CASE StepWaits(r) \/ StepFollows(r) \/ StepThrows(r)
    <3>1. runs'[r].at # "repairing" /\ runs[r].at # "repairing"
      BY <2>4 DEF StepWaits, StepFollows, StepThrows, Moved
    <3>2. Left(tasks'[id]) = Left(tasks[id])
      BY <1>1, <1>7, <2>4 DEF Left
    <3> QED BY <1>4, <1>5, <2>3, <3>1, <3>2
  <2>5. CASE StepDecides(r)
    <3>1. runs'[r].at # "repairing" /\ runs[r].at # "repairing"
      BY <2>5 DEF StepDecides, Moved
    <3>2. Left(tasks'[id]) <= Left(tasks[id])
      <4>1. /\ tasks'[id].status # "queued" /\ tasks'[id].retries = tasks[id].retries
            /\ tasks'[id].repairs = tasks[id].repairs /\ tasks[id].retries \in Nat
        BY <1>0, <1>7, <2>5 DEF StepDecides, Tasks
      <4> QED BY <1>0, <1>3, <4>1, LeftKept
    <3> QED BY <1>4, <1>5, <2>3, <3>1, <3>2
  <2>6. CASE StepTriesRepair(r)
    <3>1. runs'[r].at = "repairing" /\ runs[r].at # "repairing"
      BY <2>6 DEF StepTriesRepair, Moved
    <3>2. Left(tasks'[id]) + 1 = Left(tasks[id])
      BY <1>0, <1>3, <1>7, <2>6, LeftSpent DEF StepTriesRepair
    <3>3. Cardinality(Repairing(id)') = Cardinality(Repairing(id)) + 1
      <4> HIDE DEF Repairing
      <4> QED BY <1>5, <2>3, <3>1, FS_AddElement
    <3> QED BY <1>4, <1>5, <3>2, <3>3
  <2>7. CASE StepCounts(r)
    <3>1. runs'[r].at # "repairing"
      BY <2>7 DEF StepCounts, Moved
    <3>2. Left(tasks'[id]) <= Left(tasks[id])
      <4>1. /\ tasks'[id].retries = tasks[id].retries + 1 /\ tasks'[id].repairs = tasks[id].repairs
            /\ \/ tasks'[id].retries <= MaxRetries
               \/ tasks'[id].status \in {"failed", tasks[id].status}
            /\ tasks[id].retries \in Nat
        BY <1>0, <1>7, <2>7 DEF StepCounts, Tasks
      <4> QED BY <1>0, <1>3, <4>1, LeftKept, LeftSpent
    <3>3. Cardinality(Repairing(id)') <= Cardinality(Repairing(id))
      <4> HIDE DEF Repairing
      <4> QED BY <1>5, <2>3, <3>1, FS_Subset
    <3> QED BY <1>4, <1>5, <3>2, <3>3
  <2>8. CASE StepQueues(r)
    <3>1. runs'[r].at # "repairing" /\ runs[r].at = "repairing"
      BY <2>8 DEF StepQueues, Moved
    <3>2. Left(tasks'[id]) <= Left(tasks[id]) + 1
      BY <1>0, <1>3, <1>7, <2>8, LeftSpent DEF StepQueues
    <3>3. Cardinality(Repairing(id)') = Cardinality(Repairing(id)) - 1
      <4> HIDE DEF Repairing
      <4> QED BY <1>5, <2>3, <3>1, FS_RemoveElement
    <3> QED BY <1>4, <1>5, <3>2, <3>3
  <2> QED BY <2>4, <2>5, <2>6, <2>7, <2>8 DEF StepRuns
<1> QED BY <1>6, <1>7

LEMMA NextBudget ==
  ASSUME IInv, IInv', Families, Budget,
         \/ StepLoads \/ StepPumps \/ StepAdds \/ StepIdles \/ StepEnds
         \/ \E id \in TaskIds : StepAsks(id)
         \/ \E r \in RunIds : StepRuns(r)
  PROVE  Budget'
<1>01. TypeOK /\ TypeOK' /\ Family(tasks)
  BY DEF IInv, Families
<1>02. /\ tasks \in Stores /\ tasks' \in Stores /\ disk \in Stores
       /\ starts \in [TaskIds -> Nat] /\ starts' \in [TaskIds -> Nat] /\ runs \in [RunIds -> Runs]
  BY <1>01 DEF TypeOK
<1>03. requests \in Nat /\ crashes \in Nat /\ used \in Nat /\ TaskIds \subseteq Nat
  BY <1>01, SizeAssumption DEF TypeOK, TaskIds
<1>04. \A u \in TaskIds : \A c \in Copies : <<u, c>> \in RunIds /\ Task(<<u, c>>) = u
  BY DEF RunIds, Task
<1>0. /\ TypeOK /\ tasks \in Stores /\ tasks' \in Stores /\ disk \in Stores /\ Family(tasks)
      /\ requests \in Nat /\ crashes \in Nat /\ used \in Nat
      /\ starts \in [TaskIds -> Nat] /\ starts' \in [TaskIds -> Nat]
      /\ runs \in [RunIds -> Runs] /\ TaskIds \subseteq Nat
      /\ \A u \in TaskIds : \A c \in Copies : <<u, c>> \in RunIds /\ Task(<<u, c>>) = u
  BY <1>01, <1>02, <1>03, <1>04
<1> SUFFICES ASSUME NEW id \in TaskIds
             PROVE  /\ id > used' => starts'[id] = 0
                    /\ process' = "down" => starts'[id] <= Granted(crashes') + requests'
                    /\ process' # "down" =>
                         starts'[id] + Left(tasks'[id]) + Cardinality(Repairing(id)')
                           <= Granted(crashes' + 1) + requests'
  BY DEF Budget
<1>1. /\ id > used => starts[id] = 0
      /\ process = "down" => starts[id] <= Granted(crashes) + requests
      /\ process # "down" =>
           starts[id] + Left(tasks[id]) + Cardinality(Repairing(id)) <= Granted(crashes + 1) + requests
      /\ id > used => tasks[id].status = "absent"
  BY DEF Budget, IInv, Good, Unused
<1>2. /\ tasks[id] \in Tasks /\ tasks'[id] \in Tasks /\ starts[id] \in Nat /\ starts'[id] \in Nat
      /\ Cardinality(Repairing(id)) \in Nat
      /\ Granted(crashes) \in Nat /\ Granted(crashes + 1) = Granted(crashes) + Life /\ Life \in Nat
      /\ Granted(crashes + 1) \in Nat
  BY <1>0, RepairingType, GrantedStep DEF Stores
<1>3. Left(tasks[id]) \in Nat /\ Left(tasks'[id]) \in Nat
  BY <1>2, LeftBound
<1> HIDE DEF Repairing, Granted, Life, Left
<1>4. CASE StepLoads
  <2> DEFINE ts == Recovered(disk)
  <2>1. /\ ts \in Stores /\ Pumps(ts, runs) /\ process = "down" /\ process' # "down"
        /\ UNCHANGED <<crashes, requests, used>>
    <3>1. \A u \in TaskIds : disk[u] \in Tasks /\ [disk[u] EXCEPT !.status = "queued"] \in Tasks
      BY <1>0 DEF Stores, Tasks, Statuses
    <3>2. ts \in Stores
      BY <3>1 DEF Recovered, Stores
    <3> QED BY <1>4, <3>2 DEF StepLoads
  <2>2. id > used => ts[id].status # "queued"
    <3>1. id > used => disk[id].status = "absent"
      BY DEF IInv, DiskGood, Unused
    <3> QED BY <3>1 DEF Recovered
  <2> HIDE DEF ts
  <2>3. /\ starts'[id] + Left(tasks'[id]) = starts[id] + Left(ts[id])
        /\ Repairing(id)' = {c \in Copies : runs[<<id, c>>].at = "repairing"}
        /\ starts'[id] # starts[id] => ts[id].status = "queued"
    BY <1>0, <2>1, PumpBudget
  <2>4. Left(ts[id]) \in Nat /\ Left(ts[id]) <= Life
    BY <2>1, LeftBound DEF Stores
  <2>5. Cardinality(Repairing(id)') = 0
    <3>1. \A c \in Copies : runs[<<id, c>>].at # "repairing"
      BY <1>0, <2>1 DEF IInv, DownIsEmpty, NoRun
    <3>2. Repairing(id)' = {}
      BY <2>3, <3>1
    <3> QED BY <3>2, FS_EmptySet
  <2> QED BY <1>03, <1>1, <1>2, <1>3, <2>1, <2>2, <2>3, <2>4, <2>5
<1>5. CASE StepPumps
  <2>1. PICK rs \in [RunIds -> Runs] : Released(rs) /\ Pumps(tasks, rs)
    BY <1>5 DEF StepPumps
  <2>2. process # "down" /\ process' = process /\ UNCHANGED <<crashes, requests, used>>
    BY <1>5 DEF StepPumps
  <2>3. /\ starts'[id] + Left(tasks'[id]) = starts[id] + Left(tasks[id])
        /\ Repairing(id)' = {c \in Copies : rs[<<id, c>>].at = "repairing"}
        /\ starts'[id] # starts[id] => tasks[id].status = "queued"
    BY <1>0, <2>1, PumpBudget
  <2>4. {c \in Copies : rs[<<id, c>>].at = "repairing"} = Repairing(id)
    BY <1>0, <2>1 DEF Released, NoRun, Repairing
  <2> QED BY <1>03, <1>1, <1>2, <1>3, <2>2, <2>3, <2>4
<1>6. CASE StepAdds
  <2>1. /\ process # "down" /\ process' = process /\ starts' = starts /\ UNCHANGED <<crashes, requests>>
        /\ Repairing(id)' = Repairing(id) /\ used' \in Nat /\ used' > used
    BY <1>6 DEF StepAdds, Repairing
  <2>2. CASE id > used
    <3>1. Cardinality(Repairing(id)) = 0
      <4>1. \A c \in Copies : runs[<<id, c>>].at = "none"
        <5>1. ~(id <= used)
          BY <1>0, <2>2
        <5> QED BY <1>0, <5>1 DEF IInv, Good, RunsUsed
      <4>2. Repairing(id) = {}
        BY <4>1 DEF Repairing
      <4> QED BY <4>2, FS_EmptySet
    <3>2. Left(tasks'[id]) <= Life
      BY <1>2, LeftBound
    <3>3. Cardinality(Repairing(id)') = 0
      BY <2>1, <3>1
    <3> QED BY <1>03, <1>1, <1>2, <1>3, <2>1, <2>2, <3>2, <3>3
  <2>3. CASE ~(id > used)
    <3>1. tasks'[id] = tasks[id] /\ ~(id > used')
      BY <1>0, <1>6, <2>3 DEF StepAdds
    <3> QED BY <1>1, <2>1, <3>1
  <2> QED BY <2>2, <2>3
<1>7. CASE StepIdles
  BY <1>1, <1>7 DEF StepIdles, Repairing
<1>8. CASE StepEnds
  <2>1. /\ process # "down" /\ process' = "down" /\ crashes' = crashes + 1 /\ starts' = starts
        /\ requests' = requests /\ used' = used
    BY <1>8 DEF StepEnds, ProcessEnds
  <2> QED BY <1>03, <1>1, <1>2, <1>3, <2>1
<1>9. ASSUME NEW u \in TaskIds, StepAsks(u)
      PROVE  /\ id > used' => starts'[id] = 0
             /\ process' = "down" => starts'[id] <= Granted(crashes') + requests'
             /\ process' # "down" =>
                  starts'[id] + Left(tasks'[id]) + Cardinality(Repairing(id)')
                    <= Granted(crashes' + 1) + requests'
  <2>1. /\ process # "down" /\ process' = process /\ starts' = starts /\ used' = used /\ crashes' = crashes
        /\ requests' = requests + 1 /\ Repairing(id)' = Repairing(id)
    BY <1>9 DEF StepAsks, Repairing
  <2>2. Left(tasks'[id]) <= Left(tasks[id]) + 1
    <3>1. tasks'[id].retries = tasks[id].retries /\ tasks'[id].repairs = tasks[id].repairs
      BY <1>9 DEF StepAsks, Differs
    <3> QED BY <1>2, <3>1, LeftSpent
  <2> QED BY <1>0, <1>1, <1>2, <1>3, <2>1, <2>2
<1>10. ASSUME NEW r \in RunIds, StepRuns(r)
       PROVE  /\ id > used' => starts'[id] = 0
              /\ process' = "down" => starts'[id] <= Granted(crashes') + requests'
              /\ process' # "down" =>
                   starts'[id] + Left(tasks'[id]) + Cardinality(Repairing(id)')
                     <= Granted(crashes' + 1) + requests'
  <2>1. process' = process /\ starts' = starts /\ used' = used /\ crashes' = crashes /\ requests' = requests
    BY <1>10 DEF StepRuns
  <2>2. Left(tasks'[id]) + Cardinality(Repairing(id)') <= Left(tasks[id]) + Cardinality(Repairing(id))
    BY <1>0, <1>10, RunBudget
  <2>3. Cardinality(Repairing(id)') \in Nat
    <3>1. IsFiniteSet(Copies) /\ Repairing(id)' \subseteq Copies
      BY FS_Interval, SizeAssumption DEF Copies, Repairing
    <3> QED BY <3>1, FS_Subset, FS_CardinalityType
  <2> QED BY <1>03, <1>1, <1>2, <1>3, <2>1, <2>2, <2>3
<1> QED BY <1>4, <1>5, <1>6, <1>7, <1>8, <1>9, <1>10

------------------------------------------------------------------------------
(* A parent shows the state of its children, unless one of them is still to report. *)

(* An execution that will still tell the parent, or ends the process. *)
Pending(run) ==
  \/ run.at \notin {"none", "cleaning", "removing"}
  \/ run.at # "none" /\ run.rejected

(* The parent of c has yet to hear, or need not. *)
Unsettled(c) ==
  \/ tasks[c].status \in {"queued", "cancelled"}
  \/ \E copy \in Copies : Pending(runs[<<c, copy>>])

Shown(p) ==
  \/ tasks[p].status \in {"queued", "cancelled"}
  \/ /\ tasks[p].status \in Open
     /\ tasks[p].status = FanInStatus(p) \/ \E c \in Children(p) : Unsettled(c)

(* In the first life of the process every id that was given out stands for a task. *)
Present ==
  crashes = 0 => /\ process = "down" => used = 0
                 /\ \A id \in TaskIds : id <= used => tasks[id].status # "absent"

Unstarted == \A id \in TaskIds : starts[id] = 0 => \A c \in Copies : runs[<<id, c>>].at = "none"

FanIn ==
  /\ Present
  /\ Unstarted
  /\ crashes = 0 => \A p \in TaskIds : Children(p) # {} /\ starts[p] = 0 => Shown(p)

LEMMA FanInSame ==
  ASSUME NEW p, Children(p)' = Children(p), \A c \in Children(p) : tasks'[c].status = tasks[c].status
  PROVE  FanInStatus(p)' = FanInStatus(p)
<1> HIDE DEF Children
<1> QED BY DEF FanInStatus

LEMMA ShownKept ==
  ASSUME NEW p \in TaskIds, Shown(p), Children(p)' = Children(p), tasks'[p].status = tasks[p].status,
         \A c \in Children(p) : Unsettled(c)' \/ (tasks'[c].status = tasks[c].status /\ ~Unsettled(c))
  PROVE  Shown(p)'
<1>1. CASE \E c \in Children(p) : Unsettled(c)'
  <2> HIDE DEF Children, Unsettled
  <2> QED BY <1>1 DEF Shown
<1>2. CASE \A c \in Children(p) : ~Unsettled(c)'
  <2>1. FanInStatus(p)' = FanInStatus(p)
    BY <1>2, FanInSame
  <2>2. \A c \in Children(p) : ~Unsettled(c)
    BY <1>2
  <2> HIDE DEF Children, Unsettled, FanInStatus
  <2> QED BY <2>1, <2>2 DEF Shown
<1> QED BY <1>1, <1>2

(* The same statuses and executions. *)
LEMMA ShownUnchanged ==
  ASSUME NEW p \in TaskIds, Shown(p), Children(p)' = Children(p), tasks'[p].status = tasks[p].status,
         \A c \in Children(p) : /\ tasks'[c].status = tasks[c].status
                                /\ \A copy \in Copies : runs'[<<c, copy>>] = runs[<<c, copy>>]
  PROVE  Shown(p)'
<1>1. \A c \in Children(p) : Unsettled(c)' <=> Unsettled(c)
  BY DEF Unsettled, Pending
<1> QED BY <1>1, ShownKept

LEMMA PumpFanIn ==
  ASSUME IInv, IInv', FanIn, crashes = 0, NEW rs \in [RunIds -> Runs], Released(rs), Pumps(tasks, rs),
         NEW p \in TaskIds, Children(p)' # {}, starts'[p] = 0
  PROVE  Shown(p)'
<1>0. starts \in [TaskIds -> Nat] /\ runs \in [RunIds -> Runs] /\ tasks \in Stores
  BY DEF IInv, TypeOK
<1>1. PICK started \in SUBSET TaskIds :
        /\ \A u \in started : tasks[u].status = "queued"
        /\ \A u \in TaskIds :
             /\ tasks'[u].parent = tasks[u].parent
             /\ tasks'[u].status = IF u \in started THEN "running" ELSE tasks[u].status
             /\ starts'[u] = IF u \in started THEN starts[u] + 1 ELSE starts[u]
        /\ \A u \in TaskIds \ started : \A c \in Copies : runs'[<<u, c>>] = rs[<<u, c>>]
        /\ \A u \in started : \E c \in Copies : runs'[<<u, c>>].at = "starting"
  BY DEF Pumps
<1>2. p \notin started /\ starts[p] = 0
  BY <1>0, <1>1
<1>3. Children(p)' = Children(p)
  BY <1>1 DEF Children, ChildrenIn
<1>4. Shown(p) /\ Children(p) \subseteq TaskIds
  BY <1>2, <1>3 DEF FanIn, Children, ChildrenIn
<1>5. ASSUME NEW c \in Children(p)
      PROVE  Unsettled(c)' \/ (tasks'[c].status = tasks[c].status /\ ~Unsettled(c))
  <2>1. c \in TaskIds
    BY <1>4
  <2>2. CASE c \in started
    BY <1>1, <2>2 DEF Unsettled, Pending
  <2>3. CASE c \notin started
    <3>1. tasks'[c].status = tasks[c].status /\ \A copy \in Copies : runs'[<<c, copy>>] = rs[<<c, copy>>]
      BY <1>1, <2>1, <2>3
    <3>2. ASSUME NEW copy \in Copies, Pending(runs[<<c, copy>>]) PROVE Pending(runs'[<<c, copy>>])
      <4>1. rs[<<c, copy>>] = runs[<<c, copy>>]
        BY <1>0, <2>1, <3>2 DEF Released, Pending, RunIds
      <4> QED BY <3>1, <3>2, <4>1
    <3>3. Unsettled(c) => Unsettled(c)'
      BY <3>1, <3>2 DEF Unsettled
    <3> QED BY <3>1, <3>3
  <2> QED BY <2>2, <2>3
<1> QED BY <1>1, <1>2, <1>3, <1>4, <1>5, ShownKept

LEMMA AddFanIn ==
  ASSUME IInv, Families, FanIn, crashes = 0, StepAdds,
         NEW p \in TaskIds, Children(p)' # {}, starts'[p] = 0
  PROVE  Shown(p)'
<1>0. tasks \in Stores /\ used \in Nat /\ TaskIds \subseteq Nat /\ Family(tasks) /\ 0 \notin TaskIds
  BY SizeAssumption DEF IInv, TypeOK, Families, TaskIds
<1>1. CASE \E c \in Children(p)' : c > used /\ c <= used'
  <2>1. PICK c \in Children(p)' : c > used /\ c <= used'
    BY <1>1
  <2>2. c \in TaskIds /\ tasks'[c].parent = p
    BY <2>1 DEF Children, ChildrenIn
  <2>3. tasks'[c] = NewTask("queued", p) /\ tasks'[p] = NewTask("blocked", 0)
    <3>1. \/ tasks'[c].parent = 0
          \/ \E q \in TaskIds : /\ tasks'[c].parent = q
                                /\ tasks'[c] = NewTask("queued", q) /\ tasks'[q] = NewTask("blocked", 0)
      <4>1. \/ tasks'[c] = NewTask("queued", 0) \/ tasks'[c] = NewTask("blocked", 0)
            \/ \E q \in TaskIds : tasks'[c] = NewTask("queued", q) /\ tasks'[q] = NewTask("blocked", 0)
        BY <2>1, <2>2 DEF StepAdds
      <4>2. \A q : NewTask("queued", q).parent = q /\ NewTask("blocked", 0).parent = 0
        BY DEF NewTask
      <4> QED BY <4>1, <4>2
    <3> QED BY <1>0, <2>2, <3>1
  <2>4. Unsettled(c)' /\ tasks'[p].status \in Open
    BY <2>3 DEF Unsettled, NewTask, Open
  <2> HIDE DEF Children, Unsettled
  <2> QED BY <2>1, <2>4 DEF Shown
<1>2. CASE ~\E c \in Children(p)' : c > used /\ c <= used'
  <2>1. \A c \in Children(p)' : c \in TaskIds /\ tasks'[c] = tasks[c]
    BY <1>2 DEF StepAdds, Children, ChildrenIn
  <2>2. PICK c \in TaskIds : tasks[c].parent = p
    BY <2>1 DEF Children, ChildrenIn
  <2>3. tasks[p].status # "absent"
    BY <1>0, <2>2 DEF Family
  <2>4. ~(p > used)
    BY <2>3 DEF IInv, Good, Unused
  <2>5. tasks'[p] = tasks[p] /\ runs' = runs /\ starts' = starts
    BY <2>4 DEF StepAdds
  <2>6. Children(p)' = Children(p)
    <3>1. \A u \in Children(p) : u \in TaskIds /\ ~(u > used)
      BY DEF Children, ChildrenIn, IInv, Good, Unused
    <3>2. \A u \in Children(p) : tasks'[u] = tasks[u]
      BY <3>1 DEF StepAdds
    <3> QED BY <2>1, <3>1, <3>2 DEF Children, ChildrenIn
  <2>7. Shown(p)
    BY <2>5, <2>6 DEF FanIn
  <2> QED BY <2>1, <2>5, <2>6, <2>7, ShownUnchanged
<1> QED BY <1>1, <1>2

LEMMA AskFanIn ==
  ASSUME IInv, FanIn, crashes = 0, NEW id \in TaskIds, StepAsks(id),
         NEW p \in TaskIds, Children(p)' # {}, starts'[p] = 0
  PROVE  Shown(p)'
<1>1. /\ runs' = runs /\ starts' = starts
      /\ tasks'[id].parent = tasks[id].parent /\ \A u \in TaskIds \ {id} : tasks'[u] = tasks[u]
      /\ tasks[id].status # "absent" /\ tasks'[id].status \in {"queued", "cancelled", tasks[id].status}
  BY DEF StepAsks, Differs
<1>2. Children(p)' = Children(p)
  BY <1>1 DEF Children, ChildrenIn
<1>3. Shown(p) /\ Children(p) \subseteq TaskIds
  BY <1>1, <1>2 DEF FanIn, Children, ChildrenIn
<1>4. CASE tasks'[id].status = tasks[id].status
  <2>1. \A u \in TaskIds : tasks'[u].status = tasks[u].status
    BY <1>1, <1>4
  <2> QED BY <1>1, <1>2, <1>3, <2>1, ShownUnchanged
<1>5. CASE tasks'[id].status \in {"queued", "cancelled"}
  <2>1. CASE id = p
    BY <1>5, <2>1 DEF Shown
  <2>2. CASE id # p
    <3>1. tasks'[p].status = tasks[p].status
      BY <1>1, <2>2
    <3>2. Unsettled(id)'
      BY <1>5 DEF Unsettled
    <3>3. \A c \in Children(p) \ {id} : tasks'[c].status = tasks[c].status /\ (Unsettled(c)' <=> Unsettled(c))
      BY <1>1, <1>3 DEF Unsettled, Pending
    <3> QED BY <1>2, <1>3, <3>1, <3>2, <3>3, ShownKept
  <2> QED BY <2>1, <2>2
<1> QED BY <1>1, <1>4, <1>5

LEMMA RunFanIn ==
  ASSUME IInv, Families, FanIn, crashes = 0, NEW r \in RunIds, StepRuns(r),
         NEW p \in TaskIds, Children(p)' # {}, starts'[p] = 0
  PROVE  Shown(p)'
<1> DEFINE id == Task(r)
<1>0. /\ TypeOK /\ tasks \in Stores /\ Family(tasks) /\ 0 \notin TaskIds
      /\ \A u \in TaskIds : \A c \in Copies : <<u, c>> \in RunIds /\ Task(<<u, c>>) = u
      /\ \E c \in Copies : r = <<id, c>>
  BY SizeAssumption DEF IInv, TypeOK, Families, TaskIds, RunIds, Task
<1>1. /\ id \in TaskIds /\ tasks' \in Stores
      /\ \A u \in TaskIds : tasks'[u].parent = tasks[u].parent
      /\ \A u \in TaskIds \ {id} :
           \/ tasks'[u].status = tasks[u].status
           \/ /\ u = tasks[id].parent /\ ~ParentRefuses(id)
              /\ tasks'[u].status = FanInStatus(u)
      /\ StepWaits(r) \/ StepFollows(r) \/ StepThrows(r) => tasks'[id].status = tasks[id].status
  BY <1>0, RunChanges
<1>2. starts[p] = 0 /\ runs[r].at # "none" /\ \A s \in RunIds \ {r} : runs'[s] = runs[s]
  BY DEF StepRuns, StepWaits, StepFollows, StepThrows, StepDecides, StepTriesRepair, StepCounts,
         StepQueues, Moved
<1>3. p # id
  BY <1>0, <1>2 DEF FanIn, Unstarted
<1>4. tasks[id].status # "absent" /\ tasks'[id].status # "absent"
  <2>1. id <= used
    BY <1>2 DEF IInv, Good, RunsUsed
  <2>2. tasks[id].status # "absent"
    BY <1>1, <2>1 DEF FanIn, Present
  <2>3. \/ tasks'[id].status = tasks[id].status
        \/ tasks'[id].status \in {"blocked", "done", "cancelled", "queued", "failed"}
    BY <1>1 DEF StepRuns, StepDecides, StepTriesRepair, StepCounts, StepQueues
  <2> QED BY <2>2, <2>3
<1> HIDE DEF id
<1>5. ASSUME NEW u \in TaskIds, u = tasks[id].parent PROVE tasks[u].status # "absent" /\ tasks[u].parent = 0
  BY <1>0, <1>1, <1>5 DEF Family
<1>6. Children(p)' = Children(p)
  <2>1. \A u \in TaskIds : tasks'[u].status = "absent" <=> tasks[u].status = "absent"
    BY <1>1, <1>4, <1>5, FanInOpen
  <2> QED BY <1>1, <2>1 DEF Children, ChildrenIn
<1>7. Shown(p)
  BY <1>2, <1>6 DEF FanIn
<1>8. ASSUME NEW c \in Children(p), c # id
      PROVE  /\ tasks'[c].status = tasks[c].status
             /\ \A copy \in Copies : runs'[<<c, copy>>] = runs[<<c, copy>>]
  <2>1. c \in TaskIds /\ tasks[c].parent = p
    BY DEF Children, ChildrenIn
  <2>2. c # tasks[id].parent
    BY <1>0, <1>5, <2>1
  <2>3. \A copy \in Copies : <<c, copy>> \in RunIds /\ <<c, copy>> # r
    BY <1>0, <1>8, <2>1 DEF id
  <2> QED BY <1>1, <1>2, <1>8, <2>1, <2>2, <2>3
<1>9. ASSUME NEW c \in Children(p), c # id PROVE Unsettled(c)' <=> Unsettled(c)
  BY <1>8, <1>9 DEF Unsettled, Pending
<1>10. CASE tasks[id].parent # p
  <2>1. id \notin Children(p) /\ tasks'[p].status = tasks[p].status
    BY <1>1, <1>3, <1>10 DEF Children, ChildrenIn
  <2> QED BY <1>6, <1>7, <1>8, <2>1, ShownUnchanged
<1>11. CASE tasks[id].parent = p
  <2>1. id \in Children(p)
    BY <1>1, <1>4, <1>11 DEF Children, ChildrenIn
  <2>2. CASE StepFollows(r)
    <3>1. tasks'[p].status = FanInStatus(p)
      <4>1. tasks' = ParentUpdated(id) /\ ~ParentRefuses(id)
        BY <2>2 DEF StepFollows, id
      <4> QED BY <1>0, <1>1, <1>11, <4>1, ParentPassed
    <3>2. FanInStatus(p)' = FanInStatus(p)
      <4>1. tasks'[id].status = tasks[id].status
        BY <1>1, <2>2
      <4> QED BY <1>6, <1>8, <4>1, FanInSame
    <3>3. FanInStatus(p) \in Open
      BY FanInOpen DEF Open
    <3> HIDE DEF FanInStatus
    <3> QED BY <3>1, <3>2, <3>3 DEF Shown
  <2>3. CASE StepWaits(r)
    <3>1. tasks' = tasks
      BY <2>3 DEF StepWaits
    <3>2. Pending(runs[r]) => Pending(runs'[r])
      BY <2>3 DEF StepWaits, Moved, Pending, Places, InTurn
    <3>3. Unsettled(id) => Unsettled(id)'
      <4>1. \A copy \in Copies : Pending(runs[<<id, copy>>]) => Pending(runs'[<<id, copy>>])
        BY <1>0, <1>1, <1>2, <3>2
      <4> QED BY <3>1, <4>1 DEF Unsettled
    <3> QED BY <1>6, <1>7, <1>8, <1>9, <3>1, <3>3, ShownKept
  <2>4. CASE StepThrows(r) \/ StepDecides(r) \/ StepTriesRepair(r) \/ StepCounts(r) \/ StepQueues(r)
    <3>1. Pending(runs'[r])
      BY <2>4 DEF StepThrows, StepDecides, StepTriesRepair, StepCounts, StepQueues, Moved, Pending
    <3>2. Unsettled(id)'
      BY <1>0, <3>1 DEF Unsettled
    <3>3. CASE tasks'[p].status = tasks[p].status
      BY <1>6, <1>7, <1>8, <1>9, <3>2, <3>3, ShownKept
    <3>4. CASE tasks'[p].status \in Open
      <4> HIDE DEF Children, Unsettled
      <4> QED BY <1>6, <2>1, <3>2, <3>4 DEF Shown
    <3> QED BY <1>1, <1>3, <3>3, <3>4, FanInOpen DEF Open
  <2> QED BY <2>2, <2>3, <2>4 DEF StepRuns
<1> QED BY <1>10, <1>11

LEMMA NextUnstarted ==
  ASSUME IInv, Unstarted,
         \/ StepLoads \/ StepPumps \/ StepAdds \/ StepIdles \/ StepEnds
         \/ \E id \in TaskIds : StepAsks(id)
         \/ \E r \in RunIds : StepRuns(r)
  PROVE  Unstarted'
<1>0. /\ runs \in [RunIds -> Runs] /\ starts \in [TaskIds -> Nat]
      /\ \A u \in TaskIds : \A c \in Copies : <<u, c>> \in RunIds /\ Task(<<u, c>>) = u
  BY DEF IInv, TypeOK, RunIds, Task
<1> SUFFICES ASSUME NEW id \in TaskIds, starts'[id] = 0, NEW c \in Copies PROVE runs'[<<id, c>>].at = "none"
  BY DEF Unstarted
<1>1. ASSUME NEW ts, NEW rs, Pumps(ts, rs), Released(rs) PROVE runs'[<<id, c>>].at = "none"
  <2>1. starts[id] = 0 /\ runs'[<<id, c>>] = rs[<<id, c>>]
    BY <1>0, <1>1 DEF Pumps
  <2> QED BY <1>0, <1>1, <2>1 DEF Unstarted, Released, NoRun
<1>2. CASE StepLoads
  BY <1>1, <1>2 DEF StepLoads, Released
<1>3. CASE StepPumps
  BY <1>1, <1>3 DEF StepPumps
<1>4. CASE StepAdds \/ StepIdles \/ \E u \in TaskIds : StepAsks(u)
  BY <1>4 DEF StepAdds, StepIdles, StepAsks, Unstarted
<1>5. CASE StepEnds
  BY <1>0, <1>5 DEF StepEnds, ProcessEnds, NoRun
<1>6. ASSUME NEW r \in RunIds, StepRuns(r) PROVE runs'[<<id, c>>].at = "none"
  <2>1. starts' = starts /\ runs[r].at # "none" /\ \A s \in RunIds \ {r} : runs'[s] = runs[s]
    BY <1>6 DEF StepRuns, StepWaits, StepFollows, StepThrows, StepDecides, StepTriesRepair, StepCounts,
                StepQueues, Moved
  <2> QED BY <1>0, <2>1 DEF Unstarted
<1> QED BY <1>2, <1>3, <1>4, <1>5, <1>6

LEMMA NextPresent ==
  ASSUME IInv, IInv', Families, Present,
         \/ StepLoads \/ StepPumps \/ StepAdds \/ StepIdles \/ StepEnds
         \/ \E id \in TaskIds : StepAsks(id)
         \/ \E r \in RunIds : StepRuns(r)
  PROVE  Present'
<1>01. TypeOK /\ Family(tasks)
  BY DEF IInv, Families
<1>02. tasks \in Stores /\ crashes \in Nat /\ used \in Nat
  BY <1>01, SizeAssumption DEF TypeOK
<1>03. TaskIds \subseteq Nat /\ \A u \in TaskIds : u > 0
  BY SizeAssumption DEF TaskIds
<1>0. /\ TypeOK /\ tasks \in Stores /\ Family(tasks) /\ crashes \in Nat /\ used \in Nat /\ TaskIds \subseteq Nat
      /\ \A u \in TaskIds : u > 0
  BY <1>01, <1>02, <1>03
<1> SUFFICES ASSUME crashes' = 0
             PROVE  /\ process' = "down" => used' = 0
                    /\ \A id \in TaskIds : id <= used' => tasks'[id].status # "absent"
  BY DEF Present
<1>1. CASE StepEnds
  BY <1>0, <1>1 DEF StepEnds, ProcessEnds
<1> SUFFICES ASSUME ~StepEnds
             PROVE  /\ process' = "down" => used' = 0
                    /\ \A id \in TaskIds : id <= used' => tasks'[id].status # "absent"
  BY <1>1
<1>2. crashes = 0 /\ (process' = "down" => process = "down" /\ used' = used)
  BY DEF StepLoads, StepPumps, StepAdds, StepIdles, StepAsks, StepRuns
<1>3. (process = "down" => used = 0) /\ \A id \in TaskIds : id <= used => tasks[id].status # "absent"
  BY <1>2 DEF Present
<1> SUFFICES ASSUME NEW id \in TaskIds, id <= used' PROVE tasks'[id].status # "absent"
  BY <1>2, <1>3
<1>4. CASE StepLoads
  <2>1. used' = 0
    BY <1>3, <1>4 DEF StepLoads
  <2> QED BY <1>0, <2>1
<1>5. CASE StepPumps
  BY <1>3, <1>5 DEF StepPumps, Pumps
<1>6. CASE StepAdds
  <2>1. CASE id > used /\ id <= used'
    <3>1. \/ tasks'[id] = NewTask("queued", 0) \/ tasks'[id] = NewTask("blocked", 0)
          \/ \E q \in TaskIds : tasks'[id] = NewTask("queued", q)
      BY <1>6, <2>1 DEF StepAdds
    <3>2. \A q : NewTask("queued", q).status = "queued" /\ NewTask("blocked", q).status = "blocked"
      BY DEF NewTask
    <3> QED BY <3>1, <3>2
  <2>2. CASE ~(id > used /\ id <= used')
    <3>1. tasks'[id] = tasks[id]
      BY <1>6, <2>2 DEF StepAdds
    <3>2. id <= used
      BY <1>0, <2>2
    <3> QED BY <1>3, <3>1, <3>2
  <2> QED BY <2>1, <2>2
<1>7. CASE StepIdles
  BY <1>3, <1>7 DEF StepIdles
<1>8. ASSUME NEW u \in TaskIds, StepAsks(u) PROVE tasks'[id].status # "absent"
  BY <1>3, <1>8 DEF StepAsks, Differs
<1>9. ASSUME NEW r \in RunIds, StepRuns(r) PROVE tasks'[id].status # "absent"
  <2>1. /\ \A u \in TaskIds \ {Task(r)} :
             tasks'[u].status = tasks[u].status \/ tasks'[u].status = FanInStatus(u)
        /\ StepWaits(r) \/ StepFollows(r) \/ StepThrows(r) => tasks'[Task(r)].status = tasks[Task(r)].status
    BY <1>0, <1>9, RunChanges
  <2>2. \/ tasks'[Task(r)].status = tasks[Task(r)].status
        \/ tasks'[Task(r)].status \in {"blocked", "done", "cancelled", "queued", "failed"}
    BY <1>9, <2>1 DEF StepRuns, StepDecides, StepTriesRepair, StepCounts, StepQueues
  <2>3. used' = used
    BY <1>9 DEF StepRuns
  <2> QED BY <1>3, <2>1, <2>2, <2>3, FanInOpen
<1> QED BY <1>4, <1>5, <1>6, <1>7, <1>8, <1>9

LEMMA NextFanIn ==
  ASSUME IInv, IInv', Families, FanIn,
         \/ StepLoads \/ StepPumps \/ StepAdds \/ StepIdles \/ StepEnds
         \/ \E id \in TaskIds : StepAsks(id)
         \/ \E r \in RunIds : StepRuns(r)
  PROVE  FanIn'
<1>1. Present' /\ Unstarted'
  BY NextPresent, NextUnstarted DEF FanIn
<1>2. ASSUME crashes' = 0, NEW p \in TaskIds, Children(p)' # {}, starts'[p] = 0 PROVE Shown(p)'
  <2>0. crashes \in Nat /\ runs \in [RunIds -> Runs] /\ tasks' \in Stores
    BY DEF IInv, TypeOK
  <2>1. CASE StepEnds
    BY <1>2, <2>0, <2>1 DEF StepEnds, ProcessEnds
  <2>2. CASE ~StepEnds
    <3>1. crashes = 0
      BY <1>2, <2>2 DEF StepLoads, StepPumps, StepAdds, StepIdles, StepAsks, StepRuns
    <3>2. CASE StepLoads
      <4>1. used' = 0
        BY <3>1, <3>2 DEF StepLoads, FanIn, Present
      <4>2. \A u \in TaskIds : u > used'
        BY <4>1, SizeAssumption DEF TaskIds
      <4>3. \A u \in TaskIds : tasks'[u].status = "absent"
        BY <4>2 DEF IInv, Good, Unused
      <4> QED BY <1>2, <4>3 DEF Children, ChildrenIn
    <3>3. CASE StepPumps
      BY <1>2, <3>1, <3>3, PumpFanIn DEF StepPumps
    <3>4. CASE StepAdds
      BY <1>2, <3>1, <3>4, AddFanIn
    <3>5. CASE StepIdles
      <4>1. tasks' = tasks /\ runs' = runs /\ starts' = starts
        BY <3>5 DEF StepIdles
      <4>2. Children(p)' = Children(p)
        BY <4>1 DEF Children
      <4>3. Shown(p)
        BY <1>2, <3>1, <4>1, <4>2 DEF FanIn
      <4> QED BY <4>1, <4>2, <4>3, ShownUnchanged
    <3>6. ASSUME NEW id \in TaskIds, StepAsks(id) PROVE Shown(p)'
      BY <1>2, <3>1, <3>6, AskFanIn
    <3>7. ASSUME NEW r \in RunIds, StepRuns(r) PROVE Shown(p)'
      BY <1>2, <3>1, <3>7, RunFanIn
    <3> QED BY <2>2, <3>2, <3>3, <3>4, <3>5, <3>6, <3>7
  <2> QED BY <2>1, <2>2
<1> QED BY <1>1, <1>2 DEF FanIn

------------------------------------------------------------------------------
(* Together these are inductive. *)

Strong == IInv /\ Families /\ Untouched /\ Solo /\ Budget /\ FanIn

LEMMA InitStrong ==
  ASSUME Init
  PROVE  Strong
<1>1. IInv
  BY InitIInv
<1>2. /\ \A id \in TaskIds : tasks[id].parent = 0 /\ disk[id].parent = 0 /\ tasks[id].status = "absent"
      /\ \A r \in RunIds : runs[r].at = "none"
      /\ \A id \in TaskIds : \A c \in Copies : <<id, c>> \in RunIds
      /\ \A id \in TaskIds : starts[id] = 0
      /\ process = "down" /\ used = 0 /\ crashes = 0 /\ requests = 0
  BY DEF Init, EmptyStore, NewTask, NoRun, RunIds
<1>3. Families
  BY <1>2 DEF Families, Family
<1>4. Untouched
  BY <1>2 DEF Untouched
<1>5. Solo
  BY <1>2 DEF Solo, Live, Working, InTurn
<1>6. Budget
  <2>1. Granted(crashes) \in Nat
    BY <1>2, GrantedStep
  <2> QED BY <1>2, <2>1 DEF Budget
<1>7. FanIn
  <2>1. Present
    BY <1>2, SizeAssumption DEF Present, TaskIds
  <2>2. Unstarted
    BY <1>2 DEF Unstarted
  <2>3. \A p : Children(p) = {}
    BY <1>2 DEF Children, ChildrenIn
  <2> QED BY <2>1, <2>2, <2>3 DEF FanIn
<1> QED BY <1>1, <1>3, <1>4, <1>5, <1>6, <1>7 DEF Strong

LEMMA NextStrong ==
  ASSUME Strong, [Next]_vars
  PROVE  Strong'
<1>0. IInv /\ Families /\ Untouched /\ Solo /\ Budget /\ FanIn
  BY DEF Strong
<1>1. IInv'
  BY <1>0, NextIInv
<1>2. CASE Next
  <2>1. \/ StepLoads \/ StepPumps \/ StepAdds \/ StepIdles \/ StepEnds
        \/ \E id \in TaskIds : StepAsks(id)
        \/ \E r \in RunIds : StepRuns(r)
    BY <1>0, <1>1, <1>2, Kinds
  <2>2. Families' /\ Untouched'
    BY <1>0, <2>1, NextFamilies, NextUntouched
  <2>3. Solo'
    BY <1>0, <2>1, NextSolo
  <2>4. Budget'
    BY <1>0, <1>1, <2>1, NextBudget
  <2>5. FanIn'
    BY <1>0, <1>1, <2>1, NextFanIn
  <2> QED BY <1>1, <2>2, <2>3, <2>4, <2>5 DEF Strong
<1>3. CASE UNCHANGED vars
  <2>1. Families' /\ Untouched' /\ Solo'
    BY <1>0, <1>3 DEF vars, Families, Untouched, Solo
  <2>2. Budget'
    BY <1>0, <1>3 DEF vars, Budget, Repairing
  <2>3. Present' /\ Unstarted'
    BY <1>0, <1>3 DEF vars, FanIn, Present, Unstarted
  <2>4. \A p \in TaskIds : Children(p)' = Children(p) /\ (Shown(p)' <=> Shown(p))
    BY <1>3 DEF vars, Shown, Children, FanInStatus, Unsettled
  <2>5. FanIn'
    BY <1>0, <1>3, <2>3, <2>4 DEF FanIn, vars
  <2> QED BY <1>1, <2>1, <2>2, <2>5 DEF Strong
<1> QED BY <1>2, <1>3

(* The invariant, with what the three properties below need of families, turns,
   budgets and parents, holds in every state. *)
THEOREM StrengthenedHolds == Spec => []Strong
<1>1. Init => Strong
  BY InitStrong
<1>2. Strong /\ [Next]_vars => Strong'
  BY NextStrong
<1> QED BY <1>1, <1>2, PTL DEF Spec

(* A failed execution lets go of its task before it queues it again: unless an
   operator intervenes or a save fails, no two executions of a task are in
   their turns together, however they overlap. *)
THEOREM TurnsCorrect == Spec => []OneTurnAtATime
<1>1. Strong => OneTurnAtATime
  BY DEF Strong, Solo, OneTurnAtATime, Live, Working
<1> QED BY <1>1, StrengthenedHolds, PTL

(* Each start is paid for: by the submission, a retry or a repair of this life
   of the process, by a restart that found the task, or by an operator. *)
THEOREM ExecutionsBounded == Spec => []ExecutionBound
<1>1. Strong => ExecutionBound
  <2> SUFFICES ASSUME Strong, NEW id \in TaskIds
               PROVE  starts[id] <= (1 + MaxRetries + MaxRepairs) * (crashes + 1) + requests
    BY DEF ExecutionBound
  <2>1. /\ tasks[id] \in Tasks /\ starts[id] \in Nat /\ crashes \in Nat /\ requests \in Nat
    BY DEF Strong, IInv, TypeOK, Stores
  <2>2. Left(tasks[id]) \in Nat /\ Cardinality(Repairing(id)) \in Nat
    BY <2>1, LeftBound, RepairingType
  <2>3. /\ Life \in Nat /\ Granted(crashes) \in Nat /\ Granted(crashes + 1) \in Nat
        /\ Granted(crashes + 1) = Granted(crashes) + Life
    BY <2>1, GrantedStep
  <2>4. /\ process = "down" => starts[id] <= Granted(crashes) + requests
        /\ process # "down" =>
             starts[id] + Left(tasks[id]) + Cardinality(Repairing(id)) <= Granted(crashes + 1) + requests
    BY DEF Strong, Budget
  <2>5. starts[id] <= Granted(crashes + 1) + requests
    <3> HIDE DEF Granted, Life, Left, Repairing
    <3> QED BY <2>1, <2>2, <2>3, <2>4
  <2> QED BY <2>5 DEF Granted, Life
<1> QED BY <1>1, StrengthenedHolds, PTL

(* updateParentState runs at the end of every execution and on every path out
   of it: when the work is over, a parent shows what its children came to. *)
THEOREM FanInCorrect == Spec => []FanInAgrees
<1>1. Strong => FanInAgrees
  <2> SUFFICES ASSUME Strong, Quiet, crashes = 0, NEW p \in TaskIds, Children(p) # {}, starts[p] = 0,
                      tasks[p].status # "cancelled", \A c \in Children(p) : tasks[c].status # "cancelled"
               PROVE  tasks[p].status =
                        CASE \E c \in Children(p) : tasks[c].status = "failed" -> "failed"
                          [] \A c \in Children(p) : tasks[c].status = "done" -> "done"
                          [] OTHER -> "blocked"
    BY DEF FanInAgrees
  <2>1. \A u \in TaskIds : tasks[u].status # "queued"
    BY DEF Quiet, Strong, IInv, Good, Scheduled
  <2>2. \A u \in TaskIds : \A c \in Copies : runs[<<u, c>>].at = "none"
    BY DEF Quiet, RunIds
  <2>3. Children(p) \subseteq TaskIds
    BY DEF Children, ChildrenIn
  <2>4. \A c \in Children(p) : ~Unsettled(c)
    BY <2>1, <2>2, <2>3 DEF Unsettled, Pending
  <2>5. Shown(p)
    BY DEF Strong, FanIn
  <2>6. tasks[p].status = FanInStatus(p)
    <3> HIDE DEF Unsettled, Children, FanInStatus
    <3> QED BY <2>1, <2>4, <2>5 DEF Shown
  <2> HIDE DEF Children
  <2> QED BY <2>6 DEF FanInStatus
<1> QED BY <1>1, StrengthenedHolds, PTL

==============================================================================
