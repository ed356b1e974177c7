--------------------------- MODULE PlatformProofs ---------------------------
(***************************************************************************)
(* What the components of Platform promise for every value of the          *)
(* constants.  A step of the platform is a step of one component and       *)
(* leaves the others alone, so each component has an invariant of its own. *)
(***************************************************************************)
EXTENDS Platform, TLAPS

------------------------------------------------------------------------------
(* Releases.  A directory that has its name keeps it, so whatever a call has verified or   *)
(* read is installed.  While nothing is disturbed there is one call at most: what it has   *)
(* read is still current, what a rollback goes to is still previous, and between its two   *)
(* links it holds what makes the second one differ from the first.                         *)
Acting(c) == releaseCalls[c].at \in R!Running

(* What the links and the calls name is installed. *)
LinksInstalled ==
  /\ \A r \in {current, previous} \ {NoRelease} : tree[r] # "absent"
  /\ \A c \in Calls : Acting(c) => releaseCalls[c].of \in Releases
  /\ \A c \in Calls : releaseCalls[c].at \in {"first", "second"} =>
       /\ tree[releaseCalls[c].of] # "absent"
       /\ releaseCalls[c].read # NoRelease => tree[releaseCalls[c].read] # "absent"

OneCall == \A c, d \in Calls : Acting(c) /\ Acting(d) => c = d

(* The links when no call is between them. *)
LinksDiffer ==
  (\A c \in Calls : releaseCalls[c].at # "second") =>
    IF current = NoRelease THEN previous = NoRelease ELSE current # previous

(* What a call that is alone knows of the links. *)
CallKnows(c) ==
  /\ releaseCalls[c].at = "first" => releaseCalls[c].read = current
  /\ releaseCalls[c].op = "back" /\ releaseCalls[c].at \in {"verifying", "first"} =>
       releaseCalls[c].of = previous /\ previous # NoRelease
  /\ releaseCalls[c].op = "activate" /\ releaseCalls[c].at = "second" => releaseCalls[c].of # previous
  /\ releaseCalls[c].op = "back" /\ releaseCalls[c].at = "second" =>
       releaseCalls[c].of = current /\ releaseCalls[c].read \notin {NoRelease, releaseCalls[c].of}

CallsInOrder == ~releaseDisturbed => OneCall /\ LinksDiffer /\ \A c \in Calls : CallKnows(c)

ReleaseInv == R!TypeOK /\ LinksInstalled /\ CallsInOrder

LEMMA ReleaseInitSound == R!Init => ReleaseInv
<1> SUFFICES ASSUME R!Init PROVE ReleaseInv
  OBVIOUS
<1>1. R!TypeOK
  BY DEF R!Init, R!TypeOK, R!NoCall, R!Links, R!Running
<1>2. LinksInstalled
  BY DEF R!Init, LinksInstalled, Acting, R!NoCall, R!Running
<1>3. CallsInOrder
  BY DEF R!Init, CallsInOrder, OneCall, LinksDiffer, CallKnows, Acting, R!NoCall, R!Running
<1> QED BY <1>1, <1>2, <1>3 DEF ReleaseInv

(* Every call begins like this. *)
LEMMA CallBegins ==
  ASSUME ReleaseInv, NEW c \in Calls, NEW r \in Releases,
         NEW op \in {"snapshot", "activate", "back"}, NEW stage \in {"staging", "verifying"},
         R!Begins(c, op, r, stage), op = "back" => r = previous,
         UNCHANGED <<tree, current, previous, releaseUp>>
  PROVE  ReleaseInv'
<1> USE DEF ReleaseInv
<1>1. R!TypeOK'
  <2>1. releaseCalls' \in [Calls -> [op : {"none", "snapshot", "activate", "back"}, of : R!Links,
                             at : R!Running \cup {"none"}, read : R!Links]]
    BY DEF R!TypeOK, R!Begins, R!Links, R!Running
  <2> QED BY <2>1 DEF R!TypeOK, R!Begins, R!Alone
<1>2. LinksInstalled'
  BY DEF R!TypeOK, R!Begins, LinksInstalled, Acting, R!Running
<1>3. CallsInOrder'
  <2>1. SUFFICES ASSUME ~releaseDisturbed' PROVE CallsInOrder'
    BY DEF CallsInOrder
  <2>2. ~releaseDisturbed /\ R!Alone(c) /\ releaseCalls[c].at = "none"
    <3>1. releaseDisturbed' = (releaseDisturbed \/ ~R!Alone(c)) /\ releaseCalls[c] = R!NoCall
      BY DEF R!Begins
    <3>2. ~releaseDisturbed /\ R!Alone(c)
      BY <2>1, <3>1 DEF R!TypeOK
    <3> QED BY <3>1, <3>2 DEF R!NoCall
  <2>3. OneCall'
    BY <2>2 DEF R!TypeOK, R!Begins, OneCall, Acting, R!Alone
  <2>4. LinksDiffer'
    BY <2>2 DEF R!TypeOK, R!Begins, LinksDiffer, CallsInOrder
  <2>5. \A d \in Calls : CallKnows(d)'
    BY NameAssumption, <2>2 DEF R!TypeOK, R!Begins, CallKnows, CallsInOrder
  <2> QED BY <2>3, <2>4, <2>5 DEF CallsInOrder
<1> QED BY <1>1, <1>2, <1>3

(* A call that ends and leaves the links alone. *)
LEMMA CallEnds ==
  ASSUME ReleaseInv, NEW c \in Calls, R!Ends(c), releaseCalls[c].at # "second" \/ releaseDisturbed',
         releaseDisturbed => releaseDisturbed', releaseDisturbed' \in BOOLEAN, releaseUp' = releaseUp,
         tree' \in [Releases -> {"absent", "whole", "damaged"}],
         \A r \in Releases : tree[r] # "absent" => tree'[r] # "absent",
         UNCHANGED <<current, previous>>
  PROVE  ReleaseInv'
<1> USE DEF ReleaseInv
<1>1. R!TypeOK'
  BY DEF R!TypeOK, R!Ends, R!NoCall, R!Links, R!Running
<1>2. LinksInstalled'
  BY DEF R!TypeOK, R!Ends, R!NoCall, LinksInstalled, Acting, R!Running, R!Links
<1>3. CallsInOrder'
  BY DEF R!TypeOK, R!Ends, R!NoCall, CallsInOrder, OneCall, Acting, R!Running, LinksDiffer, CallKnows
<1> QED BY <1>1, <1>2, <1>3

LEMMA CallVerified ==
  ASSUME ReleaseInv, NEW c \in Calls, R!Verified(c)
  PROVE  ReleaseInv'
<1> USE DEF ReleaseInv
<1>1. R!TypeOK'
  BY DEF R!TypeOK, R!Verified, R!Running
<1>2. LinksInstalled'
  BY DEF R!TypeOK, R!Verified, R!Passes, LinksInstalled, Acting, R!Running, R!Links
<1>3. CallsInOrder'
  BY DEF R!TypeOK, R!Verified, CallsInOrder, OneCall, Acting, R!Running, LinksDiffer, CallKnows
<1> QED BY <1>1, <1>2, <1>3

LEMMA ActivateFirstSound ==
  ASSUME ReleaseInv, NEW c \in Calls, R!ActivateFirst(c)
  PROVE  ReleaseInv'
<1> USE DEF ReleaseInv
<1>1. CASE releaseCalls[c].read = releaseCalls[c].of
  <2>1. R!Ends(c) /\ releaseCalls[c].at = "first" /\ UNCHANGED <<tree, current, previous, releaseUp, releaseDisturbed>>
    BY <1>1 DEF R!ActivateFirst
  <2> QED BY <2>1, CallEnds DEF R!TypeOK
<1>2. CASE releaseCalls[c].read # releaseCalls[c].of
  <2>1. /\ releaseCalls[c].at = "first" /\ releaseCalls[c].op = "activate"
        /\ releaseCalls' = [releaseCalls EXCEPT ![c].at = "second"]
        /\ previous' = IF releaseCalls[c].read # NoRelease THEN releaseCalls[c].read ELSE previous
        /\ UNCHANGED <<tree, current, releaseUp, releaseDisturbed>>
    BY <1>2 DEF R!ActivateFirst, R!Moves
  <2>2. R!TypeOK'
    BY <2>1 DEF R!TypeOK, R!Running
  <2>3. LinksInstalled'
    BY <2>1 DEF R!TypeOK, LinksInstalled, Acting, R!Running
  <2>4. CallsInOrder'
    <3>1. SUFFICES ASSUME ~releaseDisturbed PROVE CallsInOrder'
      BY <2>1 DEF CallsInOrder
    <3>2. OneCall'
      BY <2>1, <3>1 DEF R!TypeOK, CallsInOrder, OneCall, Acting, R!Running
    <3>3. LinksDiffer'
      BY <2>1 DEF R!TypeOK, LinksDiffer
    <3>4. releaseCalls[c].of \in Releases /\ releaseCalls[c].read = current
      BY <2>1, <3>1 DEF LinksInstalled, Acting, R!Running, CallsInOrder, CallKnows
    <3>5. current = NoRelease => previous = NoRelease
      BY <2>1, <3>1 DEF CallsInOrder, OneCall, Acting, R!Running, LinksDiffer
    <3>6. releaseCalls[c].of # previous'
      BY <2>1, <1>2, <3>4, <3>5
    <3>7. \A d \in Calls \ {c} : ~Acting(d)
      BY <2>1, <3>1 DEF CallsInOrder, OneCall, Acting, R!Running
    <3>8. CallKnows(c)'
      BY <2>1, <3>6 DEF R!TypeOK, CallKnows
    <3>9. ASSUME NEW d \in Calls \ {c} PROVE CallKnows(d)'
      BY <2>1, <3>7 DEF R!TypeOK, CallKnows, Acting, R!Running
    <3> QED BY <3>2, <3>3, <3>8, <3>9 DEF CallsInOrder
  <2> QED BY <2>2, <2>3, <2>4
<1> QED BY <1>1, <1>2

LEMMA ActivateSecondSound ==
  ASSUME ReleaseInv, NEW c \in Calls, R!ActivateSecond(c)
  PROVE  ReleaseInv'
<1> USE DEF ReleaseInv
<1>1. /\ releaseCalls[c].at = "second" /\ releaseCalls[c].op = "activate"
      /\ releaseCalls' = [releaseCalls EXCEPT ![c] = R!NoCall]
      /\ current' = releaseCalls[c].of
      /\ UNCHANGED <<tree, previous, releaseUp>>
  BY DEF R!ActivateSecond, R!Ends
<1>2. R!TypeOK'
  BY <1>1 DEF R!TypeOK, R!ActivateSecond, R!NoCall, R!Links, R!Running
<1>3. LinksInstalled'
  BY <1>1 DEF R!TypeOK, LinksInstalled, Acting, R!Running, R!NoCall
<1>4. CallsInOrder'
  <2>1. SUFFICES ASSUME ~releaseDisturbed' PROVE CallsInOrder'
    BY DEF CallsInOrder
  <2>2. releaseCalls[c].of # previous /\ \A d \in Calls \ {c} : ~Acting(d)
    <3>1. CASE releaseDisturbed
      BY <2>1, <3>1 DEF R!ActivateSecond, R!Alone, Acting
    <3>2. CASE ~releaseDisturbed
      BY <1>1, <3>2 DEF CallsInOrder, OneCall, Acting, R!Running, CallKnows
    <3> QED BY <3>1, <3>2
  <2>3. \A d \in Calls : releaseCalls'[d].at \notin R!Running
    BY <1>1, <2>2 DEF R!TypeOK, Acting, R!NoCall, R!Running
  <2>4. current' # previous' /\ current' # NoRelease
    BY NameAssumption, <1>1, <2>2 DEF LinksInstalled, Acting, R!Running
  <2> QED BY <2>3, <2>4 DEF CallsInOrder, OneCall, Acting, R!Running, LinksDiffer, CallKnows
<1> QED BY <1>2, <1>3, <1>4

LEMMA BackFirstSound ==
  ASSUME ReleaseInv, NEW c \in Calls, R!BackFirst(c)
  PROVE  ReleaseInv'
<1> USE DEF ReleaseInv
<1>1. /\ releaseCalls[c].at = "first" /\ releaseCalls[c].op = "back"
      /\ releaseCalls' = [releaseCalls EXCEPT ![c].at = "second"]
      /\ current' = releaseCalls[c].of
      /\ UNCHANGED <<tree, previous, releaseUp, releaseDisturbed>>
  BY DEF R!BackFirst, R!Moves
<1>2. R!TypeOK'
  BY <1>1 DEF R!TypeOK, R!Links, R!Running
<1>3. LinksInstalled'
  BY <1>1 DEF R!TypeOK, LinksInstalled, Acting, R!Running
<1>4. CallsInOrder'
  <2>1. SUFFICES ASSUME ~releaseDisturbed PROVE CallsInOrder'
    BY <1>1 DEF CallsInOrder
  <2>2. \A d \in Calls \ {c} : ~Acting(d)
    BY <1>1, <2>1 DEF CallsInOrder, OneCall, Acting, R!Running
  <2>3. releaseCalls[c].read = current /\ releaseCalls[c].of = previous /\ previous # NoRelease
    BY <1>1, <2>1 DEF CallsInOrder, CallKnows
  <2>4. \A d \in Calls : releaseCalls[d].at # "second"
    BY <1>1, <2>2 DEF Acting, R!Running
  <2>5. current # NoRelease /\ current # previous
    BY <2>1, <2>3, <2>4 DEF CallsInOrder, LinksDiffer
  <2>6. OneCall'
    BY <1>1, <2>1 DEF R!TypeOK, CallsInOrder, OneCall, Acting, R!Running
  <2>7. LinksDiffer'
    BY <1>1 DEF R!TypeOK, LinksDiffer
  <2>8. CallKnows(c)'
    BY <1>1, <2>3, <2>5 DEF R!TypeOK, CallKnows
  <2>9. ASSUME NEW d \in Calls \ {c} PROVE CallKnows(d)'
    BY <1>1, <2>2 DEF R!TypeOK, CallKnows, Acting, R!Running
  <2> QED BY <2>6, <2>7, <2>8, <2>9 DEF CallsInOrder
<1> QED BY <1>2, <1>3, <1>4

LEMMA BackSecondSound ==
  ASSUME ReleaseInv, NEW c \in Calls, R!BackSecond(c)
  PROVE  ReleaseInv'
<1> USE DEF ReleaseInv
<1>1. /\ releaseCalls[c].at = "second" /\ releaseCalls[c].op = "back"
      /\ releaseCalls' = [releaseCalls EXCEPT ![c] = R!NoCall]
      /\ previous' = IF releaseCalls[c].read \notin {NoRelease, releaseCalls[c].of} THEN releaseCalls[c].read ELSE previous
      /\ UNCHANGED <<tree, current, releaseUp, releaseDisturbed>>
  BY DEF R!BackSecond, R!BackSecondLink, R!Ends
<1>2. R!TypeOK'
  BY <1>1 DEF R!TypeOK, R!NoCall, R!Links, R!Running
<1>3. LinksInstalled'
  BY <1>1 DEF R!TypeOK, LinksInstalled, Acting, R!Running, R!NoCall
<1>4. CallsInOrder'
  <2>1. SUFFICES ASSUME ~releaseDisturbed PROVE CallsInOrder'
    BY <1>1 DEF CallsInOrder
  <2>2. \A d \in Calls \ {c} : ~Acting(d)
    BY <1>1, <2>1 DEF CallsInOrder, OneCall, Acting, R!Running
  <2>3. \A d \in Calls : releaseCalls'[d].at \notin R!Running
    BY <1>1, <2>2 DEF R!TypeOK, Acting, R!NoCall, R!Running
  <2>4. releaseCalls[c].of = current /\ releaseCalls[c].read \notin {NoRelease, releaseCalls[c].of}
    BY <1>1, <2>1 DEF CallsInOrder, CallKnows
  <2>5. current' # previous' /\ current' # NoRelease
    BY NameAssumption, <1>1, <2>4 DEF LinksInstalled, Acting, R!Running
  <2> QED BY <2>3, <2>5 DEF CallsInOrder, OneCall, Acting, R!Running, LinksDiffer, CallKnows
<1> QED BY <1>2, <1>3, <1>4

LEMMA ReleaseCrashSound ==
  ASSUME ReleaseInv, R!Crash
  PROVE  ReleaseInv'
<1> USE DEF ReleaseInv
<1>1. R!TypeOK'
  BY DEF R!TypeOK, R!Crash, R!NoCall, R!Links, R!Running
<1>2. LinksInstalled'
  BY DEF R!Crash, R!NoCall, LinksInstalled, Acting, R!Running
<1>3. CallsInOrder'
  BY DEF R!Crash, R!NoCall, CallsInOrder, OneCall, Acting, R!Running, LinksDiffer, CallKnows
<1> QED BY <1>1, <1>2, <1>3

LEMMA ReleaseNextSound ==
  ASSUME ReleaseInv, [R!Next]_(R!vars)
  PROVE  ReleaseInv'
<1> USE DEF ReleaseInv
<1>1. ASSUME NEW c \in Calls, NEW r \in Releases, R!Snapshot(c, r) \/ R!Activate(c, r)
      PROVE  ReleaseInv'
  BY <1>1, CallBegins DEF R!Snapshot, R!Activate
<1>2. ASSUME NEW c \in Calls, R!Rollback(c)
      PROVE  ReleaseInv'
  BY <1>2, CallBegins DEF R!Rollback, R!TypeOK, R!Links
<1>3. ASSUME NEW c \in Calls, R!Staged(c)
      PROVE  ReleaseInv'
  <2>1. tree' \in [Releases -> {"absent", "whole", "damaged"}]
        /\ \A r \in Releases : tree[r] # "absent" => tree'[r] # "absent"
    BY <1>3 DEF R!Staged, R!Installed, R!TypeOK
  <2> QED BY <1>3, <2>1, CallEnds DEF R!Staged, R!TypeOK
<1>4. ASSUME NEW c \in Calls, R!FailsBefore(c) \/ R!FailsBetween(c)
      PROVE  ReleaseInv'
  BY <1>4, CallEnds DEF R!FailsBefore, R!FailsBetween, R!TypeOK
<1>5. ASSUME NEW c \in Calls,
             \/ R!Verified(c) \/ R!ActivateFirst(c) \/ R!ActivateSecond(c) \/ R!BackFirst(c) \/ R!BackSecond(c)
      PROVE  ReleaseInv'
  BY <1>5, CallVerified, ActivateFirstSound, ActivateSecondSound, BackFirstSound, BackSecondSound
<1>6. ASSUME NEW r \in Releases, R!Damage(r)
      PROVE  ReleaseInv'
  BY <1>6 DEF R!Damage, R!TypeOK, LinksInstalled, Acting, CallsInOrder, OneCall, LinksDiffer, CallKnows
<1>7. CASE R!Crash
  BY <1>7, ReleaseCrashSound
<1>8. CASE R!Start
  BY <1>8 DEF R!Start, R!TypeOK, LinksInstalled, Acting, CallsInOrder, OneCall, LinksDiffer, CallKnows
<1>9. CASE UNCHANGED R!vars
  BY <1>9 DEF R!vars, R!TypeOK, LinksInstalled, Acting, CallsInOrder, OneCall, LinksDiffer, CallKnows
<1> QED BY <1>1, <1>2, <1>3, <1>4, <1>5, <1>6, <1>7, <1>8, <1>9 DEF R!Next

LEMMA ReleaseSteps == [Next]_vars => [R!Next]_(R!vars)
  BY DEF Next, Releasing, Supervising, Registering, Sweeping, Completing, Naming, Talking, Receiving,
         vars, releases, R!vars

(* Both links name installed releases, and a release that runs has another to go back to   *)
(* (release-manager.ts activate, rollback).                                                *)
THEOREM RollbackCorrect == Spec => []RollbackLeadsElsewhere
<1>1. Init => ReleaseInv
  BY ReleaseInitSound DEF Init
<1>2. ReleaseInv /\ [Next]_vars => ReleaseInv'
  BY ReleaseNextSound, ReleaseSteps
<1>3. ReleaseInv => RollbackLeadsElsewhere
  BY DEF ReleaseInv, LinksInstalled, CallsInOrder, LinksDiffer, RollbackLeadsElsewhere, R!RollbackLeadsElsewhere
<1> QED BY <1>1, <1>2, <1>3, PTL DEF Spec

------------------------------------------------------------------------------
(* The registry of repositories.  Every table there is, in memory, in the two files and in *)
(* the saves under way, has at most one default.  While no saves have overlapped there is  *)
(* one at most; it has the temporary file open, and once it has written, that file is its  *)
(* table.                                                                                  *)
OneDefault(rows) == \A i, j \in Ids : rows[i] = "default" /\ rows[j] = "default" => i = j

DefaultsSound ==
  /\ OneDefault(repos) /\ OneDefault(registryFile) /\ OneDefault(tmp)
  /\ \A c \in Calls : OneDefault(saves[c].table)

SavesSound ==
  ~tangled =>
    /\ registryFile = acked
    /\ \A c, d \in Calls : saves[c].at # "none" /\ saves[d].at # "none" => c = d
    /\ \A c \in Calls : saves[c].at # "none" => saves[c].on = "tmp"
    /\ \A c \in Calls : saves[c].at = "renaming" => tmp = saves[c].table

RegistryInv == G!TypeOK /\ DefaultsSound /\ SavesSound

(* An empty table has no default. *)
LEMMA EmptyIsOneDefault == G!Empty \in G!Table /\ OneDefault(G!Empty)
  BY DEF G!Empty, G!Table, OneDefault

(* A registration leaves at most one default. *)
LEMMA RegisterKeepsOne ==
  ASSUME NEW i \in Ids, NEW isDefault \in {"yes", "no", "unset"}, repos \in G!Table, OneDefault(repos)
  PROVE  LET rows == [j \in Ids |->
                         IF j = i THEN IF G!Marked(i, isDefault) THEN "default" ELSE "plain"
                         ELSE IF isDefault = "yes" /\ repos[j] = "default" THEN "plain"
                         ELSE repos[j]]
         IN rows \in G!Table /\ OneDefault(rows)
<1> DEFINE rows == [j \in Ids |->
                       IF j = i THEN IF G!Marked(i, isDefault) THEN "default" ELSE "plain"
                       ELSE IF isDefault = "yes" /\ repos[j] = "default" THEN "plain"
                       ELSE repos[j]]
<1>1. rows \in G!Table
  BY DEF G!Table
<1>2. ASSUME NEW j \in Ids, rows[j] = "default", j # i
      PROVE  rows[i] # "default"
  <2>1. isDefault # "yes" /\ repos[j] = "default"
    BY <1>2
  <2>2. repos[i] # "default" /\ G!Known(repos) # {}
    BY <2>1, <1>2 DEF OneDefault, G!Known
  <2> QED BY <2>1, <2>2, <1>2 DEF G!Marked
<1>3. ASSUME NEW j \in Ids, NEW k \in Ids, rows[j] = "default", rows[k] = "default"
      PROVE  j = k
  <2>1. CASE j = i \/ k = i
    BY <2>1, <1>2, <1>3
  <2>2. CASE j # i /\ k # i
    <3>1. repos[j] = "default" /\ repos[k] = "default"
      BY <2>2, <1>3
    <3> QED BY <3>1 DEF OneDefault
  <2> QED BY <2>1, <2>2
<1> QED BY <1>1, <1>3 DEF OneDefault

(* A removal leaves at most one default: the smallest id of those that stay is one. *)
LEMMA RemoveKeepsOne ==
  ASSUME NEW i \in Ids, repos \in G!Table, OneDefault(repos)
  PROVE  LET left == [repos EXCEPT ![i] = "absent"]
             first(j) == j \in G!Known(left) /\ \A k \in G!Known(left) : j <= k
             rows == [j \in Ids |-> IF G!Defaults(left) = {} /\ first(j) THEN "default" ELSE left[j]]
         IN rows \in G!Table /\ OneDefault(rows)
<1> DEFINE left == [repos EXCEPT ![i] = "absent"]
           first(j) == j \in G!Known(left) /\ \A k \in G!Known(left) : j <= k
           rows == [j \in Ids |-> IF G!Defaults(left) = {} /\ first(j) THEN "default" ELSE left[j]]
<1>1. left \in G!Table /\ OneDefault(left)
  BY DEF G!Table, OneDefault
<1>2. rows \in G!Table
  BY <1>1 DEF G!Table
<1>3. ASSUME NEW j \in Ids, NEW k \in Ids, rows[j] = "default", rows[k] = "default"
      PROVE  j = k
  <2>1. CASE G!Defaults(left) = {}
    <3>1. left[j] # "default" /\ left[k] # "default"
      BY <2>1 DEF G!Defaults
    <3>2. first(j) /\ first(k)
      BY <3>1, <1>3
    <3>3. j <= k /\ k <= j
      BY <3>2
    <3> QED BY <3>3, NameAssumption
  <2>2. CASE G!Defaults(left) # {}
    <3> HIDE DEF left
    <3> QED BY <2>2, <1>1, <1>3 DEF OneDefault
  <2> QED BY <2>1, <2>2
<1> QED BY <1>2, <1>3 DEF OneDefault

LEMMA RegistryInitSound == G!Init => RegistryInv
<1> SUFFICES ASSUME G!Init PROVE RegistryInv
  OBVIOUS
<1>1. G!TypeOK
  BY EmptyIsOneDefault DEF G!Init, G!TypeOK, G!NoSave
<1>2. DefaultsSound
  BY EmptyIsOneDefault DEF G!Init, DefaultsSound, G!NoSave
<1>3. SavesSound
  BY DEF G!Init, SavesSound, G!NoSave
<1> QED BY <1>1, <1>2, <1>3 DEF RegistryInv

(* A change of the table, whatever it is, begins a save of it. *)
LEMMA ChangesSound ==
  ASSUME RegistryInv, NEW c \in Calls, NEW rows \in G!Table, OneDefault(rows),
         saves[c].at = "none", G!Changes(c, rows)
  PROVE  RegistryInv'
<1> USE DEF RegistryInv
<1>1. G!TypeOK'
  BY EmptyIsOneDefault DEF G!TypeOK, G!Changes, G!Persist, G!Torn
<1>2. DefaultsSound'
  BY EmptyIsOneDefault DEF G!TypeOK, G!Changes, G!Persist, G!Torn, DefaultsSound
<1>3. SavesSound'
  BY DEF G!TypeOK, G!Changes, G!Persist, SavesSound
<1> QED BY <1>1, <1>2, <1>3

LEMMA WrittenSound ==
  ASSUME RegistryInv, NEW c \in Calls, G!Written(c)
  PROVE  RegistryInv'
<1> USE DEF RegistryInv
<1>1. PICK text \in {saves[c].table} \cup
                    (IF \E d \in Calls \ {c} : saves[d].at # "none" THEN {G!Torn} ELSE {}) :
        /\ tmp' = IF saves[c].on = "tmp" THEN text ELSE tmp
        /\ registryFile' = IF saves[c].on = "file" THEN text ELSE registryFile
  BY DEF G!Written
<1>2. text \in G!Table /\ OneDefault(text)
  BY EmptyIsOneDefault DEF G!TypeOK, DefaultsSound, G!Torn
<1>3. saves' = [saves EXCEPT ![c].at = "renaming"] /\ saves[c].at = "writing"
      /\ UNCHANGED <<repos, exists, acked, tangled>>
  BY DEF G!Written
<1>4. G!TypeOK'
  BY <1>1, <1>2, <1>3 DEF G!TypeOK
<1>5. DefaultsSound'
  BY <1>1, <1>2, <1>3 DEF G!TypeOK, DefaultsSound
<1>6. SavesSound'
  <2>1. SUFFICES ASSUME ~tangled PROVE SavesSound'
    BY <1>3 DEF SavesSound
  <2>2. saves[c].on = "tmp" /\ \A d \in Calls \ {c} : saves[d].at = "none"
    BY <2>1, <1>3 DEF SavesSound
  <2>3. text = saves[c].table
    BY <2>2
  <2>4. tmp' = saves[c].table /\ registryFile' = registryFile
    BY <2>2, <2>3, <1>1
  <2>5. \A d \in Calls : saves'[d].at # "none" => d = c
    BY <2>2, <1>3 DEF G!TypeOK
  <2>6. saves'[c].table = saves[c].table /\ saves'[c].on = saves[c].on
    BY <1>3 DEF G!TypeOK
  <2> QED BY <2>1, <2>2, <2>4, <2>5, <2>6, <1>3 DEF SavesSound
<1> QED BY <1>4, <1>5, <1>6

LEMMA RenamedSound ==
  ASSUME RegistryInv, NEW c \in Calls, G!Renamed(c)
  PROVE  RegistryInv'
<1> USE DEF RegistryInv
<1>1. G!TypeOK'
  BY EmptyIsOneDefault DEF G!TypeOK, G!Renamed, G!NoSave
<1>2. DefaultsSound'
  BY EmptyIsOneDefault DEF G!TypeOK, G!Renamed, G!NoSave, DefaultsSound
<1>3. SavesSound'
  <2>1. SUFFICES ASSUME ~tangled PROVE SavesSound'
    BY DEF G!Renamed, SavesSound
  <2>2. tmp = saves[c].table /\ \A d \in Calls \ {c} : saves[d].at = "none"
    BY <2>1 DEF SavesSound, G!Renamed
  <2>3. \A d \in Calls : saves'[d].at = "none"
    BY <2>2 DEF G!Renamed, G!NoSave, G!TypeOK
  <2>4. registryFile' = acked'
    BY <2>2 DEF G!Renamed
  <2> QED BY <2>3, <2>4 DEF SavesSound
<1> QED BY <1>1, <1>2, <1>3

LEMMA RegistryNextSound ==
  ASSUME RegistryInv, [G!Next]_(G!vars)
  PROVE  RegistryInv'
<1> USE DEF RegistryInv
<1>1. ASSUME NEW c \in Calls, NEW i \in Ids, NEW isDefault \in {"yes", "no", "unset"},
             G!Register(c, i, isDefault)
      PROVE  RegistryInv'
  BY <1>1, RegisterKeepsOne, ChangesSound DEF G!Register, G!TypeOK, DefaultsSound
<1>2. ASSUME NEW c \in Calls, NEW i \in Ids, G!Remove(c, i)
      PROVE  RegistryInv'
  BY <1>2, RemoveKeepsOne, ChangesSound DEF G!Remove, G!TypeOK, DefaultsSound
<1>3. ASSUME NEW c \in Calls, G!Written(c)
      PROVE  RegistryInv'
  BY <1>3, WrittenSound
<1>4. ASSUME NEW c \in Calls, G!Renamed(c)
      PROVE  RegistryInv'
  BY <1>4, RenamedSound
<1>5. ASSUME NEW c \in Calls, G!PersistFails(c)
      PROVE  RegistryInv'
  BY <1>5, EmptyIsOneDefault DEF G!PersistFails, G!TypeOK, DefaultsSound, SavesSound, G!NoSave
<1>6. CASE G!Restart
  BY <1>6, EmptyIsOneDefault DEF G!Restart, G!TypeOK, DefaultsSound, SavesSound, G!NoSave
<1>7. CASE UNCHANGED G!vars
  BY <1>7 DEF G!vars, G!TypeOK, DefaultsSound, SavesSound
<1> QED BY <1>1, <1>2, <1>3, <1>4, <1>5, <1>6, <1>7 DEF G!Next

LEMMA RegistrySteps == [Next]_vars => [G!Next]_(G!vars)
  BY DEF Next, Releasing, Supervising, Registering, Sweeping, Completing, Naming, Talking, Receiving,
         vars, registry, G!vars

(* A restart finds what the last save wrote, unless saves overlapped (repo-registry.ts     *)
(* persist) or the file could not be read.                                                 *)
THEOREM RegistryCorrect == Spec => []RegistrySurvives
<1>1. Init => RegistryInv
  BY RegistryInitSound DEF Init
<1>2. RegistryInv /\ [Next]_vars => RegistryInv'
  BY RegistryNextSound, RegistrySteps
<1>3. RegistryInv => RegistrySurvives
  BY DEF RegistryInv, SavesSound, RegistrySurvives, G!RegistrySurvives
<1> QED BY <1>1, <1>2, <1>3, PTL DEF Spec

(* No two repositories are the default, in the table or after a restart, whatever          *)
(* overlapped, failed or was lost (repo-registry.ts register, remove).                     *)
THEOREM DefaultCorrect == Spec => []G!OneDefaultAtMost
<1>1. Init => RegistryInv
  BY RegistryInitSound DEF Init
<1>2. RegistryInv /\ [Next]_vars => RegistryInv'
  BY RegistryNextSound, RegistrySteps
<1>3. RegistryInv => G!OneDefaultAtMost
  BY DEF RegistryInv, DefaultsSound, OneDefault, G!OneDefaultAtMost
<1> QED BY <1>1, <1>2, <1>3, PTL DEF Spec

------------------------------------------------------------------------------
(* Workers.  A worker has its session and its directory from its launch to its end because *)
(* a sweep that is under way either has it among those it spares or has nothing of it in   *)
(* hand; that a sweep at rest has nothing in hand makes the next one begin so.             *)
(* No sweep is after task t. *)
Spared(t) ==
  \A s \in Sweeps :
    /\ sweeps[s].at \in {"listing", "asking"} => t \in sweeps[s].spared
    /\ t \notin sweeps[s].found

AtWork == {"launching", "launched", "working"}

WorkersSound ==
  \A t \in Tasks :
    /\ workerStep[t] \in AtWork => workerStatus[t] = "running"
    /\ workerStep[t] \in {"launched", "working"} /\ t \notin late =>
         t \in path /\ dirs[t] # "absent" /\ Spared(t)
    /\ workerStep[t] = "working" /\ t \notin late => t \in live \/ t \in requested

IdleIsEmpty == \A s \in Sweeps : sweeps[s].at = "idle" => sweeps[s].found = {}

SweepInv == W!TypeOK /\ WorkersSound /\ IdleIsEmpty

LEMMA SweepInitSound == W!Init => SweepInv
<1> SUFFICES ASSUME W!Init PROVE SweepInv
  OBVIOUS
<1>1. W!TypeOK
  BY DEF W!Init, W!TypeOK, W!NoSweep, W!Statuses, W!Open
<1>2. WorkersSound /\ IdleIsEmpty
  BY DEF W!Init, WorkersSound, IdleIsEmpty, AtWork, W!NoSweep
<1> QED BY <1>1, <1>2 DEF SweepInv

LEMMA WorkersTyped == W!TypeOK /\ [W!Next]_(W!vars) => W!TypeOK'
<1> SUFFICES ASSUME W!TypeOK, [W!Next]_(W!vars) PROVE W!TypeOK'
  OBVIOUS
<1> USE NameAssumption DEF W!TypeOK, W!worker, W!history
<1>1. ASSUME NEW t \in Tasks, W!Starts(t) \/ W!Launched(t) \/ W!WorkerStarts(t) \/ W!WorkerEnds(t) \/ W!Finishes(t)
      PROVE  W!TypeOK'
  BY <1>1 DEF W!Starts, W!Launched, W!WorkerStarts, W!WorkerEnds, W!Finishes, W!Statuses, W!Open
<1>2. ASSUME NEW t \in Tasks, NEW verdict \in W!Statuses, W!LaunchFails(t, verdict) \/ W!Settles(t, verdict)
      PROVE  W!TypeOK'
  BY <1>2 DEF W!LaunchFails, W!Settles
<1>3. ASSUME NEW t \in Tasks, W!Retry(t) \/ W!Ages(t) \/ W!StopWorker(t) \/ W!WorkerStopped(t)
      PROVE  W!TypeOK'
  BY <1>3 DEF W!Retry, W!Ages, W!StopWorker, W!WorkerStopped, W!Statuses, W!Open
<1>4. ASSUME NEW t \in Tasks, W!Expires(t) \/ W!Expired(t) \/ W!Removes(t)
      PROVE  W!TypeOK'
  <2>1. dirs' \in [Tasks -> {"absent", "fresh", "stale"}] /\ path' \in SUBSET Tasks
    BY <1>4 DEF W!Expires, W!Expired, W!Removes
  <2>2. PICK found \in SUBSET Tasks : sweeps' = [sweeps EXCEPT ![Maintenance].found = found]
    <3>1. CASE W!Expires(t) \/ W!Expired(t)
      BY <3>1 DEF W!Expires, W!Expired
    <3>2. CASE W!Removes(t)
      <4>1. sweeps' = [sweeps EXCEPT ![Maintenance].found = sweeps[Maintenance].found \ {t}]
        BY <3>2 DEF W!Removes
      <4>2. sweeps[Maintenance].found \ {t} \in SUBSET Tasks
        OBVIOUS
      <4> QED BY <4>1, <4>2
    <3> QED BY <1>4, <3>1, <3>2
  <2>3. UNCHANGED <<workerStatus, workerStep, live, stopping, late, requested>>
    BY <1>4 DEF W!Expires, W!Expired, W!Removes
  <2>4. sweeps[Maintenance].found \in SUBSET Tasks /\ found \in SUBSET Tasks
    OBVIOUS
  <2> QED BY <2>1, <2>2, <2>3, <2>4
<1>5. ASSUME NEW t \in Tasks, NEW s \in Sweeps, W!Kills(s, t)
      PROVE  W!TypeOK'
  BY <1>5 DEF W!Kills
<1>6. CASE W!MaintenanceBegins \/ W!LooksAtWorktrees \/ W!Lists
  BY <1>6 DEF W!MaintenanceBegins, W!LooksAtWorktrees, W!Lists, W!Looks, W!Needed
<1>7. ASSUME NEW s \in Sweeps, W!LooksAtSessions(s) \/ W!Asks(s) \/ W!SweepEnds(s)
      PROVE  W!TypeOK'
  BY <1>7 DEF W!LooksAtSessions, W!Asks, W!SweepEnds, W!Looks, W!Working, W!NoSweep
<1>8. CASE W!Restart
  BY <1>8 DEF W!Restart, W!NoSweep, W!Statuses, W!Open
<1>9. CASE UNCHANGED W!vars
  BY <1>9 DEF W!vars
<1> QED BY <1>1, <1>2, <1>3, <1>4, <1>5, <1>6, <1>7, <1>8, <1>9 DEF W!Next

LEMMA WorkersStep == SweepInv /\ [W!Next]_(W!vars) => WorkersSound' /\ IdleIsEmpty'
<1> SUFFICES ASSUME SweepInv, [W!Next]_(W!vars) PROVE WorkersSound' /\ IdleIsEmpty'
  OBVIOUS
<1> USE NameAssumption DEF SweepInv, W!TypeOK, WorkersSound, IdleIsEmpty, Spared, AtWork, W!worker, W!history
<1>1. ASSUME NEW t \in Tasks, W!Starts(t)
      PROVE  WorkersSound' /\ IdleIsEmpty'
  BY <1>1 DEF W!Starts
<1>2. ASSUME NEW t \in Tasks, W!Launched(t)
      PROVE  WorkersSound' /\ IdleIsEmpty'
  <2>1. t \notin late' => \A s \in Sweeps : sweeps[s].at = "idle"
    BY <1>2 DEF W!Launched, W!Busy
  <2> QED BY <1>2, <2>1 DEF W!Launched
<1>3. ASSUME NEW t \in Tasks, W!WorkerStarts(t) \/ W!WorkerEnds(t) \/ W!Finishes(t)
      PROVE  WorkersSound' /\ IdleIsEmpty'
  BY <1>3 DEF W!WorkerStarts, W!WorkerEnds, W!Finishes
<1>4. ASSUME NEW t \in Tasks, NEW verdict \in W!Statuses, W!LaunchFails(t, verdict) \/ W!Settles(t, verdict)
      PROVE  WorkersSound' /\ IdleIsEmpty'
  BY <1>4 DEF W!LaunchFails, W!Settles
<1>5. ASSUME NEW t \in Tasks, W!Retry(t) \/ W!Ages(t) \/ W!StopWorker(t) \/ W!WorkerStopped(t)
      PROVE  WorkersSound' /\ IdleIsEmpty'
  BY <1>5 DEF W!Retry, W!Ages, W!StopWorker, W!WorkerStopped, W!Kept
<1>6. ASSUME NEW t \in Tasks, W!Expires(t)
      PROVE  WorkersSound' /\ IdleIsEmpty'
  BY <1>6 DEF W!Expires, W!Kept
<1>7. ASSUME NEW t \in Tasks, W!Expired(t) \/ W!Removes(t)
      PROVE  WorkersSound' /\ IdleIsEmpty'
  <2>1. /\ t \in sweeps[Maintenance].found /\ sweeps[Maintenance].at \notin {"idle", "listing", "asking"}
        /\ UNCHANGED <<workerStatus, workerStep, live, stopping, late, requested>>
        /\ path \ {t} \subseteq path' /\ \A u \in Tasks \ {t} : dirs'[u] = dirs[u]
    BY <1>7 DEF W!Expired, W!Removes
  <2>2. /\ \A s \in Sweeps : sweeps'[s].at = sweeps[s].at /\ sweeps'[s].spared = sweeps[s].spared
        /\ \A s \in Sweeps : sweeps'[s].found \subseteq sweeps[s].found
    <3>1. PICK found \in SUBSET Tasks : /\ sweeps' = [sweeps EXCEPT ![Maintenance].found = found]
                                       /\ found \subseteq sweeps[Maintenance].found
      <4>1. CASE W!Expired(t)
        BY <4>1 DEF W!Expired
      <4>2. CASE W!Removes(t)
        <5>1. sweeps' = [sweeps EXCEPT ![Maintenance].found = sweeps[Maintenance].found \ {t}]
          BY <4>2 DEF W!Removes
        <5>2. sweeps[Maintenance].found \ {t} \in SUBSET Tasks
          OBVIOUS
        <5> QED BY <5>1, <5>2
      <4> QED BY <1>7, <4>1, <4>2
    <3> QED BY <3>1
  <2> QED BY <2>1, <2>2
<1>8. ASSUME NEW t \in Tasks, NEW s \in Sweeps, W!Kills(s, t)
      PROVE  WorkersSound' /\ IdleIsEmpty'
  BY <1>8 DEF W!Kills
<1>9. CASE W!MaintenanceBegins
  BY <1>9 DEF W!MaintenanceBegins, W!Looks
<1>10. CASE W!LooksAtWorktrees
  BY <1>10 DEF W!LooksAtWorktrees, W!Looks, W!Needed, W!Open
<1>11. CASE W!Lists
  BY <1>11 DEF W!Lists
<1>12. ASSUME NEW s \in Sweeps, W!LooksAtSessions(s)
      PROVE  WorkersSound' /\ IdleIsEmpty'
  BY <1>12 DEF W!LooksAtSessions, W!Looks, W!Working
<1>13. ASSUME NEW s \in Sweeps, W!Asks(s) \/ W!SweepEnds(s)
      PROVE  WorkersSound' /\ IdleIsEmpty'
  BY <1>13 DEF W!Asks, W!SweepEnds, W!NoSweep
<1>14. CASE W!Restart
  BY <1>14 DEF W!Restart, W!NoSweep
<1>15. CASE UNCHANGED W!vars
  BY <1>15 DEF W!vars
<1> QED BY <1>1, <1>2, <1>3, <1>4, <1>5, <1>6, <1>7, <1>8, <1>9, <1>10, <1>11, <1>12, <1>13, <1>14, <1>15
        DEF W!Next

LEMMA SweepSteps == [Next]_vars => [W!Next]_(W!vars)
  BY DEF Next, Releasing, Supervising, Registering, Sweeping, Completing, Naming, Talking, Receiving,
         vars, workers, W!vars, W!worker, W!history

LEMMA SweepNextSound == SweepInv /\ [W!Next]_(W!vars) => SweepInv'
  BY WorkersTyped, WorkersStep DEF SweepInv

(* No sweep takes the session or the directory from a worker that was at work when the      *)
(* sweep read what is needed, whichever other sweeps, retries and restarts come meanwhile;  *)
(* an execution that is launched during a sweep is not covered (maintenance and the worker  *)
(* sweeps of task-orchestrator.ts).                                                        *)
THEOREM SweepsCorrect == Spec => []SweepsSpareWorkers
<1>1. Init => SweepInv
  BY SweepInitSound DEF Init
<1>2. SweepInv /\ [Next]_vars => SweepInv'
  BY SweepNextSound, SweepSteps
<1>3. SweepInv => SweepsSpareWorkers
  BY DEF SweepInv, WorkersSound, AtWork, SweepsSpareWorkers, W!SweepsSpareWorkers, W!TypeOK
<1> QED BY <1>1, <1>2, <1>3, PTL DEF Spec


------------------------------------------------------------------------------
(* Completion.  Each await of an execution is between two readings of what it needs; the   *)
(* invariant says what it knows there: which branch is its own, that the pull request it   *)
(* shows counts for it, and that the reviews it has read are those of that pull request.   *)
(* The branch of this execution, and a pull request that counts for it. *)
BranchOfRun == IF output.branch = T!NoBranch THEN "own" ELSE output.branch
PrOfRun == pr \in hub /\ IF policy.target THEN pr = "foreign" ELSE T!HeadMatches(pr, BranchOfRun)

(* What the execution knows at each of its awaits. *)
RunKnows ==
  /\ status = "running" <=> step \notin {"none", "recording"}
  /\ step = "recording" => status = "done"
  /\ standing \subseteq objections
  /\ step \in {"preparing", "working"} => branch = "own"
  /\ step \in {"judging", "pushing", "checking", "enriching", "creating", "seeking", "verifying", "reviewing"} =>
       branch = BranchOfRun
  /\ step \in {"checking", "enriching"} => pr # T!NoPr
  /\ step = "reviewing" /\ policy.verified => PrOfRun

(* What it has read of the reviews holds for the pull request that it shows. *)
ReviewsRead ==
  /\ status = "running" /\ step \notin {"creating", "verifying", "reviewing"} => context = "none"
  /\ step \in {"creating", "verifying", "reviewing"} /\ context # "none" => pr # T!NoPr
  /\ step \in {"creating", "verifying", "reviewing"} /\ context = "fine" => pr \notin standing

CompletionInv == T!TypeOK /\ RunKnows /\ ReviewsRead /\ T!DoneIsVerified

LEMMA CompletionInitSound == T!Init => CompletionInv
<1> SUFFICES ASSUME T!Init PROVE CompletionInv
  OBVIOUS
<1>1. T!TypeOK
  <2>1. settings \in [commit : BOOLEAN, pr : BOOLEAN]
        /\ policy \in [verified : BOOLEAN, required : SUBSET T!Kinds, target : BOOLEAN]
    BY SettingAssumption DEF T!Init
  <2>2. runs \in 0..MaxRuns
    BY BoundAssumption DEF T!Init
  <2>3. output \in [state : {"done", "blocked"}, branch : T!Branches \cup {T!NoBranch}]
    BY DEF T!Init, T!NoOutput
  <2> QED BY <2>1, <2>2, <2>3 DEF T!Init, T!TypeOK
<1>2. RunKnows /\ ReviewsRead /\ T!DoneIsVerified
  BY DEF T!Init, RunKnows, ReviewsRead, T!DoneIsVerified
<1> QED BY <1>1, <1>2 DEF CompletionInv

LEMMA CompletionTyped == T!TypeOK /\ [T!Next]_(T!vars) => T!TypeOK'
<1> SUFFICES ASSUME T!TypeOK, [T!Next]_(T!vars) PROVE T!TypeOK'
  OBVIOUS
<1> USE DEF T!TypeOK, T!Next, T!Starts, T!Launched, T!Prepared, T!WorkerAnswers, T!WorkerFails, T!BlockedByWorker, T!Committed,
            T!Opened, T!ChecksPolled, T!Enriched, T!CreatesMissing, T!Sought, T!Verified, T!Reviewed, T!Recorded, T!RetryTask,
            T!CancelTask, T!PullRequestAppears, T!Objects, T!Dismisses, T!Ends, T!Blocked, T!Goes, T!Throws, T!Opens,
            T!ReadsContext, T!fixed, T!artifacts, T!github, T!vars
<1>1. settings' = settings /\ policy' = policy
  OBVIOUS
<1>2. status' \in {"queued", "running", "blocked", "done", "failed", "cancelled"} /\ cancelRequested' \in BOOLEAN
  OBVIOUS
<1>3. escalated' \in BOOLEAN
  OBVIOUS
<1>4. runs' \in 0..MaxRuns
  BY BoundAssumption
<1>5. step' \in {"none", "launching", "preparing", "working", "judging", "pushing", "checking",
                 "enriching", "creating", "seeking", "verifying", "reviewing", "recording"}
  OBVIOUS
<1>6. branch' \in T!Branches \cup {T!NoBranch} /\ pr' \in T!Branches \cup {T!NoPr}
  BY DEF T!Branches, T!Outputs
<1>7. commits' \in BOOLEAN /\ summary' \in BOOLEAN /\ blind' \in BOOLEAN
  OBVIOUS
<1>8. output' \in [state : {"done", "blocked"}, branch : T!Branches \cup {T!NoBranch}]
  BY DEF T!Branches, T!Outputs, T!NoOutput
<1>9. context' \in {"none", "fine", "changes"}
  BY DEF T!Context
<1>10. hub' \in SUBSET T!Branches /\ objections' \in SUBSET hub' /\ standing' \in SUBSET T!Branches
  BY DEF T!Branches
<1> QED BY <1>1, <1>2, <1>3, <1>4, <1>5, <1>6, <1>7, <1>8, <1>9, <1>10

LEMMA RunStep == CompletionInv /\ [T!Next]_(T!vars) => RunKnows' /\ ReviewsRead'
<1> SUFFICES ASSUME CompletionInv, [T!Next]_(T!vars) PROVE RunKnows' /\ ReviewsRead'
  OBVIOUS
<1> USE DEF CompletionInv, RunKnows, ReviewsRead, BranchOfRun, PrOfRun, T!Ends, T!Blocked, T!Goes, T!Throws, T!fixed, T!artifacts, T!github
<1>1. CASE T!Starts \/ T!Launched \/ T!Prepared
  BY <1>1 DEF T!Starts, T!Launched, T!Prepared
<1>2. CASE T!WorkerAnswers
  BY <1>2 DEF T!WorkerAnswers, T!Outputs
<1>3. CASE T!WorkerFails \/ T!BlockedByWorker \/ T!Committed
  BY <1>3 DEF T!WorkerFails, T!BlockedByWorker, T!Committed
<1>4. CASE T!Opened
  BY <1>4 DEF T!Opened, T!Opens, T!NoPr
<1>5. CASE T!CreatesMissing
  BY <1>5 DEF T!CreatesMissing, T!Opens, T!TypeOK, T!Branches, T!NoPr, T!NoBranch
<1>6. CASE T!ChecksPolled
  <2>1. /\ step = "checking" /\ UNCHANGED <<policy, branch, pr, output, context, hub, objections, standing>>
        /\ \/ step' = "enriching" /\ status' = status
           \/ step' = "none" /\ status' = "blocked"
           \/ UNCHANGED <<status, step>>
    BY <1>6 DEF T!ChecksPolled
  <2> QED BY <2>1
<1>7. CASE T!Enriched
  BY <1>7 DEF T!Enriched, T!ReadsContext, T!Context
<1>8. CASE T!Sought
  BY <1>8 DEF T!Sought
<1>9. CASE T!Verified \/ T!Recorded
  BY <1>9 DEF T!Verified, T!Verifies, T!Recorded
<1>10. CASE T!Reviewed
  BY <1>10 DEF T!Reviewed
<1>11. CASE T!RetryTask \/ T!CancelTask
  BY <1>11 DEF T!RetryTask, T!CancelTask
<1>12. ASSUME NEW head \in T!Branches, T!PullRequestAppears(head) \/ T!Objects(head) \/ T!Dismisses(head)
      PROVE  RunKnows' /\ ReviewsRead'
  BY <1>12 DEF T!PullRequestAppears, T!Objects, T!Dismisses
<1>13. CASE UNCHANGED T!vars
  BY <1>13 DEF T!vars
<1> QED BY <1>1, <1>2, <1>3, <1>4, <1>5, <1>6, <1>7, <1>8, <1>9, <1>10, <1>11, <1>12, <1>13 DEF T!Next

LEMMA DoneStep == CompletionInv /\ [T!Next]_(T!vars) => T!DoneIsVerified'
<1> SUFFICES ASSUME CompletionInv, [T!Next]_(T!vars), status' = "done" PROVE T!DoneIsVerified'
  BY DEF T!DoneIsVerified
<1>1. CASE T!Reviewed
  <2>1. /\ step = "reviewing" /\ T!Missing = {} /\ UNCHANGED <<T!fixed, T!artifacts, output, T!github>>
        /\ ~(pr # T!NoPr /\ context' = "changes")
        /\ IF pr # T!NoPr /\ context = "none" THEN T!ReadsContext ELSE UNCHANGED <<context, blind>>
    BY <1>1 DEF T!Reviewed, T!Blocked, T!Ends
  <2>2. \A kind \in policy.required : T!Has(kind)'
    BY <2>1 DEF T!Missing, T!Has, T!fixed, T!artifacts
  <2>3. policy.verified => PrOfRun
    BY <2>1 DEF CompletionInv, RunKnows
  <2>4. pr \in standing => blind'
    <3>1. CASE pr = T!NoPr
      BY <3>1 DEF CompletionInv, T!TypeOK, T!NoPr, T!Branches
    <3>2. CASE pr # T!NoPr /\ context = "none"
      BY <2>1, <3>2 DEF T!ReadsContext, T!Context, CompletionInv, RunKnows
    <3>3. CASE pr # T!NoPr /\ context # "none"
      BY <2>1, <3>3 DEF CompletionInv, T!TypeOK, ReviewsRead
    <3> QED BY <3>1, <3>2, <3>3
  <2> QED BY <2>1, <2>2, <2>3, <2>4 DEF T!DoneIsVerified, PrOfRun, BranchOfRun, T!fixed, T!artifacts, T!github
<1>2. CASE /\ status = "done" /\ UNCHANGED <<T!fixed, T!artifacts, output, blind>>
           /\ hub \subseteq hub' /\ standing' \subseteq standing
  <2>1. \A kind \in policy.required : T!Has(kind)' = T!Has(kind)
    BY <1>2 DEF T!Has, T!artifacts
  <2> QED BY <1>2, <2>1 DEF CompletionInv, T!DoneIsVerified, T!fixed, T!artifacts
<1>3. ~T!Reviewed => status = "done" /\ UNCHANGED <<T!fixed, T!artifacts, output, blind>>
                   /\ hub \subseteq hub' /\ standing' \subseteq standing
  <2> SUFFICES ASSUME ~T!Reviewed
               PROVE  status = "done" /\ UNCHANGED <<T!fixed, T!artifacts, output, blind>>
                      /\ hub \subseteq hub' /\ standing' \subseteq standing
    OBVIOUS
  <2> USE DEF CompletionInv, RunKnows, T!Ends, T!Blocked, T!Goes, T!Throws
  <2>1. CASE T!Starts \/ T!Launched \/ T!Prepared \/ T!WorkerAnswers \/ T!WorkerFails \/ T!BlockedByWorker \/ T!Committed
    BY <2>1 DEF T!Starts, T!Launched, T!Prepared, T!WorkerAnswers, T!WorkerFails, T!BlockedByWorker, T!Committed
  <2>2. CASE T!Opened \/ T!ChecksPolled \/ T!Enriched \/ T!CreatesMissing \/ T!Sought \/ T!Verified
    BY <2>2 DEF T!Opened, T!ChecksPolled, T!Enriched, T!CreatesMissing, T!Sought, T!Verified
  <2>3. CASE T!Recorded \/ T!RetryTask \/ T!CancelTask
    BY <2>3 DEF T!Recorded, T!RetryTask, T!CancelTask, T!github
  <2>4. ASSUME NEW head \in T!Branches, T!PullRequestAppears(head) \/ T!Objects(head) \/ T!Dismisses(head)
        PROVE  status = "done" /\ UNCHANGED <<T!fixed, T!artifacts, output, blind>>
               /\ hub \subseteq hub' /\ standing' \subseteq standing
    BY <2>4 DEF T!PullRequestAppears, T!Objects, T!Dismisses
  <2>5. CASE UNCHANGED T!vars
    BY <2>5 DEF T!vars, T!github
  <2> QED BY <2>1, <2>2, <2>3, <2>4, <2>5 DEF T!Next
<1> QED BY <1>1, <1>2, <1>3

LEMMA CompletionNextSound == CompletionInv /\ [T!Next]_(T!vars) => CompletionInv'
  BY CompletionTyped, RunStep, DoneStep DEF CompletionInv

LEMMA CompletionSteps == [Next]_vars => [T!Next]_(T!vars)
  BY DEF Next, Releasing, Supervising, Registering, Sweeping, Completing, Naming, Talking, Receiving,
         vars, completion, T!vars, T!fixed, T!artifacts, T!github

(* A task that is done has the artifacts that its policy requires, and a verified pull      *)
(* request exists and is of the target repository or matches the branch that this execution *)
(* made or its worker named, whatever the worker says, earlier executions left and the      *)
(* repository does meanwhile (runTask of task-orchestrator.ts, github-pr.ts).               *)
THEOREM CompletionCorrect == Spec => []DoneIsVerified
<1>1. Init => CompletionInv
  BY CompletionInitSound DEF Init
<1>2. CompletionInv /\ [Next]_vars => CompletionInv'
  BY CompletionNextSound, CompletionSteps
<1>3. CompletionInv => DoneIsVerified
  BY DEF CompletionInv, DoneIsVerified
<1> QED BY <1>1, <1>2, <1>3, PTL DEF Spec


------------------------------------------------------------------------------
(* The watchdog.  While no two initialisations overlapped there is one agent, it has seen  *)
(* every task that has a line in the file of incidents, and of the scans that are writing  *)
(* a line no two have the same task: so a line is written once, and a crash, which may     *)
(* leave a line without its escalation, does not make it a second time.                    *)
AgentCall == [action : A!Actions \cup {"reconcile", "none"}, at : {"none", "loading", "saving"}, entry : A!Entry]
Scan == [at : {"appending", "escalating"}, task : Tasks, by : Slots, left : SUBSET Tasks]

Wanted == {"installed", "enabled"}

(* A process that is down has no service and no calls; what a start has in hand is wanted. *)
ServiceSound ==
  /\ agentUp = "down" => ~initialized /\ \A c \in Slots : agentCalls[c].at = "none"
  /\ running => initialized
  /\ \A c \in Slots : agentCalls[c].at = "loading" /\ agentCalls[c].action = "start" => Wanted \subseteq agentCalls[c].entry
  /\ ~initialized => \A s \in Scans : scans[s] = A!NoScan
  /\ initialized \/ (\E c \in Slots : agentCalls[c].at = "loading") => agent \in Slots

(* While no initialisations overlapped there is one agent: it has seen every task that has *)
(* a line, and each that one of its scans reports.                                         *)
OneAgent ==
  /\ \A c \in Slots : agentCalls[c].at = "loading" => c = agent /\ ~initialized
  /\ initialized => A!Reported \subseteq agentSeen[agent]
  /\ \A s \in Scans : scans[s] # A!NoScan => scans[s].by = agent
Reports(s) ==
  scans[s].at = "appending" =>
    /\ scans[s].task \in agentSeen[agent] /\ lines[scans[s].task] = 0
    /\ \A r \in Scans : scans[r].at = "appending" /\ scans[r].task = scans[s].task => r = s
ReportedOnce ==
  ~doubled => /\ OneAgent
              /\ \A s \in Scans : Reports(s)
              /\ \A t \in Tasks : lines[t] <= 1 /\ escalations[t] <= lines[t]

AgentInv == A!TypeOK /\ ServiceSound /\ ReportedOnce /\ A!RunningIsWanted

LEMMA AgentInitSound == A!Init => AgentInv
<1> SUFFICES ASSUME A!Init PROVE AgentInv
  OBVIOUS
<1>1. A!TypeOK
  <2>1. agentCalls \in [Slots -> [action : A!Actions \cup {"reconcile", "none"},
                          at : {"none", "loading", "saving"}, entry : A!Entry]]
    BY DEF A!Init, A!NoCall, A!Default, A!Entry
  <2>2. served \in 0..MaxCalls /\ crashes \in 0..MaxCrashes
    BY BoundAssumption DEF A!Init
  <2>3. entry \in A!Entry /\ agentFile \in A!Entry
    BY DEF A!Init, A!Entry, A!Default, A!Torn
  <2> QED BY <2>1, <2>2, <2>3 DEF A!Init, A!TypeOK
<1>2. ServiceSound /\ A!RunningIsWanted
  BY DEF A!Init, ServiceSound, A!RunningIsWanted, A!NoCall
<1>3. ReportedOnce
  BY DEF A!Init, ReportedOnce, OneAgent, Reports, A!NoCall, A!NoScan
<1> QED BY <1>1, <1>2, <1>3 DEF AgentInv

(* What an action makes of an entry. *)
LEMMA ChangedSound ==
  ASSUME NEW e \in A!Entry, NEW action \in A!Actions
  PROVE  /\ A!Changed(e, action) \in A!Entry
         /\ action = "start" => Wanted \subseteq A!Changed(e, action)
         /\ ~A!Stops(action) /\ Wanted \subseteq e => Wanted \subseteq A!Changed(e, action)
<1>1. CASE action \in {"install", "uninstall", "enable", "disable"}
  BY <1>1 DEF A!Actions, A!Changed, A!Entry, Wanted, A!Stops, A!Default
<1>2. CASE action \in {"autostart_on", "autostart_off", "start", "stop"}
  BY <1>2 DEF A!Actions, A!Changed, A!Entry, Wanted, A!Stops, A!Default
<1> QED BY <1>1, <1>2 DEF A!Actions

LEMMA AgentTyped == A!TypeOK /\ ServiceSound /\ [A!Next]_(A!vars) => A!TypeOK'
<1> SUFFICES ASSUME A!TypeOK, ServiceSound, [A!Next]_(A!vars) PROVE A!TypeOK'
  OBVIOUS
<1>a. A!Default \in A!Entry /\ A!Torn \in A!Entry /\ A!NoCall \in AgentCall
  BY DEF A!Default, A!Entry, A!Torn, A!NoCall, AgentCall
<1> USE DEF A!TypeOK, A!wishes, A!service, A!sentry
<1>1. ASSUME NEW s \in Scans, NEW a \in Slots, NEW left \in SUBSET Tasks, A!Goes(s, a, left)
      PROVE  agentSeen' \in [Slots -> SUBSET Tasks] /\ scans' \in [Scans -> {A!NoScan} \cup Scan]
  <2>1. CASE left \ agentSeen[a] = {}
    BY <1>1, <2>1 DEF A!Goes, Scan
  <2>2. CASE left \ agentSeen[a] # {}
    <3>1. PICK t \in left \ agentSeen[a] :
            /\ scans' = [scans EXCEPT ![s] = [at |-> "appending", task |-> t, by |-> a, left |-> left \ {t}]]
            /\ agentSeen' = [agentSeen EXCEPT ![a] = @ \cup {t}]
      BY <1>1, <2>2 DEF A!Goes, A!Marks
    <3>2. [at |-> "appending", task |-> t, by |-> a, left |-> left \ {t}] \in Scan
      BY <3>1 DEF Scan
    <3>3. scans' \in [Scans -> {A!NoScan} \cup Scan]
      BY <3>1, <3>2 DEF Scan
    <3>4. agentSeen' \in [Slots -> SUBSET Tasks]
      BY <3>1
    <3> QED BY <3>3, <3>4
  <2> QED BY <2>1, <2>2
<1>2. ASSUME NEW s \in Scans, A!ScanBegins(s)
      PROVE  A!TypeOK'
  <2>1. agent \in Slots
    BY <1>2 DEF A!ScanBegins, ServiceSound
  <2>2. agentSeen' \in [Slots -> SUBSET Tasks] /\ scans' \in [Scans -> {A!NoScan} \cup Scan]
    BY <1>1, <1>2, <2>1 DEF A!ScanBegins
  <2> QED BY <1>2, <2>2 DEF A!ScanBegins, Scan
<1>3. ASSUME NEW s \in Scans, A!Appended(s)
      PROVE  A!TypeOK'
  <2>1. scans[s] \in Scan
    BY <1>3 DEF A!Appended, A!NoScan, Scan
  <2>2. [scans[s] EXCEPT !.at = "escalating"] \in Scan
    BY <2>1 DEF Scan
  <2>3. scans' \in [Scans -> {A!NoScan} \cup Scan]
    BY <1>3, <2>2 DEF A!Appended, Scan
  <2>4. lines' \in [Tasks -> Nat] /\ escalations' \in [Tasks -> Nat]
    BY <1>3, <2>1 DEF A!Appended, Scan
  <2> QED BY <1>3, <2>3, <2>4 DEF A!Appended, Scan
<1>4. ASSUME NEW s \in Scans, A!Escalated(s)
      PROVE  A!TypeOK'
  <2>1. scans[s] \in Scan
    BY <1>4 DEF A!Escalated, A!NoScan, Scan
  <2>2. agentSeen' \in [Slots -> SUBSET Tasks] /\ scans' \in [Scans -> {A!NoScan} \cup Scan]
    BY <1>1, <1>4, <2>1 DEF A!Escalated, Scan
  <2> QED BY <1>4, <2>2 DEF A!Escalated, Scan
<1>5. ASSUME NEW t \in Tasks, A!TaskFails(t)
      PROVE  A!TypeOK'
  BY <1>5 DEF A!TaskFails
<1>6. ASSUME NEW c \in Slots, NEW action \in A!Actions, A!Apply(c, action)
      PROVE  A!TypeOK'
  <2>1. A!Changed(entry, action) \in A!Entry
    BY ChangedSound
  <2>2. entry' \in A!Entry /\ agentFile' \in A!Entry
    BY <1>6, <2>1, <1>a DEF A!Apply, A!Saves
  <2>3. agentCalls' \in [Slots -> AgentCall]
    <3> [action |-> action, at |-> "saving", entry |-> A!Changed(entry, action)] \in AgentCall
      BY <2>1 DEF AgentCall
    <3> QED BY <1>6 DEF A!Apply, A!Saves, AgentCall
  <2>4. served' \in 0..MaxCalls
    BY <1>6, BoundAssumption DEF A!Apply, A!Arrives
  <2>5. running' \in BOOLEAN
    BY <1>6 DEF A!Apply, A!Stops
  <2> QED BY <1>6, <2>2, <2>3, <2>4, <2>5 DEF A!Apply, AgentCall
<1>7. ASSUME NEW c \in Slots, NEW action \in A!Actions \cup {"reconcile"}, NEW e \in A!Entry, A!Loads(c, action, e)
      PROVE  /\ agentCalls' \in [Slots -> AgentCall] /\ agent' \in Slots /\ doubled' \in BOOLEAN
             /\ entry' \in A!Entry /\ agentFile' \in A!Entry /\ initialized' \in BOOLEAN /\ running' \in BOOLEAN
  <2>1. agentCalls' \in [Slots -> AgentCall]
    <3> [action |-> action, at |-> "loading", entry |-> e] \in AgentCall
      BY DEF AgentCall
    <3> QED BY <1>7 DEF A!Loads, AgentCall
  <2> QED BY <1>7, <2>1 DEF A!Loads
<1>8. ASSUME NEW c \in Slots, A!ApplyFirstStart(c)
      PROVE  A!TypeOK'
  <2>1. A!Changed(entry, "start") \in A!Entry
    BY ChangedSound DEF A!Actions
  <2>2. A!Loads(c, "start", A!Changed(entry, "start"))
    BY <1>8 DEF A!ApplyFirstStart
  <2>3. /\ agentCalls' \in [Slots -> AgentCall] /\ agent' \in Slots /\ doubled' \in BOOLEAN
        /\ entry' \in A!Entry /\ agentFile' \in A!Entry /\ initialized' \in BOOLEAN /\ running' \in BOOLEAN
    BY <1>7, <2>1, <2>2 DEF A!Actions
  <2>4. served' \in 0..MaxCalls
    BY <1>8, BoundAssumption DEF A!ApplyFirstStart, A!Arrives
  <2> QED BY <1>8, <2>3, <2>4 DEF A!ApplyFirstStart, AgentCall
<1>9. ASSUME NEW c \in Slots, A!ReconcileCall(c)
      PROVE  A!TypeOK'
  <2>1. served' \in 0..MaxCalls
    BY <1>9, BoundAssumption DEF A!ReconcileCall, A!Arrives
  <2>2. CASE A!Loads(c, "reconcile", entry)
    <3>1. /\ agentCalls' \in [Slots -> AgentCall] /\ agent' \in Slots /\ doubled' \in BOOLEAN
          /\ entry' \in A!Entry /\ agentFile' \in A!Entry /\ initialized' \in BOOLEAN /\ running' \in BOOLEAN
      BY <1>7, <2>2
    <3> QED BY <1>9, <2>1, <3>1 DEF A!ReconcileCall, AgentCall
  <2>3. CASE running' = A!ShouldRun /\ UNCHANGED <<A!wishes, agentCalls, initialized, agent, doubled>>
    BY <1>9, <2>1, <2>3 DEF A!ReconcileCall, A!ShouldRun
  <2> QED BY <1>9, <2>2, <2>3 DEF A!ReconcileCall, A!Reconcile
<1>10. ASSUME NEW c \in Slots, A!Loaded(c)
      PROVE  A!TypeOK'
  <2>1. A!Reported \subseteq Tasks /\ agentCalls[c] \in AgentCall
    BY DEF A!Reported, AgentCall
  <2>2. agentSeen' \in [Slots -> SUBSET Tasks]
    BY <1>10, <2>1 DEF A!Loaded
  <2>3. agentCalls' \in [Slots -> AgentCall] /\ entry' \in A!Entry /\ agentFile' \in A!Entry
    <3>1. [action |-> "start", at |-> "saving", entry |-> agentCalls[c].entry] \in AgentCall /\ agentCalls[c].entry \in A!Entry
      BY <2>1 DEF AgentCall, A!Actions
    <3> QED BY <1>10, <1>a, <3>1 DEF A!Loaded, A!Saves, AgentCall
  <2>4. agentUp' \in {"booting", "serving", "down"} /\ overtaken' \in BOOLEAN
    BY <1>10 DEF A!Loaded, A!ShouldRun
  <2> QED BY <1>10, <2>2, <2>3, <2>4 DEF A!Loaded, AgentCall
<1>11. ASSUME NEW c \in Slots, A!SaveEnds(c)
      PROVE  A!TypeOK'
  BY <1>11, <1>a DEF A!SaveEnds, AgentCall
<1>12. ASSUME NEW c \in Slots, A!Boot(c)
      PROVE  A!TypeOK'
  <2>1. [action |-> "reconcile", at |-> "loading", entry |-> agentFile] \in AgentCall
    BY DEF AgentCall
  <2>2. agentCalls' \in [Slots -> AgentCall]
    BY <1>12, <2>1 DEF A!Boot, AgentCall
  <2> QED BY <1>12, <2>2 DEF A!Boot, AgentCall
<1>13. CASE A!Crash
  <2>1. lines' \in [Tasks -> Nat]
    BY <1>13 DEF A!Crash
  <2>2. crashes' \in 0..MaxCrashes
    BY <1>13, BoundAssumption DEF A!Crash
  <2> QED BY <1>13, <1>a, <2>1, <2>2 DEF A!Crash, AgentCall
<1>14. CASE A!BootFails
  BY <1>14, <1>a DEF A!BootFails
<1>15. CASE UNCHANGED A!vars
  BY <1>15 DEF A!vars
<1> QED BY <1>2, <1>3, <1>4, <1>5, <1>6, <1>8, <1>9, <1>10, <1>11, <1>12, <1>13, <1>14, <1>15 DEF A!Next

(* What a scan's next task changes. *)
LEMMA GoesSound ==
  ASSUME A!TypeOK, NEW s \in Scans, NEW a \in Slots, NEW left \in SUBSET Tasks, A!Goes(s, a, left),
         NEW r \in Scans
  PROVE  /\ r # s => scans'[r] = scans[r]
         /\ scans'[s] # A!NoScan =>
              /\ scans'[s].at = "appending" /\ scans'[s].by = a
              /\ scans'[s].task \in left \ agentSeen[a] /\ scans'[s].task \in agentSeen'[a]
         /\ \A c \in Slots : agentSeen[c] \subseteq agentSeen'[c]
<1>1. CASE left \ agentSeen[a] = {}
  BY <1>1 DEF A!Goes, A!TypeOK
<1>2. CASE left \ agentSeen[a] # {}
  <2>1. PICK t \in left \ agentSeen[a] :
          /\ scans' = [scans EXCEPT ![s] = [at |-> "appending", task |-> t, by |-> a, left |-> left \ {t}]]
          /\ agentSeen' = [agentSeen EXCEPT ![a] = @ \cup {t}]
    BY <1>2 DEF A!Goes, A!Marks
  <2>2. scans'[s] = [at |-> "appending", task |-> t, by |-> a, left |-> left \ {t}]
    BY <2>1 DEF A!TypeOK
  <2>3. t \in agentSeen'[a] /\ \A c \in Slots : agentSeen[c] \subseteq agentSeen'[c]
    BY <2>1 DEF A!TypeOK
  <2>4. r # s => scans'[r] = scans[r]
    BY <2>1 DEF A!TypeOK
  <2> QED BY <2>1, <2>2, <2>3, <2>4
<1> QED BY <1>1, <1>2

(* The service and the calls. *)
LEMMA ServiceStep == AgentInv /\ A!TypeOK' /\ [A!Next]_(A!vars) => ServiceSound'
<1> SUFFICES ASSUME AgentInv, A!TypeOK', [A!Next]_(A!vars) PROVE ServiceSound'
  OBVIOUS
<1> USE DEF AgentInv, ServiceSound, A!wishes, A!service, A!sentry
<1>0. A!TypeOK
  OBVIOUS
<1>1. ASSUME NEW s \in Scans, A!ScanBegins(s) \/ A!Appended(s) \/ A!Escalated(s)
      PROVE  ServiceSound'
  <2>1. UNCHANGED <<agentCalls, agentUp, A!service>>
    BY <1>1 DEF A!ScanBegins, A!Appended, A!Escalated
  <2>2. initialized
    BY <1>1 DEF A!ScanBegins, A!Appended, A!Escalated, A!NoScan
  <2> QED BY <2>1, <2>2
<1>2. ASSUME NEW t \in Tasks, A!TaskFails(t)
      PROVE  ServiceSound'
  BY <1>2 DEF A!TaskFails
<1>3. ASSUME NEW c \in Slots, NEW action \in A!Actions, A!Apply(c, action)
      PROVE  ServiceSound'
  <2>1. /\ agentUp = "serving" /\ UNCHANGED <<agentUp, initialized, agent, scans>>
        /\ running' => running \/ initialized
    BY <1>3 DEF A!Apply, A!Arrives
  <2>2. \A d \in Slots : agentCalls'[d].at = "loading" => agentCalls'[d] = agentCalls[d]
    BY <1>3, <1>0 DEF A!Apply, A!Saves, A!TypeOK
  <2> QED BY <2>1, <2>2
<1>4. ASSUME NEW c \in Slots, NEW action \in A!Actions \cup {"reconcile"}, NEW e \in A!Entry, A!Loads(c, action, e),
             agentUp' # "down", UNCHANGED scans, action = "start" => Wanted \subseteq e
      PROVE  ServiceSound'
  <2>1. agent' = c /\ UNCHANGED <<initialized, running>>
    BY <1>4 DEF A!Loads
  <2>2. \A d \in Slots \ {c} : agentCalls'[d] = agentCalls[d]
    BY <1>4, <1>0 DEF A!Loads, A!TypeOK
  <2>3. agentCalls'[c].action = action /\ agentCalls'[c].entry = e
    BY <1>4, <1>0 DEF A!Loads, A!TypeOK
  <2> QED BY <1>4, <2>1, <2>2, <2>3
<1>5. ASSUME NEW c \in Slots, A!ApplyFirstStart(c)
      PROVE  ServiceSound'
  <2>1. A!Changed(entry, "start") \in A!Entry /\ Wanted \subseteq A!Changed(entry, "start")
    BY ChangedSound, <1>0 DEF A!Actions, A!TypeOK
  <2> QED BY <1>4, <1>5, <2>1 DEF A!ApplyFirstStart, A!Arrives, A!Actions
<1>6. ASSUME NEW c \in Slots, A!ReconcileCall(c)
      PROVE  ServiceSound'
  <2>1. CASE A!Loads(c, "reconcile", entry)
    BY <1>4, <1>6, <2>1, <1>0 DEF A!ReconcileCall, A!Arrives, A!TypeOK
  <2>2. CASE ~(A!ShouldRun /\ ~running /\ ~initialized)
    <3>1. running' = A!ShouldRun /\ UNCHANGED <<agentUp, scans, A!wishes, agentCalls, initialized, agent, doubled>>
      BY <1>6, <2>2 DEF A!ReconcileCall, A!Reconcile
    <3> QED BY <2>2, <3>1
  <2> QED BY <1>6, <2>1, <2>2 DEF A!ReconcileCall, A!Reconcile
<1>7. ASSUME NEW c \in Slots, A!Loaded(c)
      PROVE  ServiceSound'
  <2>1. /\ initialized' /\ agent' \in Slots /\ agentUp' # "down"
    BY <1>7, <1>0 DEF A!Loaded
  <2>2. \A d \in Slots : agentCalls'[d].at = "loading" => agentCalls'[d] = agentCalls[d]
    BY <1>7, <1>0 DEF A!Loaded, A!Saves, A!NoCall, A!TypeOK
  <2> QED BY <2>1, <2>2
<1>8. ASSUME NEW c \in Slots, A!SaveEnds(c)
      PROVE  ServiceSound'
  <2>1. \A d \in Slots : agentCalls'[d] = agentCalls[d] \/ agentCalls'[d].at = "none"
    BY <1>8, <1>0 DEF A!SaveEnds, A!NoCall, A!TypeOK
  <2> QED BY <1>8, <2>1 DEF A!SaveEnds
<1>9. ASSUME NEW c \in Slots, A!Boot(c)
      PROVE  ServiceSound'
  <2>1. CASE agentFile = A!Default
    <3>1. /\ agent' = c /\ agentUp' = "booting" /\ UNCHANGED <<initialized, running, scans>>
          /\ ~initialized
      BY <1>9, <2>1 DEF A!Boot
    <3>2. \A d \in Slots : agentCalls'[d] = agentCalls[d] \/ agentCalls'[d].action = "reconcile"
      BY <1>9, <2>1, <1>0 DEF A!Boot, A!TypeOK
    <3> QED BY <3>1, <3>2
  <2>2. CASE agentFile # A!Default
    BY <1>9, <2>2 DEF A!Boot
  <2> QED BY <2>1, <2>2
<1>10. CASE A!Crash
  BY <1>10 DEF A!Crash, A!NoCall
<1>11. CASE A!BootFails
  BY <1>11 DEF A!BootFails
<1>12. CASE UNCHANGED A!vars
  BY <1>12 DEF A!vars
<1> QED BY <1>1, <1>2, <1>3, <1>5, <1>6, <1>7, <1>8, <1>9, <1>10, <1>11, <1>12 DEF A!Next

(* What was reported stays reported once. *)
LEMMA ReportedStep == AgentInv /\ A!TypeOK' /\ [A!Next]_(A!vars) => ReportedOnce'
<1> SUFFICES ASSUME AgentInv, A!TypeOK', [A!Next]_(A!vars), ~doubled'
             PROVE  OneAgent' /\ (\A s \in Scans : Reports(s)') /\ \A t \in Tasks : (lines[t] <= 1 /\ escalations[t] <= lines[t])'
  BY DEF ReportedOnce
<1> DEFINE KeptOnce == OneAgent' /\ (\A s \in Scans : Reports(s)')
                   /\ \A t \in Tasks : (lines[t] <= 1 /\ escalations[t] <= lines[t])'
<1>0. A!TypeOK /\ ServiceSound
  BY DEF AgentInv
<1>a. ~doubled
  <2>1. doubled => doubled'
    BY
    DEF A!Next, A!ScanBegins, A!Appended, A!Escalated, A!TaskFails, A!Apply, A!ApplyFirstStart,
        A!ReconcileCall, A!Reconcile,
           A!Loads, A!Loaded, A!SaveEnds, A!Boot, A!Crash, A!BootFails, A!vars
  <2> QED BY <2>1
<1>b. OneAgent /\ (\A s \in Scans : Reports(s)) /\ \A t \in Tasks : lines[t] <= 1 /\ escalations[t] <= lines[t]
  BY <1>a DEF AgentInv, ReportedOnce
<1>c. ASSUME NEW s \in Scans, NEW a \in Slots, NEW left \in SUBSET Tasks, A!Goes(s, a, left),
             a = agent, initialized, scans[s].at # "appending",
             UNCHANGED <<agentCalls, A!service, lines, escalations>>
      PROVE  KeptOnce
  <2>1. \A r \in Scans : r # s => scans'[r] = scans[r]
    BY <1>0, <1>c, GoesSound
  <2>2. scans'[s] # A!NoScan =>
              /\ scans'[s].at = "appending" /\ scans'[s].by = a
              /\ scans'[s].task \in left \ agentSeen[a] /\ scans'[s].task \in agentSeen'[a]
    BY <1>0, <1>c, GoesSound
  <2>3. \A c \in Slots : agentSeen[c] \subseteq agentSeen'[c]
    BY <1>0, <1>c, GoesSound
  <2>4. A!Reported' = A!Reported /\ agent' = agent /\ initialized' = initialized
    BY <1>c DEF A!Reported, A!service
  <2>5. OneAgent'
    BY <1>b, <1>c, <2>1, <2>2, <2>3, <2>4 DEF OneAgent, A!service
  <2>6. \A r \in Scans : scans[r].at = "appending" => scans[r].task \in agentSeen[agent]
    BY <1>b DEF Reports
  <2>7. scans'[s] # A!NoScan => lines[scans'[s].task] = 0
    BY <1>0, <1>b, <1>c, <2>2 DEF OneAgent, A!Reported, A!TypeOK
  <2>8. ASSUME NEW r \in Scans
        PROVE  Reports(r)'
    <3>1. CASE r = s
      BY <1>c, <2>1, <2>2, <2>4, <2>6, <2>7, <3>1 DEF Reports, A!NoScan
    <3>2. CASE r # s
      <4>1. scans'[r] = scans[r] /\ Reports(r)
        BY <1>b, <2>1, <3>2
      <4>2. scans'[s] # A!NoScan => scans'[s].task \notin agentSeen[agent]
        BY <1>c, <2>2
      <4>3. scans'[s] = A!NoScan => scans'[s].at # "appending"
        BY DEF A!NoScan
      <4> QED BY <1>c, <2>1, <2>3, <2>4, <2>6, <4>1, <4>2, <4>3, <3>2 DEF Reports
    <3> QED BY <3>1, <3>2
  <2> QED BY <1>b, <1>c, <2>5, <2>8
<1>d. ASSUME UNCHANGED A!sentry, UNCHANGED <<initialized, agent>>,
             \A c \in Slots : agentCalls'[c].at = "loading" => agentCalls'[c] = agentCalls[c]
      PROVE  KeptOnce
  <2>1. OneAgent'
    BY <1>b, <1>d DEF OneAgent, A!sentry, A!Reported
  <2>2. \A s \in Scans : Reports(s)'
    BY <1>b, <1>d DEF Reports, A!sentry
  <2> QED BY <1>b, <1>d, <2>1, <2>2 DEF A!sentry
<1>e. ASSUME ~initialized, ~initialized', UNCHANGED <<scans, lines, escalations>>,
             \A c \in Slots : agentCalls'[c].at = "loading" => c = agent'
      PROVE  KeptOnce
  <2>1. \A s \in Scans : scans[s] = A!NoScan /\ scans'[s] = A!NoScan
    BY <1>0, <1>e DEF ServiceSound
  <2>2. OneAgent'
    BY <1>e, <2>1 DEF OneAgent
  <2>3. \A s \in Scans : Reports(s)'
    BY <2>1 DEF Reports, A!NoScan
  <2> QED BY <1>b, <1>e, <2>2, <2>3
<1>1. ASSUME NEW s \in Scans, A!ScanBegins(s)
      PROVE  KeptOnce
  <2>1. agent \in Slots /\ initialized
    BY <1>0, <1>1 DEF A!ScanBegins, ServiceSound
  <2>2. scans[s].at # "appending" /\ failing \in SUBSET Tasks
    BY <1>0, <1>1 DEF A!ScanBegins, A!NoScan, A!TypeOK
  <2> QED BY <1>1, <1>c, <2>1, <2>2 DEF A!ScanBegins, A!service
<1>2. ASSUME NEW s \in Scans, A!Appended(s)
      PROVE  KeptOnce
  <2> DEFINE task == scans[s].task
  <2>1. scans[s] \in [at : {"appending", "escalating"}, task : Tasks, by : Slots, left : SUBSET Tasks]
    BY <1>0, <1>2 DEF A!Appended, A!NoScan, A!TypeOK
  <2>2. task \in Tasks /\ lines[task] = 0 /\ escalations[task] = 0 /\ task \in agentSeen[agent]
    BY <1>0, <1>b, <1>2, <2>1 DEF A!Appended, Reports, A!TypeOK
  <2>3. /\ lines' = [lines EXCEPT ![task] = @ + 1] /\ escalations' = [escalations EXCEPT ![task] = @ + 1]
        /\ UNCHANGED <<agentCalls, A!service, agentSeen>>
    BY <1>2 DEF A!Appended
  <2>4. /\ \A r \in Scans : r # s => scans'[r] = scans[r]
        /\ scans'[s].at = "escalating" /\ scans'[s].by = scans[s].by
    BY <1>0, <1>2, <2>1 DEF A!Appended, A!TypeOK
  <2>5. lines'[task] = 1 /\ escalations'[task] = 1
    BY <1>0, <2>2, <2>3 DEF A!TypeOK
  <2>6. \A t \in Tasks : t # task => lines'[t] = lines[t] /\ escalations'[t] = escalations[t]
    BY <1>0, <2>2, <2>3 DEF A!TypeOK
  <2> HIDE DEF task
  <2>7. A!Reported' \subseteq A!Reported \cup {task}
    BY <2>6 DEF A!Reported
  <2>8. OneAgent'
    <3>1. scans[s] # A!NoScan
      BY <1>2 DEF A!Appended, A!NoScan
    <3>2. \A r \in Scans : scans'[r] # A!NoScan => scans'[r].by = agent
      BY <1>b, <2>4, <3>1 DEF OneAgent
    <3>3. initialized => A!Reported' \subseteq agentSeen[agent]
      BY <1>b, <2>2, <2>7 DEF OneAgent
    <3> QED BY <1>b, <2>3, <3>2, <3>3 DEF OneAgent, A!service
  <2>9. ASSUME NEW r \in Scans, scans'[r].at = "appending"
        PROVE  Reports(r)'
    <3>1. r # s /\ scans'[r] = scans[r] /\ scans[r].at = "appending"
      BY <2>4, <2>9
    <3>2. scans[s].at = "appending"
      BY <1>2 DEF A!Appended
    <3>3. scans[r].task # task /\ scans[r].task \in Tasks
      BY <1>0, <1>b, <3>1, <3>2 DEF Reports, task, A!TypeOK, A!NoScan
    <3> QED BY <1>b, <2>3, <2>4, <2>6, <3>1, <3>3 DEF Reports, A!service
  <2>10. \A r \in Scans : Reports(r)'
    BY <2>9 DEF Reports
  <2>11. \A t \in Tasks : (lines[t] <= 1 /\ escalations[t] <= lines[t])'
    BY <1>b, <2>5, <2>6
  <2> QED BY <2>8, <2>10, <2>11
<1>3. ASSUME NEW s \in Scans, A!Escalated(s)
      PROVE  KeptOnce
  <2>1. scans[s] \in [at : {"appending", "escalating"}, task : Tasks, by : Slots, left : SUBSET Tasks]
    BY <1>0, <1>3 DEF A!Escalated, A!NoScan, A!TypeOK
  <2>2. scans[s].by \in Slots /\ scans[s].left \in SUBSET Tasks
    BY <2>1
  <2>3. scans[s].by = agent /\ initialized
    BY <1>0, <1>b, <1>3 DEF A!Escalated, OneAgent, ServiceSound, A!NoScan
  <2> QED BY <1>3, <1>c, <2>2, <2>3 DEF A!Escalated, A!service
<1>4. ASSUME NEW t \in Tasks, A!TaskFails(t)
      PROVE  KeptOnce
  BY <1>4, <1>d DEF A!TaskFails, A!service
<1>5. ASSUME NEW c \in Slots, NEW action \in A!Actions, A!Apply(c, action)
      PROVE  KeptOnce
  <2>1. \A d \in Slots : agentCalls'[d].at = "loading" => agentCalls'[d] = agentCalls[d]
    BY <1>5, <1>0 DEF A!Apply, A!Saves, A!TypeOK
  <2> QED BY <1>5, <1>d, <2>1 DEF A!Apply
<1>6. ASSUME NEW c \in Slots, NEW action \in A!Actions \cup {"reconcile"}, NEW e \in A!Entry, A!Loads(c, action, e),
             ~initialized, UNCHANGED A!sentry
      PROVE  KeptOnce
  <2>1. \A d \in Slots : agentCalls[d].at # "loading"
    BY <1>6 DEF A!Loads
  <2>2. \A d \in Slots \ {c} : agentCalls'[d] = agentCalls[d]
    BY <1>0, <1>6 DEF A!Loads, A!TypeOK
  <2>3. agent' = c /\ ~initialized'
    BY <1>6 DEF A!Loads
  <2> QED BY <1>6, <1>e, <2>1, <2>2, <2>3 DEF A!sentry
<1>7. ASSUME NEW c \in Slots, A!ApplyFirstStart(c)
      PROVE  KeptOnce
  <2>1. A!Changed(entry, "start") \in A!Entry
    BY ChangedSound, <1>0 DEF A!Actions, A!TypeOK
  <2> QED BY <1>6, <1>7, <2>1 DEF A!ApplyFirstStart, A!Actions
<1>8. ASSUME NEW c \in Slots, A!ReconcileCall(c)
      PROVE  KeptOnce
  <2>1. CASE A!ShouldRun /\ ~running /\ ~initialized
    <3>1. A!Loads(c, "reconcile", entry) /\ UNCHANGED A!sentry /\ entry \in A!Entry
      BY <1>0, <1>8, <2>1 DEF A!ReconcileCall, A!Reconcile, A!TypeOK
    <3> QED BY <1>6, <2>1, <3>1
  <2>2. CASE ~(A!ShouldRun /\ ~running /\ ~initialized)
    <3>1. UNCHANGED <<agentCalls, initialized, agent>> /\ UNCHANGED A!sentry
      BY <1>8, <2>2 DEF A!ReconcileCall, A!Reconcile
    <3> QED BY <1>d, <3>1
  <2> QED BY <2>1, <2>2
<1>9. ASSUME NEW c \in Slots, A!Loaded(c)
      PROVE  KeptOnce
  <2>1. c = agent /\ ~initialized /\ agent' = agent /\ initialized'
    BY <1>b, <1>9 DEF A!Loaded, OneAgent
  <2>2. \A s \in Scans : scans[s] = A!NoScan /\ scans'[s] = A!NoScan
    BY <1>0, <1>9, <2>1 DEF ServiceSound, A!Loaded
  <2>3. A!Reported \subseteq agentSeen'[c] /\ A!Reported' = A!Reported /\ UNCHANGED <<lines, escalations>>
    BY <1>0, <1>9 DEF A!Loaded, A!Reported, A!TypeOK
  <2>4. \A d \in Slots : agentCalls'[d].at # "loading"
    <3>1. \A d \in Slots : agentCalls[d].at = "loading" => d = c
      BY <1>b, <2>1 DEF OneAgent
    <3>2. agentCalls'[c].at # "loading" /\ \A d \in Slots \ {c} : agentCalls'[d] = agentCalls[d]
      BY <1>0, <1>9 DEF A!Loaded, A!Saves, A!NoCall, A!TypeOK
    <3> QED BY <3>1, <3>2
  <2>5. OneAgent' /\ \A s \in Scans : Reports(s)'
    BY <2>1, <2>2, <2>3, <2>4 DEF OneAgent, Reports, A!NoScan
  <2> QED BY <1>b, <2>3, <2>5
<1>10. ASSUME NEW c \in Slots, A!SaveEnds(c)
      PROVE  KeptOnce
  <2>1. \A d \in Slots : agentCalls'[d].at = "loading" => agentCalls'[d] = agentCalls[d]
    BY <1>10, <1>0 DEF A!SaveEnds, A!NoCall, A!TypeOK
  <2> QED BY <1>10, <1>d, <2>1 DEF A!SaveEnds, A!service
<1>11. ASSUME NEW c \in Slots, A!Boot(c)
      PROVE  KeptOnce
  <2>1. ~initialized /\ ~initialized' /\ \A d \in Slots : agentCalls[d].at = "none"
    BY <1>0, <1>11 DEF A!Boot, ServiceSound
  <2>2. \A d \in Slots : agentCalls'[d].at = "loading" => d = agent'
    BY <1>0, <1>11, <2>1 DEF A!Boot, A!TypeOK
  <2> QED BY <1>11, <1>e, <2>1, <2>2 DEF A!Boot, A!sentry
<1>12. CASE A!Crash
  <2>1. \A s \in Scans : scans'[s] = A!NoScan
    BY <1>12 DEF A!Crash
  <2>2. OneAgent' /\ \A s \in Scans : Reports(s)'
    BY <1>12, <2>1 DEF OneAgent, Reports, A!NoScan, A!NoCall, A!Crash
  <2>3. PICK written \in SUBSET {s \in Scans : scans[s].at = "appending"} :
          lines' = [t \in Tasks |-> IF \E s \in written : scans[s].task = t THEN lines[t] + 1 ELSE lines[t]]
    BY <1>12 DEF A!Crash
  <2>4. ASSUME NEW t \in Tasks
        PROVE  (lines[t] <= 1 /\ escalations[t] <= lines[t])'
    <3>1. escalations'[t] = escalations[t] /\ lines[t] \in Nat /\ escalations[t] \in Nat
      BY <1>0, <1>12 DEF A!Crash, A!TypeOK
    <3>2. CASE \E s \in written : scans[s].task = t
      <4>1. lines[t] = 0
        BY <1>b, <3>2 DEF Reports
      <4> QED BY <1>b, <2>3, <3>1, <3>2, <4>1
    <3>3. CASE ~\E s \in written : scans[s].task = t
      BY <1>b, <2>3, <3>1, <3>3
    <3> QED BY <3>2, <3>3
  <2> QED BY <2>2, <2>4
<1>13. CASE A!BootFails
  BY <1>13, <1>d DEF A!BootFails, A!service
<1>14. CASE UNCHANGED A!vars
  BY <1>14, <1>d DEF A!vars, A!service
<1> QED BY <1>1, <1>2, <1>3, <1>4, <1>5, <1>7, <1>8, <1>9, <1>10, <1>11, <1>12, <1>13, <1>14 DEF A!Next

(* What runs is wanted. *)
LEMMA WantedStep == AgentInv /\ [A!Next]_(A!vars) => A!RunningIsWanted'
<1> SUFFICES ASSUME AgentInv, [A!Next]_(A!vars), running', ~overtaken' PROVE Wanted \subseteq entry'
  BY DEF A!RunningIsWanted, Wanted
<1>0. A!TypeOK /\ ServiceSound /\ (running /\ ~overtaken => Wanted \subseteq entry)
  BY DEF AgentInv, A!RunningIsWanted, Wanted
<1> USE DEF A!wishes, A!service, A!sentry
<1>1. ASSUME NEW s \in Scans, A!ScanBegins(s) \/ A!Appended(s) \/ A!Escalated(s)
      PROVE  Wanted \subseteq entry'
  BY <1>0, <1>1 DEF A!ScanBegins, A!Appended, A!Escalated
<1>2. ASSUME NEW t \in Tasks, A!TaskFails(t)
      PROVE  Wanted \subseteq entry'
  BY <1>0, <1>2 DEF A!TaskFails
<1>3. ASSUME NEW c \in Slots, NEW action \in A!Actions, A!Apply(c, action)
      PROVE  Wanted \subseteq entry'
  <2>1. entry' = A!Changed(entry, action) /\ UNCHANGED overtaken
    BY <1>3 DEF A!Apply, A!Saves
  <2>2. action = "start" \/ (running /\ ~A!Stops(action))
    BY <1>3 DEF A!Apply
  <2> QED BY <1>0, <2>1, <2>2, ChangedSound DEF A!TypeOK
<1>4. ASSUME NEW c \in Slots, A!ApplyFirstStart(c)
      PROVE  Wanted \subseteq entry'
  BY <1>0, <1>4 DEF A!ApplyFirstStart, A!Loads
<1>5. ASSUME NEW c \in Slots, A!ReconcileCall(c)
      PROVE  Wanted \subseteq entry'
  BY <1>0, <1>5 DEF A!ReconcileCall, A!Reconcile, A!Loads, A!ShouldRun, A!Default, Wanted
<1>6. ASSUME NEW c \in Slots, A!Loaded(c)
      PROVE  Wanted \subseteq entry'
  <2>1. CASE agentCalls[c].action = "start"
    BY <1>0, <1>6, <2>1 DEF A!Loaded, A!Saves, ServiceSound
  <2>2. CASE agentCalls[c].action # "start"
    BY <1>6, <2>2 DEF A!Loaded, A!ShouldRun, A!Default, Wanted
  <2> QED BY <2>1, <2>2
<1>7. ASSUME NEW c \in Slots, A!SaveEnds(c)
      PROVE  Wanted \subseteq entry'
  BY <1>0, <1>7 DEF A!SaveEnds
<1>8. ASSUME NEW c \in Slots, A!Boot(c)
      PROVE  Wanted \subseteq entry'
  BY <1>0, <1>8 DEF A!Boot, ServiceSound
<1>9. CASE A!Crash \/ A!BootFails \/ UNCHANGED A!vars
  BY <1>0, <1>9 DEF A!Crash, A!BootFails, A!vars
<1> QED BY <1>1, <1>2, <1>3, <1>4, <1>5, <1>6, <1>7, <1>8, <1>9 DEF A!Next

LEMMA AgentNextSound == AgentInv /\ [A!Next]_(A!vars) => AgentInv'
<1> SUFFICES ASSUME AgentInv, [A!Next]_(A!vars) PROVE AgentInv'
  OBVIOUS
<1>1. A!TypeOK'
  BY AgentTyped DEF AgentInv
<1> QED BY <1>1, ServiceStep, ReportedStep, WantedStep DEF AgentInv

LEMMA AgentSteps == [Next]_vars => [A!Next]_(A!vars)
  BY DEF Next, Releasing, Supervising, Registering, Sweeping, Completing, Naming, Talking, Receiving,
         vars, agents, A!vars, A!wishes, A!service, A!sentry

(* A task is escalated and listed at most once, however scans overlap, the service is      *)
(* stopped and started, and the process ends, unless two first starts of the service       *)
(* overlapped (scan of sentry-agent.ts, initialize of watchdog-service.ts).                *)
THEOREM EscalationCorrect == Spec => []EscalatedOnce
<1>1. Init => AgentInv
  BY AgentInitSound DEF Init
<1>2. AgentInv /\ [Next]_vars => AgentInv'
  BY AgentNextSound, AgentSteps
<1>3. AgentInv => EscalatedOnce
  BY DEF AgentInv, ReportedOnce, EscalatedOnce, A!EscalatedOnce
<1> QED BY <1>1, <1>2, <1>3, PTL DEF Spec

(* The watchdog runs only while it is installed and enabled, unless it was disabled while  *)
(* a reconcile was starting it (apply and reconcile of agent-manager.ts).                  *)
THEOREM WatchdogCorrect == Spec => []RunningIsWanted
<1>1. Init => AgentInv
  BY AgentInitSound DEF Init
<1>2. AgentInv /\ [Next]_vars => AgentInv'
  BY AgentNextSound, AgentSteps
<1>3. AgentInv => RunningIsWanted
  BY DEF AgentInv, RunningIsWanted
<1> QED BY <1>1, <1>2, <1>3, PTL DEF Spec


------------------------------------------------------------------------------
(* Names.  In a process whose commands neither overlapped nor failed half way one command  *)
(* is under way at most.  All aliases lead where the table says, but those it has in hand: *)
(* the one it edits, or those of the session that it opens or stops, which are right as    *)
(* far as the other sessions go.                                                           *)
(* The commands there are, and where each of them waits. *)
NameOp == [does : {"none", "set", "unset", "open", "stop"},
           alias : Aliases \cup {None}, key : S!References \cup {None},
           at : {"none", "saving", "unlinking", "linking", "initializing", "clearing", "closing"},
           syncs : 0..2, todo : SUBSET Aliases]
Formed(op) ==
  \/ op = S!NoOp
  \/ /\ op.does = "set" /\ op.at \in {"saving", "linking"}
     /\ op.alias \in Aliases /\ op.key \in S!References /\ op.todo = {} /\ op.syncs = 0
  \/ op.does = "unset" /\ op.at \in {"saving", "unlinking"} /\ op.alias \in Aliases
  \/ /\ op.does = "open" /\ op.at \in {"initializing", "clearing", "linking"}
     /\ op.key \in S!References /\ (op.at = "linking" => op.alias \in Aliases)
  \/ op.does = "stop" /\ op.at \in {"clearing", "closing"} /\ op.key \in S!References

(* A socket has its file, but for one that is being closed. *)
Closing(op, key) == op.does = "stop" /\ op.at = "closing" /\ op.key = key
HaveFiles == \A key \in sockets : key \in files \/ \E o \in Ops : Closing(ops[o], key)

(* Alias a is right among the sessions of some. *)
Follows(a, some) ==
  /\ table[a] \in some => links[a] = table[a] \/ a \in lost
  /\ links[a] \in some => table[a] = links[a] \/ table[a] \notin some \cup {None}

(* What has the name of alias a when its link is to be made: nothing, or a link that leads *)
(* nowhere.                                                                                *)
Met(a) == links[a] = None \/ (a \in lost /\ links[a] \notin files)

(* What one command has not finished yet. *)
Edits(op) ==
  op.does \in {"set", "unset"} =>
    /\ \A a \in Aliases \ {op.alias} : Follows(a, sockets)
    /\ table[op.alias] = IF op.does = "set" THEN op.key ELSE None
    /\ op.at = "linking" => op.key \in sockets /\ Met(op.alias)
Moves(op) ==
  op.does \in {"open", "stop"} =>
    /\ \A a \in Aliases : Follows(a, sockets \ {op.key})
    /\ op.at = "linking" =>
         /\ Met(op.alias) /\ op.alias \notin op.todo
         /\ op.todo \cup {op.alias} \subseteq S!AliasesForSession(op.key)
         /\ \A a \in Aliases \ (op.todo \cup {op.alias}) : Follows(a, sockets)

OneCommand ==
  /\ \A o, p \in Ops : ops[o] # S!NoOp /\ ops[p] # S!NoOp => o = p
  /\ \A o \in Ops : Edits(ops[o]) /\ Moves(ops[o])
  /\ (\A o \in Ops : ops[o] = S!NoOp) => \A a \in Aliases : Follows(a, sockets)
OneAtATime == ~disturbed => OneCommand

NamesSound == S!TypeOK /\ (\A o \in Ops : Formed(ops[o]))
NamesInv == NamesSound /\ HaveFiles /\ OneAtATime

(* A command that makes its next link, and one that brings the links up to date again. *)
NextLink(new, op, todo) ==
  /\ new.at = "linking" /\ new.does = op.does /\ new.key = op.key /\ new.syncs = op.syncs
  /\ new.alias \in todo /\ new.todo = todo \ {new.alias}
Again(op) == [op EXCEPT !.at = "clearing", !.syncs = @ - 1]

MakesNext(o, op, todo, left) ==
  \E next \in todo :
    /\ NextLink(ops'[o], op, todo) /\ ops'[o].alias = next
    /\ links'[next] = None \/ (next \in lost' /\ links'[next] \notin files)
    /\ \A a \in Aliases \ {next} : links'[a] = left[a] /\ (a \in lost' <=> a \in lost)

LEMMA NamesInitSound == S!Init => NamesInv
<1> SUFFICES ASSUME S!Init PROVE NamesInv
  OBVIOUS
<1>1. ops \in [Ops -> NameOp]
  BY DEF S!Init, S!NoOp, NameOp
<1>2. NamesSound
  BY <1>1 DEF S!Init, NamesSound, S!TypeOK, S!NoAliases, Formed, NameOp
<1>3. OneAtATime
  BY NameAssumption DEF S!Init, OneAtATime, OneCommand, S!NoAliases, Follows, Edits, Moves, S!NoOp
<1>4. HaveFiles
  BY DEF S!Init, HaveFiles
<1> QED BY <1>2, <1>3, <1>4 DEF NamesInv

(* What each command is when it begins. *)
LEMMA ResolveSound == ASSUME S!TypeOK, NEW reference \in S!References PROVE S!Resolve(reference) \in S!References
  BY DEF S!TypeOK, S!Resolve

LEMMA NameBecomes ==
  ASSUME S!TypeOK, NEW o \in Ops, NEW op \in NameOp, S!Becomes(o, op)
  PROVE  ops' \in [Ops -> NameOp] /\ ops'[o] = op /\ \A p \in Ops \ {o} : ops'[p] = ops[p]
  BY DEF S!TypeOK, S!Becomes, NameOp

LEMMA NameEnds ==
  ASSUME S!TypeOK, NEW o \in Ops, S!Ends(o)
  PROVE  ops' \in [Ops -> NameOp] /\ ops'[o] = S!NoOp /\ \A p \in Ops \ {o} : ops'[p] = ops[p]
<1>1. S!NoOp \in NameOp
  BY DEF S!NoOp, NameOp
<1> QED BY <1>1, NameBecomes DEF S!Ends

(* The next link, or the end of the links. *)
LEMMA NameLinks ==
  ASSUME NamesSound, NEW o \in Ops, NEW op \in NameOp, NEW todo \in SUBSET Aliases,
         NEW left \in [Aliases -> S!References \cup {None}], S!Links(o, op, todo, left)
  PROVE  /\ links' \in [Aliases -> S!References \cup {None}] /\ lost' \in SUBSET Aliases
         /\ ops' \in [Ops -> NameOp] /\ \A p \in Ops \ {o} : ops'[p] = ops[p]
         /\ todo = {} => links' = left /\ lost' = lost /\ ops'[o] = (IF op.syncs > 1 THEN Again(op) ELSE S!NoOp)
         /\ todo # {} => NextLink(ops'[o], op, todo) /\ MakesNext(o, op, todo, left)
<1>0. S!TypeOK
  BY DEF NamesSound
<1>1. CASE todo = {}
  <2>1. links' = left /\ lost' = lost
    BY <1>1 DEF S!Links
  <2>2. lost' \in SUBSET Aliases
    BY <1>0, <2>1 DEF S!TypeOK
  <2>3. CASE op.syncs > 1
    <3>1. Again(op) \in NameOp
      <4>1. op.syncs - 1 \in 0..2
        BY <2>3 DEF NameOp
      <4> QED BY <4>1 DEF Again, NameOp
    <3>2. S!Becomes(o, Again(op))
      BY <1>1, <2>3 DEF S!Links, Again
    <3> QED BY <1>0, <1>1, <2>1, <2>2, <2>3, <3>1, <3>2, NameBecomes
  <2>4. CASE ~(op.syncs > 1)
    <3>1. S!Ends(o)
      BY <1>1, <2>4 DEF S!Links
    <3> QED BY <1>0, <1>1, <2>1, <2>2, <2>4, <3>1, NameEnds
  <2> QED BY <2>3, <2>4
<1>2. CASE todo # {}
  <2>1. PICK alias \in todo :
          /\ links' = IF left[alias] \in files THEN [left EXCEPT ![alias] = None] ELSE left
          /\ lost' = IF links'[alias] = None THEN lost \ {alias} ELSE lost \cup {alias}
          /\ S!Becomes(o, [op EXCEPT !.at = "linking", !.alias = alias, !.todo = todo \ {alias}])
    BY <1>2 DEF S!Links
  <2>2. links' \in [Aliases -> S!References \cup {None}]
    BY <2>1
  <2>3. lost' \in SUBSET Aliases /\ \A a \in Aliases \ {alias} : links'[a] = left[a] /\ (a \in lost' <=> a \in lost)
    BY <1>0, <2>1 DEF S!TypeOK
  <2>4. links'[alias] = None \/ (alias \in lost' /\ links'[alias] \notin files)
    BY <2>1
  <2> DEFINE new == [op EXCEPT !.at = "linking", !.alias = alias, !.todo = todo \ {alias}]
  <2>5. new \in NameOp
    BY <2>1 DEF NameOp
  <2>6. new.alias = alias /\ NextLink(new, op, todo)
    BY <2>1 DEF NameOp, NextLink
  <2>7. ops' \in [Ops -> NameOp] /\ ops'[o] = new /\ \A p \in Ops \ {o} : ops'[p] = ops[p]
    BY <1>0, <2>1, <2>5, NameBecomes
  <2> HIDE DEF new
  <2>8. MakesNext(o, op, todo, left)
    BY <2>1, <2>3, <2>4, <2>6, <2>7 DEF MakesNext
  <2>9. NextLink(ops'[o], op, todo)
    BY <2>6, <2>7
  <2> QED BY <1>2, <2>2, <2>3, <2>7, <2>8, <2>9
<1> QED BY <1>1, <1>2

(* The only link of a command that sets an alias. *)
LEMMA OnlyLink ==
  ASSUME NamesSound, NEW o \in Ops, NEW op \in NameOp, op.alias \in Aliases,
         S!Links(o, op, {op.alias}, links)
  PROVE  /\ links' \in [Aliases -> S!References \cup {None}] /\ lost' \in SUBSET Aliases
         /\ ops' \in [Ops -> NameOp] /\ \A p \in Ops \ {o} : ops'[p] = ops[p]
         /\ NextLink(ops'[o], op, {op.alias}) /\ ops'[o].alias = op.alias
         /\ links'[op.alias] = None \/ (op.alias \in lost' /\ links'[op.alias] \notin files)
         /\ \A a \in Aliases \ {op.alias} : links'[a] = links[a] /\ (a \in lost' <=> a \in lost)
<1> DEFINE todo == {op.alias}
<1>1. todo \in SUBSET Aliases /\ todo # {} /\ S!Links(o, op, todo, links)
  OBVIOUS
<1>2. links \in [Aliases -> S!References \cup {None}]
  BY DEF NamesSound, S!TypeOK
<1>3. \A next \in todo : next = op.alias
  OBVIOUS
<1> HIDE DEF todo
<1>4. /\ links' \in [Aliases -> S!References \cup {None}] /\ lost' \in SUBSET Aliases
      /\ ops' \in [Ops -> NameOp] /\ \A p \in Ops \ {o} : ops'[p] = ops[p]
  BY <1>1, <1>2, NameLinks
<1>5. PICK next \in todo :
        /\ NextLink(ops'[o], op, todo) /\ ops'[o].alias = next
        /\ links'[next] = None \/ (next \in lost' /\ links'[next] \notin files)
        /\ \A a \in Aliases \ {next} : links'[a] = links[a] /\ (a \in lost' <=> a \in lost)
  BY <1>1, <1>2, NameLinks DEF MakesNext
<1> QED BY <1>3, <1>4, <1>5 DEF todo

LEMMA NamesTyped == NamesSound /\ [S!Next]_(S!vars) => NamesSound'
<1> SUFFICES ASSUME NamesSound, [S!Next]_(S!vars) PROVE NamesSound'
  OBVIOUS
<1>0. S!TypeOK /\ (\A o \in Ops : Formed(ops[o]))
  BY DEF NamesSound
<1>a. ops \in [Ops -> NameOp]
  BY <1>0 DEF S!TypeOK, NameOp
<1>b. ASSUME NEW o \in Ops, NEW op \in NameOp, Formed(op), S!Begins(o, op), UNCHANGED <<aliasFile, links, sockets, files, lost>>,
             table' \in [Aliases -> S!References \cup {None}], sessions' \in SUBSET S!References
      PROVE  NamesSound'
  <2>1. ops' \in [Ops -> NameOp] /\ ops'[o] = op /\ \A p \in Ops \ {o} : ops'[p] = ops[p]
    BY <1>0, <1>b, NameBecomes DEF S!Begins, S!Becomes
  <2>2. \A p \in Ops : Formed(ops'[p])
    BY <1>0, <1>b, <2>1
  <2>3. disturbed' \in BOOLEAN
    BY <1>b DEF S!Begins
  <2> QED BY <1>0, <1>b, <2>1, <2>2, <2>3 DEF NamesSound, S!TypeOK, NameOp, Formed
<1>c. ASSUME NEW o \in Ops, ops' \in [Ops -> NameOp], Formed(ops'[o]), \A p \in Ops \ {o} : ops'[p] = ops[p],
             table' \in [Aliases -> S!References \cup {None}], aliasFile' \in [Aliases -> S!References \cup {None}],
             links' \in [Aliases -> S!References \cup {None}],
             sessions' \in SUBSET S!References, sockets' \in SUBSET S!References, files' \in SUBSET S!References,
             disturbed' \in BOOLEAN, lost' \in SUBSET Aliases
      PROVE  NamesSound'
  <2>1. \A p \in Ops : Formed(ops'[p])
    BY <1>0, <1>c
  <2> QED BY <1>c, <2>1 DEF NamesSound, S!TypeOK, NameOp, Formed
<1>1. ASSUME NEW o \in Ops, NEW alias \in Aliases, NEW reference \in S!References, S!SetAlias(o, alias, reference)
      PROVE  NamesSound'
  <2>1. S!Resolve(reference) \in S!References
    BY <1>0, ResolveSound
  <2> DEFINE op == [S!NoOp EXCEPT !.does = "set", !.alias = alias, !.key = S!Resolve(reference), !.at = "saving"]
  <2>2. op \in NameOp /\ Formed(op)
    <3>1. S!NoOp \in NameOp
      BY DEF S!NoOp, NameOp
    <3>2. op \in NameOp
      BY <2>1, <3>1 DEF NameOp
    <3>3. op.todo = {} /\ op.syncs = 0
      BY <3>1 DEF S!NoOp
    <3> QED BY <2>1, <3>1, <3>2, <3>3 DEF NameOp, Formed
  <2>3. table' \in [Aliases -> S!References \cup {None}]
    BY <1>0, <1>1, <2>1 DEF S!SetAlias, S!TypeOK
  <2> QED BY <1>0, <1>1, <1>b, <2>2, <2>3 DEF S!SetAlias, S!TypeOK
<1>2. ASSUME NEW o \in Ops, NEW alias \in Aliases, S!RemoveAlias(o, alias)
      PROVE  NamesSound'
  <2> DEFINE op == [S!NoOp EXCEPT !.does = "unset", !.alias = alias, !.at = "saving"]
  <2>1. op \in NameOp /\ Formed(op)
    <3>1. S!NoOp \in NameOp
      BY DEF S!NoOp, NameOp
    <3>2. op \in NameOp
      BY <3>1 DEF NameOp
    <3> QED BY <3>1, <3>2 DEF NameOp, Formed
  <2>2. table' \in [Aliases -> S!References \cup {None}]
    BY <1>0, <1>2 DEF S!RemoveAlias, S!TypeOK
  <2> QED BY <1>0, <1>2, <1>b, <2>1, <2>2 DEF S!RemoveAlias, S!TypeOK
<1>3. ASSUME NEW o \in Ops, NEW reference \in S!References, S!GetOrCreateSession(o, reference)
      PROVE  NamesSound'
  <2>1. S!Resolve(reference) \in S!References
    BY <1>0, ResolveSound
  <2> DEFINE op == [S!NoOp EXCEPT !.does = "open", !.key = S!Resolve(reference), !.at = "initializing"]
  <2>2. op \in NameOp /\ Formed(op)
    <3>1. S!NoOp \in NameOp
      BY DEF S!NoOp, NameOp
    <3>2. op \in NameOp
      BY <2>1, <3>1 DEF NameOp
    <3>3. op.todo = {} /\ op.syncs = 0
      BY <3>1 DEF S!NoOp
    <3> QED BY <2>1, <3>1, <3>2, <3>3 DEF NameOp, Formed
  <2> QED BY <1>0, <1>3, <1>b, <2>2 DEF S!GetOrCreateSession, S!TypeOK
<1>4. ASSUME NEW o \in Ops, NEW reference \in S!References, S!StopSession(o, reference)
      PROVE  NamesSound'
  <2>1. S!Resolve(reference) \in S!References
    BY <1>0, ResolveSound
  <2> DEFINE op == [S!NoOp EXCEPT !.does = "stop", !.key = S!Resolve(reference), !.at = "clearing"]
  <2>2. op \in NameOp /\ Formed(op)
    <3>1. S!NoOp \in NameOp
      BY DEF S!NoOp, NameOp
    <3>2. op \in NameOp
      BY <2>1, <3>1 DEF NameOp
    <3>3. op.todo = {} /\ op.syncs = 0
      BY <3>1 DEF S!NoOp
    <3> QED BY <2>1, <3>1, <3>2, <3>3 DEF NameOp, Formed
  <2> QED BY <1>0, <1>4, <1>b, <2>2 DEF S!StopSession, S!TypeOK
<1>5. ASSUME NEW o \in Ops, S!Saved(o)
      PROVE  NamesSound'
  <2>0. PICK op \in NameOp : op = ops[o]
    BY <1>a
  <2>1. op \in NameOp /\ op.at = "saving" /\ Formed(op)
    BY <1>0, <1>5, <2>0, <1>a DEF S!Saved
  <2>2. op.alias \in Aliases /\ op.does \in {"set", "unset"}
    BY <2>1 DEF Formed, S!NoOp
  <2>3. CASE ~(op.does = "set" /\ op.key \in sockets)
    <3>1. UNCHANGED <<links, lost, table, sessions, sockets, files, disturbed>> /\ aliasFile' = table
      BY <1>5, <2>0, <2>3 DEF S!Saved
    <3>2. ops' \in [Ops -> NameOp] /\ Formed(ops'[o]) /\ \A p \in Ops \ {o} : ops'[p] = ops[p]
      <4>1. CASE S!Ends(o)
        BY <1>0, <4>1, NameEnds DEF Formed
      <4>2. CASE op.does = "unset" /\ S!Becomes(o, [op EXCEPT !.at = "unlinking"])
        <5>1. [op EXCEPT !.at = "unlinking"] \in NameOp /\ Formed([op EXCEPT !.at = "unlinking"])
          BY <2>1, <2>2, <4>2 DEF NameOp, Formed
        <5> QED BY <1>0, <4>2, <5>1, NameBecomes
      <4> QED BY <1>5, <2>0, <2>3, <4>1, <4>2 DEF S!Saved
    <3> QED BY <1>0, <1>c, <3>1, <3>2 DEF S!TypeOK
  <2>4. CASE op.does = "set" /\ op.key \in sockets
    <3>1. S!Links(o, op, {op.alias}, links) /\ aliasFile' = table /\ UNCHANGED <<table, sessions, sockets, files, disturbed>>
      BY <1>5, <2>0, <2>4 DEF S!Saved
    <3>2. /\ links' \in [Aliases -> S!References \cup {None}] /\ lost' \in SUBSET Aliases
          /\ ops' \in [Ops -> NameOp] /\ \A p \in Ops \ {o} : ops'[p] = ops[p]
          /\ NextLink(ops'[o], op, {op.alias})
      BY <2>1, <2>2, <3>1, OnlyLink
    <3>3. Formed(ops'[o])
      <4>1. op.key \in S!References /\ op.syncs = 0
        BY <2>1, <2>4 DEF Formed, S!NoOp
      <4> QED BY <2>2, <2>4, <3>2, <4>1 DEF Formed, NextLink
    <3> QED BY <1>0, <1>c, <3>1, <3>2, <3>3 DEF S!TypeOK
  <2> QED BY <2>3, <2>4
<1>6. ASSUME NEW o \in Ops, S!SaveFails(o) \/ S!LinkFails(o)
      PROVE  NamesSound'
  <2>1. ops' \in [Ops -> NameOp] /\ Formed(ops'[o]) /\ \A p \in Ops \ {o} : ops'[p] = ops[p]
    BY <1>0, <1>6, NameEnds DEF S!SaveFails, S!LinkFails, Formed
  <2>2. aliasFile' \in [Aliases -> S!References \cup {None}]
    BY <1>0, <1>6 DEF S!SaveFails, S!LinkFails, S!NoAliases, S!TypeOK
  <2>3. sessions' \in SUBSET S!References /\ files' \in SUBSET S!References
    <3>1. ops[o].at = "initializing" => ops[o].key \in S!References
      BY <1>0 DEF Formed, S!NoOp
    <3> QED BY <1>0, <1>6, <3>1 DEF S!SaveFails, S!LinkFails, S!TypeOK
  <2>4. UNCHANGED <<table, links, sockets, lost>> /\ disturbed' = TRUE
    BY <1>6 DEF S!SaveFails, S!LinkFails
  <2> QED BY <1>0, <1>c, <2>1, <2>2, <2>3, <2>4 DEF S!TypeOK
<1>7. ASSUME NEW o \in Ops, S!Unlinked(o)
      PROVE  NamesSound'
  <2>1. ops' \in [Ops -> NameOp] /\ Formed(ops'[o]) /\ \A p \in Ops \ {o} : ops'[p] = ops[p]
    BY <1>0, <1>7, NameEnds DEF S!Unlinked, Formed
  <2>2. links' = [links EXCEPT ![ops[o].alias] = None]
    BY <1>7 DEF S!Unlinked, S!UnlinkAlias
  <2>3. links' \in [Aliases -> S!References \cup {None}]
    BY <1>0, <2>2 DEF S!TypeOK
  <2> QED BY <1>0, <1>7, <1>c, <2>1, <2>3 DEF S!Unlinked, S!TypeOK
<1>8. ASSUME NEW o \in Ops, S!Linked(o)
      PROVE  NamesSound'
  <2>0. PICK op \in NameOp : op = ops[o]
    BY <1>a
  <2> DEFINE left == IF links[op.alias] = None THEN [links EXCEPT ![op.alias] = op.key] ELSE links
  <2>1. op \in NameOp /\ op.at = "linking" /\ Formed(op)
    BY <1>0, <1>8, <2>0, <1>a DEF S!Linked
  <2>2. left \in [Aliases -> S!References \cup {None}] /\ op.todo \in SUBSET Aliases
    BY <1>0, <2>1 DEF NameOp, S!TypeOK
  <2>3. S!Links(o, op, op.todo, left) /\ UNCHANGED <<table, aliasFile, sessions, sockets, files, disturbed>>
    BY <1>8, <2>0 DEF S!Linked
  <2>4. /\ links' \in [Aliases -> S!References \cup {None}] /\ lost' \in SUBSET Aliases
        /\ ops' \in [Ops -> NameOp] /\ \A p \in Ops \ {o} : ops'[p] = ops[p]
    BY <2>1, <2>2, <2>3, NameLinks
  <2>5. \/ op.todo = {} /\ ops'[o] = IF op.syncs > 1 THEN Again(op) ELSE S!NoOp
        \/ op.todo # {} /\ NextLink(ops'[o], op, op.todo)
    <3> HIDE DEF left
    <3>1. op.todo = {} => ops'[o] = (IF op.syncs > 1 THEN Again(op) ELSE S!NoOp)
      BY <2>1, <2>2, <2>3, NameLinks
    <3>2. op.todo # {} => NextLink(ops'[o], op, op.todo)
      BY <2>1, <2>2, <2>3, NameLinks
    <3> QED BY <3>1, <3>2
  <2>6. Formed(ops'[o])
    <3>1. CASE op.todo = {} /\ op.syncs > 1
      <4>1. ops'[o] = Again(op)
        BY <2>5, <3>1
      <4>2. op.does = "open" /\ op.key \in S!References
        BY <2>1, <3>1 DEF Formed, S!NoOp
      <4> QED BY <2>1, <4>1, <4>2 DEF NameOp, Formed, Again
    <3>2. CASE op.todo = {} /\ ~(op.syncs > 1)
      BY <2>5, <3>2 DEF Formed
    <3>3. CASE op.todo # {}
      <4>1. NextLink(ops'[o], op, op.todo)
        BY <2>5, <3>3
      <4>2. op.does = "open" /\ op.key \in S!References
        BY <2>1, <3>3 DEF Formed, S!NoOp
      <4> QED BY <2>1, <2>2, <4>1, <4>2 DEF Formed, NextLink
    <3> QED BY <3>1, <3>2, <3>3
  <2> QED BY <1>0, <1>c, <2>3, <2>4, <2>6 DEF S!TypeOK
<1>9. ASSUME NEW o \in Ops, S!Initialized(o)
      PROVE  NamesSound'
  <2> DEFINE op == ops[o]
             new == [op EXCEPT !.at = "clearing", !.syncs = IF op.key \in sockets THEN 1 ELSE 2]
  <2>1. op \in NameOp /\ op.at = "initializing" /\ Formed(op)
    BY <1>0, <1>9, <1>a DEF S!Initialized
  <2>2. op.does = "open" /\ op.key \in S!References
    BY <2>1 DEF Formed, S!NoOp
  <2>3. new \in NameOp /\ Formed(new)
    <3>1. (IF op.key \in sockets THEN 1 ELSE 2) \in 0..2
      OBVIOUS
    <3>2. new \in NameOp
      BY <2>1, <3>1 DEF NameOp
    <3> QED BY <2>1, <2>2, <3>1, <3>2 DEF NameOp, Formed
  <2>4. ops' \in [Ops -> NameOp] /\ ops'[o] = new /\ \A p \in Ops \ {o} : ops'[p] = ops[p]
    BY <1>0, <1>9, <2>3, NameBecomes DEF S!Initialized
  <2> HIDE DEF new
  <2> QED BY <1>0, <1>9, <1>c, <2>2, <2>3, <2>4 DEF S!Initialized, S!TypeOK
<1>10. ASSUME NEW o \in Ops, S!Cleared(o)
      PROVE  NamesSound'
  <2>0. PICK op \in NameOp : op = ops[o]
    BY <1>a
  <2> DEFINE left == [a \in Aliases |-> IF links[a] = op.key THEN None ELSE links[a]]
  <2>1. op \in NameOp /\ op.at = "clearing" /\ Formed(op)
    BY <1>0, <1>10, <2>0, <1>a DEF S!Cleared
  <2>2. op.does \in {"open", "stop"} /\ op.key \in S!References
    BY <2>1 DEF Formed, S!NoOp
  <2>3. left \in [Aliases -> S!References \cup {None}]
    BY <1>0 DEF S!TypeOK
  <2>4. CASE op.does = "open"
    <3>1. S!Links(o, op, S!AliasesForSession(op.key), left) /\ UNCHANGED <<table, aliasFile, sessions, sockets, files, disturbed>>
      BY <1>10, <2>0, <2>4 DEF S!Cleared
    <3> HIDE DEF left
    <3>2. S!AliasesForSession(op.key) \in SUBSET Aliases
      BY DEF S!AliasesForSession
    <3>3. /\ links' \in [Aliases -> S!References \cup {None}] /\ lost' \in SUBSET Aliases
          /\ ops' \in [Ops -> NameOp] /\ \A p \in Ops \ {o} : ops'[p] = ops[p]
      BY <2>1, <2>3, <3>1, <3>2, NameLinks
    <3>4. \/ ops'[o] = S!NoOp
          \/ op.syncs > 1 /\ ops'[o] = Again(op)
          \/ NextLink(ops'[o], op, S!AliasesForSession(op.key))
      BY <2>1, <2>3, <3>1, <3>2, NameLinks
    <3>5. Formed(ops'[o])
      BY <2>1, <2>2, <2>4, <3>2, <3>4 DEF NameOp, Formed, NextLink, Again
    <3> QED BY <1>0, <1>c, <3>1, <3>3, <3>5 DEF S!TypeOK
  <2>5. CASE op.does = "stop"
    <3>1. /\ links' = left /\ files' = files \ {op.key} /\ S!Becomes(o, [op EXCEPT !.at = "closing"])
          /\ UNCHANGED <<table, aliasFile, sessions, sockets, lost, disturbed>>
      BY <1>10, <2>0, <2>5 DEF S!Cleared
    <3>2. [op EXCEPT !.at = "closing"] \in NameOp /\ Formed([op EXCEPT !.at = "closing"])
      BY <2>1, <2>2, <2>5 DEF NameOp, Formed
    <3>3. ops' \in [Ops -> NameOp] /\ Formed(ops'[o]) /\ \A p \in Ops \ {o} : ops'[p] = ops[p]
      BY <1>0, <3>1, <3>2, NameBecomes
    <3>4. links' \in [Aliases -> S!References \cup {None}]
      BY <2>3, <3>1
    <3> QED BY <1>0, <1>c, <3>1, <3>3, <3>4 DEF S!TypeOK
  <2> QED BY <2>2, <2>4, <2>5
<1>11. ASSUME NEW o \in Ops, S!Closed(o)
      PROVE  NamesSound'
  <2>1. ops' \in [Ops -> NameOp] /\ Formed(ops'[o]) /\ \A p \in Ops \ {o} : ops'[p] = ops[p]
    BY <1>0, <1>11, NameEnds DEF S!Closed, Formed
  <2> QED BY <1>0, <1>11, <1>c, <2>1 DEF S!Closed, S!TypeOK
<1>12. CASE S!Crash
  <2>1. ops' \in [Ops -> NameOp] /\ \A p \in Ops : ops'[p] = S!NoOp
    BY <1>12 DEF S!Crash, S!NoOp, NameOp
  <2>2. table' \in [Aliases -> S!References \cup {None}] /\ aliasFile' \in [Aliases -> S!References \cup {None}]
    BY <1>0, <1>12 DEF S!Crash, S!NoAliases, S!TypeOK
  <2> QED BY <1>0, <1>12, <2>1, <2>2 DEF S!Crash, NamesSound, S!TypeOK, NameOp, Formed
<1>13. CASE UNCHANGED S!vars
  BY <1>0, <1>13 DEF S!vars, NamesSound, S!TypeOK, Formed
<1> QED
  BY <1>1, <1>2, <1>3, <1>4, <1>5, <1>6, <1>7, <1>8, <1>9, <1>10, <1>11, <1>12, <1>13
  DEF S!Next, S!ChatCommand, S!LegacySocketCommand, S!AliasCommand, S!References

(* The file of a socket goes with the command that closes it. *)
LEMMA FilesStep == NamesSound /\ HaveFiles /\ [S!Next]_(S!vars) => HaveFiles'
<1> SUFFICES ASSUME NamesSound, HaveFiles, [S!Next]_(S!vars) PROVE HaveFiles'
  OBVIOUS
<1>0. S!TypeOK /\ (\A o \in Ops : Formed(ops[o]))
  BY DEF NamesSound
<1>a. ops \in [Ops -> NameOp]
  BY <1>0 DEF S!TypeOK, NameOp
<1>b. ASSUME NEW o \in Ops, ops[o].at # "closing", \A p \in Ops \ {o} : ops'[p] = ops[p],
             \A key \in sockets' : key \in files' \/ (key \in sockets /\ key \notin files)
      PROVE  HaveFiles'
  <2> SUFFICES ASSUME NEW key \in sockets', key \in sockets, key \notin files
               PROVE  \E p \in Ops : Closing(ops'[p], key)
    BY <1>b DEF HaveFiles
  <2>1. PICK p \in Ops : Closing(ops[p], key)
    BY DEF HaveFiles
  <2>2. p # o
    BY <1>b, <2>1 DEF Closing
  <2> QED BY <1>b, <2>1, <2>2
<1>1. ASSUME NEW o \in Ops, NEW op, S!Begins(o, op), UNCHANGED <<sockets, files>>
      PROVE  HaveFiles'
  <2>1. ops[o].at # "closing" /\ \A p \in Ops \ {o} : ops'[p] = ops[p]
    BY <1>a, <1>1 DEF S!Begins, S!NoOp
  <2> QED BY <1>1, <1>b, <2>1
<1>2. ASSUME NEW o \in Ops, ops[o].at # "closing", NEW op, S!Becomes(o, op), UNCHANGED <<sockets, files>>
      PROVE  HaveFiles'
  <2>1. \A p \in Ops \ {o} : ops'[p] = ops[p]
    BY <1>a, <1>2 DEF S!Becomes
  <2> QED BY <1>2, <1>b, <2>1
<1>3. ASSUME NEW o \in Ops, NEW reference \in S!References,
             \/ \E alias \in Aliases : S!SetAlias(o, alias, reference) \/ S!RemoveAlias(o, alias)
             \/ S!GetOrCreateSession(o, reference) \/ S!StopSession(o, reference)
      PROVE  HaveFiles'
  BY <1>1, <1>3 DEF S!SetAlias, S!RemoveAlias, S!GetOrCreateSession, S!StopSession
<1>4. ASSUME NEW o \in Ops, S!Saved(o) \/ S!SaveFails(o) \/ S!Unlinked(o) \/ S!Linked(o)
      PROVE  HaveFiles'
  <2>1. ops[o].at # "closing" /\ UNCHANGED <<sockets, files>>
    BY <1>4 DEF S!Saved, S!SaveFails, S!Unlinked, S!Linked
  <2>2. \E op : S!Becomes(o, op)
    <3>1. ASSUME NEW op, NEW todo, NEW left, S!Links(o, op, todo, left)
          PROVE  \E new : S!Becomes(o, new)
      BY <3>1 DEF S!Links, S!Ends
    <3> QED BY <1>4, <3>1 DEF S!Saved, S!SaveFails, S!Unlinked, S!Linked, S!Ends
  <2> QED BY <1>2, <2>1, <2>2
<1>5. ASSUME NEW o \in Ops, S!LinkFails(o)
      PROVE  HaveFiles'
  <2>1. ops[o].at # "closing" /\ sockets' = sockets /\ S!Ends(o)
    BY <1>5 DEF S!LinkFails
  <2>2. \A p \in Ops \ {o} : ops'[p] = ops[p]
    BY <1>0, <2>1, NameEnds
  <2>3. \A key \in sockets : key \in files => key \in files'
    BY <1>5 DEF S!LinkFails
  <2> QED BY <1>b, <2>1, <2>2, <2>3
<1>6. ASSUME NEW o \in Ops, S!Initialized(o)
      PROVE  HaveFiles'
  <2>1. /\ ops[o].at # "closing" /\ sockets' = sockets \cup {ops[o].key}
        /\ files' = IF ops[o].key \in sockets THEN files ELSE files \cup {ops[o].key}
    BY <1>6 DEF S!Initialized
  <2>2. \A p \in Ops \ {o} : ops'[p] = ops[p]
    BY <1>a, <1>6 DEF S!Initialized, S!Becomes
  <2> QED BY <1>b, <2>1, <2>2
<1>7. ASSUME NEW o \in Ops, S!Cleared(o)
      PROVE  HaveFiles'
  <2>0. PICK op \in NameOp : op = ops[o]
    BY <1>a
  <2>1. op.at = "clearing" /\ op.does \in {"open", "stop"}
    BY <1>0, <1>7, <2>0 DEF S!Cleared, Formed, S!NoOp
  <2>2. CASE op.does = "open"
    <3>1. UNCHANGED <<sockets, files>> /\ \E new : S!Becomes(o, new)
      BY <1>7, <2>0, <2>2 DEF S!Cleared, S!Links, S!Ends
    <3> QED BY <1>2, <2>0, <2>1, <3>1
  <2>3. CASE op.does = "stop"
    <3>1. files' = files \ {op.key} /\ S!Becomes(o, [op EXCEPT !.at = "closing"]) /\ UNCHANGED sockets
      BY <1>7, <2>0, <2>3 DEF S!Cleared
    <3>2. [op EXCEPT !.at = "closing"] \in NameOp /\ Closing([op EXCEPT !.at = "closing"], op.key)
      BY <2>3 DEF NameOp, Closing
    <3>3. Closing(ops'[o], op.key) /\ \A p \in Ops \ {o} : ops'[p] = ops[p]
      BY <1>0, <3>1, <3>2, NameBecomes
    <3> SUFFICES ASSUME NEW key \in sockets, key \notin files, key # op.key
                 PROVE  \E p \in Ops : Closing(ops'[p], key)
      BY <3>1, <3>3 DEF HaveFiles
    <3>4. PICK p \in Ops : Closing(ops[p], key)
      BY DEF HaveFiles
    <3>5. p # o
      BY <2>0, <2>1, <3>4 DEF Closing
    <3> QED BY <3>3, <3>4, <3>5
  <2> QED BY <2>1, <2>2, <2>3
<1>8. ASSUME NEW o \in Ops, S!Closed(o)
      PROVE  HaveFiles'
  <2>1. /\ sockets' = sockets \ {ops[o].key} /\ files' = files \ {ops[o].key} /\ S!Ends(o)
    BY <1>8 DEF S!Closed
  <2>2. \A p \in Ops \ {o} : ops'[p] = ops[p]
    BY <1>0, <2>1, NameEnds
  <2> SUFFICES ASSUME NEW key \in sockets, key \notin files, key # ops[o].key
               PROVE  \E p \in Ops : Closing(ops'[p], key)
    BY <2>1 DEF HaveFiles
  <2>3. PICK p \in Ops : Closing(ops[p], key)
    BY DEF HaveFiles
  <2> QED BY <2>2, <2>3 DEF Closing
<1>9. CASE S!Crash
  BY <1>9 DEF S!Crash, HaveFiles
<1>10. CASE UNCHANGED S!vars
  BY <1>10 DEF S!vars, HaveFiles
<1> QED
  BY <1>3, <1>4, <1>5, <1>6, <1>7, <1>8, <1>9, <1>10
  DEF S!Next, S!ChatCommand, S!LegacySocketCommand, S!AliasCommand, S!References

LEMMA NamesStep == NamesInv /\ NamesSound' /\ [S!Next]_(S!vars) => OneAtATime'
<1> SUFFICES ASSUME NamesInv, NamesSound', [S!Next]_(S!vars), ~disturbed' PROVE OneCommand'
  BY DEF OneAtATime
<1>0. /\ NamesSound /\ S!TypeOK /\ (\A o \in Ops : Formed(ops[o])) /\ HaveFiles
      /\ ~disturbed => OneCommand
  BY DEF NamesInv, NamesSound, OneAtATime
<1>a. ops \in [Ops -> NameOp]
  BY <1>0 DEF S!TypeOK, NameOp
<1>b. None \notin sockets /\ None \notin sockets'
  BY <1>0, NameAssumption DEF S!TypeOK, NamesSound, S!References
<1>c. ASSUME NEW o \in Ops, \A p \in Ops \ {o} : ops'[p] = S!NoOp, Edits(ops[o])', Moves(ops[o])',
             ops'[o] = S!NoOp => \A a \in Aliases : Follows(a, sockets)'
      PROVE  OneCommand'
  <2>1. \A p \in Ops \ {o} : Edits(ops[p])' /\ Moves(ops[p])'
    BY <1>c DEF Edits, Moves, S!NoOp
  <2> QED BY <1>c, <2>1 DEF OneCommand
<1>d. ASSUME NEW o \in Ops, ops[o] # S!NoOp, ~disturbed, \A p \in Ops \ {o} : ops'[p] = ops[p]
      PROVE  /\ (\A p \in Ops \ {o} : ops'[p] = S!NoOp) /\ Edits(ops[o]) /\ Moves(ops[o])
             /\ ops[o].at # "closing" => sockets \subseteq files
  <2>1. (\A p \in Ops \ {o} : ops[p] = S!NoOp) /\ Edits(ops[o]) /\ Moves(ops[o])
    BY <1>0, <1>d DEF OneCommand
  <2>2. ops[o].at # "closing" => sockets \subseteq files
    BY <1>0, <2>1 DEF HaveFiles, Closing, S!NoOp
  <2> QED BY <1>d, <2>1, <2>2
<1>e. ASSUME NEW o \in Ops, NEW op \in NameOp, S!Begins(o, op)
      PROVE  /\ ops'[o] = op /\ \A p \in Ops \ {o} : ops'[p] = S!NoOp
             /\ \A a \in Aliases : Follows(a, sockets)
  <2>1. ~disturbed /\ \A p \in Ops : ops[p] = S!NoOp
    BY <1>e DEF S!Begins
  <2>2. ops'[o] = op /\ \A p \in Ops \ {o} : ops'[p] = ops[p]
    BY <1>a, <1>e DEF S!Begins
  <2> QED BY <1>0, <2>1, <2>2 DEF OneCommand
<1>g. S!NoOp \in NameOp
  BY DEF S!NoOp, NameOp
<1>h. ASSUME NEW op \in NameOp, op.does \in {"open", "stop"}, op.at # "linking",
             \A a \in Aliases : Follows(a, sockets \ {op.key})'
      PROVE  Edits(op)' /\ Moves(op)'
  BY <1>h DEF Edits, Moves
<1>i. Edits(S!NoOp)' /\ Moves(S!NoOp)'
  BY DEF Edits, Moves, S!NoOp
<1>1. ASSUME NEW o \in Ops, NEW alias \in Aliases, NEW reference \in S!References, S!SetAlias(o, alias, reference)
      PROVE  OneCommand'
  <2> DEFINE op == [S!NoOp EXCEPT !.does = "set", !.alias = alias, !.key = S!Resolve(reference), !.at = "saving"]
  <2>1. op \in NameOp /\ op.does = "set" /\ op.alias = alias /\ op.key = S!Resolve(reference) /\ op.at = "saving"
    BY <1>0, <1>g, ResolveSound DEF NameOp
  <2> HIDE DEF op
  <2>2. S!Begins(o, op) /\ table' = [table EXCEPT ![alias] = S!Resolve(reference)] /\ UNCHANGED <<links, sockets, lost>>
    BY <1>1 DEF S!SetAlias, op
  <2>3. ops'[o] = op /\ (\A p \in Ops \ {o} : ops'[p] = S!NoOp) /\ \A a \in Aliases : Follows(a, sockets)
    BY <1>e, <2>1, <2>2
  <2>4. Edits(ops[o])' /\ Moves(ops[o])'
    BY <1>0, <2>1, <2>2, <2>3 DEF Edits, Moves, Follows, S!TypeOK
  <2> QED BY <1>c, <2>1, <2>3, <2>4 DEF S!NoOp
<1>2. ASSUME NEW o \in Ops, NEW alias \in Aliases, S!RemoveAlias(o, alias)
      PROVE  OneCommand'
  <2> DEFINE op == [S!NoOp EXCEPT !.does = "unset", !.alias = alias, !.at = "saving"]
  <2>1. op \in NameOp /\ op.does = "unset" /\ op.alias = alias /\ op.at = "saving"
    BY <1>g DEF NameOp
  <2> HIDE DEF op
  <2>2. S!Begins(o, op) /\ table' = [table EXCEPT ![alias] = None] /\ UNCHANGED <<links, sockets, lost>>
    BY <1>2 DEF S!RemoveAlias, op
  <2>3. ops'[o] = op /\ (\A p \in Ops \ {o} : ops'[p] = S!NoOp) /\ \A a \in Aliases : Follows(a, sockets)
    BY <1>e, <2>1, <2>2
  <2>4. Edits(ops[o])' /\ Moves(ops[o])'
    BY <1>0, <2>1, <2>2, <2>3 DEF Edits, Moves, Follows, S!TypeOK
  <2> QED BY <1>c, <2>1, <2>3, <2>4 DEF S!NoOp
<1>3. ASSUME NEW o \in Ops, NEW reference \in S!References,
             S!GetOrCreateSession(o, reference) \/ S!StopSession(o, reference)
      PROVE  OneCommand'
  <2>1. PICK op \in NameOp : S!Begins(o, op) /\ op.does \in {"open", "stop"} /\ op.at \notin {"none", "linking"}
    <3>1. S!Resolve(reference) \in S!References
      BY <1>0, ResolveSound
    <3>2. [S!NoOp EXCEPT !.does = "open", !.key = S!Resolve(reference), !.at = "initializing"] \in NameOp
      BY <1>g, <3>1 DEF NameOp
    <3>3. [S!NoOp EXCEPT !.does = "stop", !.key = S!Resolve(reference), !.at = "clearing"] \in NameOp
      BY <1>g, <3>1 DEF NameOp
    <3>4. CASE S!GetOrCreateSession(o, reference)
      BY <1>g, <3>2, <3>4 DEF S!GetOrCreateSession, NameOp
    <3>5. CASE S!StopSession(o, reference)
      BY <1>g, <3>3, <3>5 DEF S!StopSession, NameOp
    <3> QED BY <1>3, <3>4, <3>5
  <2>2. ops'[o] = op /\ (\A p \in Ops \ {o} : ops'[p] = S!NoOp) /\ \A a \in Aliases : Follows(a, sockets)
    BY <1>e, <2>1
  <2>3. UNCHANGED <<table, links, sockets, lost>>
    BY <1>3 DEF S!GetOrCreateSession, S!StopSession
  <2>4. \A a \in Aliases : Follows(a, sockets \ {op.key})'
    BY <2>2, <2>3 DEF Follows
  <2>5. Edits(ops[o])' /\ Moves(ops[o])'
    BY <1>h, <2>1, <2>2, <2>4
  <2> QED BY <1>c, <2>1, <2>2, <2>5 DEF S!NoOp
<1>5. ASSUME NEW o \in Ops, S!Saved(o)
      PROVE  OneCommand'
  <2>0. PICK op \in NameOp : op = ops[o]
    BY <1>a
  <2>1. op.at = "saving" /\ op.alias \in Aliases /\ op.does \in {"set", "unset"} /\ ops[o] # S!NoOp
    BY <1>0, <1>5, <2>0 DEF S!Saved, Formed, S!NoOp
  <2>2. ~disturbed /\ UNCHANGED <<table, sockets, files>>
    BY <1>5 DEF S!Saved
  <2>3. (\A p \in Ops \ {o} : ops'[p] = ops[p]) =>
          (\A p \in Ops \ {o} : ops'[p] = S!NoOp) /\ Edits(op) /\ sockets \subseteq files
    BY <1>d, <2>0, <2>1, <2>2
  <2>4. CASE op.does = "unset" /\ links[op.alias] \notin files
    <3>1. S!Ends(o) /\ UNCHANGED <<links, lost>>
      BY <1>5, <2>0, <2>4 DEF S!Saved
    <3>2. ops'[o] = S!NoOp /\ \A p \in Ops \ {o} : ops'[p] = ops[p]
      BY <1>0, <3>1, NameEnds
    <3>3. \A a \in Aliases : Follows(a, sockets)'
      BY <1>b, <2>1, <2>2, <2>3, <2>4, <3>1, <3>2 DEF Edits, Follows
    <3> QED BY <1>c, <1>i, <2>3, <3>2, <3>3
  <2>5. CASE op.does = "unset" /\ links[op.alias] \in files
    <3>1. S!Becomes(o, [op EXCEPT !.at = "unlinking"]) /\ UNCHANGED <<links, lost>>
      BY <1>5, <2>0, <2>5 DEF S!Saved
    <3> DEFINE new == [op EXCEPT !.at = "unlinking"]
    <3>2. new \in NameOp /\ new.at = "unlinking" /\ new.does = "unset" /\ new.alias = op.alias
      BY <2>5 DEF NameOp
    <3>3. ops'[o] = new /\ \A p \in Ops \ {o} : ops'[p] = ops[p]
      BY <1>0, <3>1, <3>2, NameBecomes
    <3> HIDE DEF new
    <3>4. Edits(ops[o])' /\ Moves(ops[o])'
      BY <2>2, <2>3, <2>5, <3>1, <3>2, <3>3 DEF Edits, Moves, Follows
    <3> QED BY <1>c, <2>3, <3>2, <3>3, <3>4 DEF S!NoOp
  <2>6. CASE op.does = "set" /\ op.key \in sockets
    <3>1. S!Links(o, op, {op.alias}, links)
      BY <1>5, <2>0, <2>6 DEF S!Saved
    <3>2. /\ \A p \in Ops \ {o} : ops'[p] = ops[p]
          /\ NextLink(ops'[o], op, {op.alias}) /\ ops'[o].alias = op.alias
          /\ links'[op.alias] = None \/ (op.alias \in lost' /\ links'[op.alias] \notin files)
          /\ \A a \in Aliases \ {op.alias} : links'[a] = links[a] /\ (a \in lost' <=> a \in lost)
      BY <1>0, <2>1, <3>1, OnlyLink
    <3>3. ops'[o].at = "linking" /\ ops'[o].does = "set" /\ ops'[o].key = op.key
      BY <2>6, <3>2 DEF NextLink
    <3>4. Edits(ops[o])' /\ Moves(ops[o])'
      <4>1. \A a \in Aliases \ {op.alias} : Follows(a, sockets)'
        BY <2>1, <2>2, <2>3, <3>2 DEF Edits, Follows
      <4>2. Met(op.alias)' /\ table'[op.alias] = op.key
        BY <2>1, <2>2, <2>3, <2>6, <3>2 DEF Edits, Met
      <4> QED BY <2>2, <2>6, <3>2, <3>3, <4>1, <4>2 DEF Edits, Moves, Met
    <3> QED BY <1>c, <2>3, <3>2, <3>3, <3>4 DEF S!NoOp
  <2>7. CASE op.does = "set" /\ op.key \notin sockets
    <3>1. S!Ends(o) /\ UNCHANGED <<links, lost>>
      BY <1>5, <2>0, <2>7 DEF S!Saved
    <3>2. ops'[o] = S!NoOp /\ \A p \in Ops \ {o} : ops'[p] = ops[p]
      BY <1>0, <3>1, NameEnds
    <3>3. \A a \in Aliases \ {op.alias} : Follows(a, sockets)'
      BY <2>1, <2>2, <2>3, <3>1, <3>2 DEF Edits, Follows
    <3>4. Follows(op.alias, sockets)'
      <4>1. op.key # None
        BY <1>0, <2>0, <2>1, <2>7, NameAssumption DEF Formed, S!NoOp, S!References
      <4> QED BY <1>b, <2>1, <2>2, <2>3, <2>7, <3>1, <3>2, <4>1 DEF Edits, Follows
    <3> QED BY <1>c, <1>i, <2>3, <3>2, <3>3, <3>4
  <2> QED BY <2>1, <2>4, <2>5, <2>6, <2>7
<1>6. ASSUME NEW o \in Ops, S!SaveFails(o) \/ S!LinkFails(o)
      PROVE  OneCommand'
  BY <1>6 DEF S!SaveFails, S!LinkFails
<1>7. ASSUME NEW o \in Ops, S!Unlinked(o)
      PROVE  OneCommand'
  <2>0. PICK op \in NameOp : op = ops[o]
    BY <1>a
  <2>1. op.at = "unlinking" /\ op.alias \in Aliases /\ op.does = "unset" /\ ops[o] # S!NoOp
    BY <1>0, <1>7, <2>0 DEF S!Unlinked, Formed, S!NoOp
  <2>2. /\ ~disturbed /\ UNCHANGED <<table, sockets, lost>> /\ links' = [links EXCEPT ![op.alias] = None]
        /\ S!Ends(o)
    BY <1>7, <2>0 DEF S!Unlinked, S!UnlinkAlias
  <2>3. ops'[o] = S!NoOp /\ \A p \in Ops \ {o} : ops'[p] = ops[p]
    BY <1>0, <2>2, NameEnds
  <2>4. (\A p \in Ops \ {o} : ops'[p] = S!NoOp) /\ Edits(op)
    BY <1>d, <2>0, <2>1, <2>2, <2>3
  <2>5. \A a \in Aliases : Follows(a, sockets)'
    BY <1>0, <1>b, <2>1, <2>2, <2>4 DEF Edits, Follows, S!TypeOK
  <2> QED BY <1>c, <1>i, <2>3, <2>4, <2>5
<1>8. ASSUME NEW o \in Ops, S!Linked(o)
      PROVE  OneCommand'
  <2>0. PICK op \in NameOp : op = ops[o]
    BY <1>a
  <2> DEFINE left == IF links[op.alias] = None THEN [links EXCEPT ![op.alias] = op.key] ELSE links
  <2>1. op.at = "linking" /\ op.alias \in Aliases /\ op.does \in {"set", "open"} /\ ops[o] # S!NoOp /\ op.key \in S!References
    BY <1>0, <1>8, <2>0 DEF S!Linked, Formed, S!NoOp
  <2>2. left \in [Aliases -> S!References \cup {None}] /\ op.todo \in SUBSET Aliases
    BY <1>0, <2>1 DEF NameOp, S!TypeOK
  <2>3. S!Links(o, op, op.todo, left) /\ ~disturbed /\ UNCHANGED <<table, sockets, files>>
    BY <1>8, <2>0 DEF S!Linked
  <2>4. /\ \A p \in Ops \ {o} : ops'[p] = ops[p]
        /\ op.todo = {} => links' = left /\ lost' = lost /\ ops'[o] = (IF op.syncs > 1 THEN Again(op) ELSE S!NoOp)
        /\ op.todo # {} => MakesNext(o, op, op.todo, left)
    <3> DEFINE todo == op.todo
    <3>1. todo \in SUBSET Aliases /\ S!Links(o, op, todo, left)
      BY <2>2, <2>3
    <3> HIDE DEF left, todo
    <3>2. /\ \A p \in Ops \ {o} : ops'[p] = ops[p]
          /\ todo = {} => links' = left /\ lost' = lost /\ ops'[o] = (IF op.syncs > 1 THEN Again(op) ELSE S!NoOp)
          /\ todo # {} => MakesNext(o, op, todo, left)
      BY <1>0, <2>2, <3>1, NameLinks
    <3> QED BY <3>2 DEF todo
  <2>5. (\A p \in Ops \ {o} : ops'[p] = S!NoOp) /\ Edits(op) /\ Moves(op) /\ sockets \subseteq files
    BY <1>d, <2>0, <2>1, <2>3, <2>4
  <2>6. Met(op.alias) /\ table[op.alias] = op.key
    BY <1>0, <2>1, <2>5 DEF Edits, Moves, S!AliasesForSession
  <2>7. /\ left[op.alias] = op.key \/ (op.alias \in lost /\ left[op.alias] \notin files)
        /\ \A a \in Aliases \ {op.alias} : left[a] = links[a]
    BY <1>0, <2>1, <2>6 DEF S!TypeOK, Met
  <2> HIDE DEF left
  <2>8. CASE op.todo = {}
    <3>1. \A a \in Aliases \ {op.alias} : Follows(a, sockets)
      BY <2>1, <2>5, <2>8 DEF Edits, Moves
    <3>2. links' = left /\ lost' = lost
      BY <2>4, <2>8
    <3>3. \A a \in Aliases \ {op.alias} : Follows(a, sockets)'
      BY <2>3, <2>7, <3>1, <3>2 DEF Follows
    <3>4. Follows(op.alias, sockets)'
      BY <2>3, <2>5, <2>6, <2>7, <3>2 DEF Follows
    <3>5. \A a \in Aliases : Follows(a, sockets)'
      BY <3>3, <3>4
    <3>6. CASE op.syncs > 1
      <4>1. op.does = "open"
        BY <1>0, <2>0, <2>1, <3>6 DEF Formed
      <4>2. Again(op).does = "open" /\ Again(op).at = "clearing" /\ Again(op).key = op.key
        BY <4>1 DEF Again, NameOp
      <4>3. ops'[o] = Again(op)
        BY <2>4, <2>8, <3>6
      <4>4. Edits(ops[o])' /\ Moves(ops[o])'
        <5>1. \A a \in Aliases : Follows(a, sockets \ {op.key})'
          BY <3>5 DEF Follows
        <5> QED BY <4>2, <4>3, <5>1 DEF Edits, Moves
      <4> QED BY <1>c, <2>5, <4>2, <4>3, <4>4 DEF S!NoOp
    <3>7. CASE ~(op.syncs > 1)
      BY <1>c, <1>i, <2>4, <2>5, <2>8, <3>5, <3>7
    <3> QED BY <3>6, <3>7
  <2>9. CASE op.todo # {}
    <3>1. op.does = "open"
      BY <1>0, <2>0, <2>1, <2>9 DEF Formed, S!NoOp
    <3>2. PICK next \in op.todo :
            /\ NextLink(ops'[o], op, op.todo) /\ ops'[o].alias = next
            /\ links'[next] = None \/ (next \in lost' /\ links'[next] \notin files)
            /\ \A a \in Aliases \ {next} : links'[a] = left[a] /\ (a \in lost' <=> a \in lost)
      BY <2>4, <2>9 DEF MakesNext
    <3>3. next \in Aliases /\ next # op.alias /\ table[next] = op.key
      BY <2>1, <2>5, <3>1 DEF Moves, S!AliasesForSession
    <3>4. /\ links'[op.alias] = op.key \/ (op.alias \in lost' /\ links'[op.alias] \notin files)
          /\ \A a \in Aliases \ {op.alias, next} : links'[a] = links[a] /\ (a \in lost' <=> a \in lost)
      BY <2>1, <2>7, <3>2, <3>3
    <3>5. /\ ops'[o].at = "linking" /\ ops'[o].does = "open" /\ ops'[o].key = op.key
          /\ ops'[o].todo = op.todo \ {next} /\ ops'[o].alias = next
      BY <3>1, <3>2 DEF NextLink
    <3>6. \A a \in Aliases : Follows(a, sockets \ {op.key})'
      <4>1. \A a \in Aliases \ {op.alias, next} : Follows(a, sockets \ {op.key})'
        BY <2>1, <2>3, <2>5, <3>1, <3>4 DEF Moves, Follows
      <4>2. Follows(next, sockets \ {op.key})'
        BY <1>b, <2>3, <2>5, <3>2, <3>3 DEF Follows
      <4>3. Follows(op.alias, sockets \ {op.key})'
        BY <1>b, <2>3, <2>5, <2>6, <3>4 DEF Follows
      <4> QED BY <4>1, <4>2, <4>3
    <3>7. \A a \in Aliases \ op.todo : Follows(a, sockets)'
      <4>1. \A a \in Aliases \ (op.todo \cup {op.alias}) : Follows(a, sockets)'
        BY <2>1, <2>3, <2>5, <3>1, <3>4 DEF Moves, Follows
      <4>2. Follows(op.alias, sockets)'
        BY <2>3, <2>5, <2>6, <3>4 DEF Follows
      <4> QED BY <4>1, <4>2
    <3>8. op.todo \subseteq S!AliasesForSession(op.key)'
      BY <2>1, <2>3, <2>5, <3>1 DEF Moves, S!AliasesForSession
    <3>9. Met(next)'
      BY <2>3, <3>2 DEF Met
    <3>10. Edits(ops[o])' /\ Moves(ops[o])'
      BY <3>5, <3>6, <3>7, <3>8, <3>9 DEF Edits, Moves, Met
    <3> QED BY <1>c, <2>5, <3>5, <3>10 DEF S!NoOp
  <2> QED BY <2>8, <2>9
<1>9. ASSUME NEW o \in Ops, S!Initialized(o)
      PROVE  OneCommand'
  <2>0. PICK op \in NameOp : op = ops[o]
    BY <1>a
  <2>1. op.at = "initializing" /\ op.does = "open" /\ ops[o] # S!NoOp
    BY <1>0, <1>9, <2>0 DEF S!Initialized, Formed, S!NoOp
  <2> DEFINE new == [op EXCEPT !.at = "clearing", !.syncs = IF op.key \in sockets THEN 1 ELSE 2]
  <2>2. /\ ~disturbed /\ UNCHANGED <<table, links, lost>> /\ sockets' = sockets \cup {op.key}
        /\ S!Becomes(o, new)
    BY <1>9, <2>0 DEF S!Initialized
  <2>3. new \in NameOp /\ new.at = "clearing" /\ new.does = "open" /\ new.key = op.key
    <3>1. (IF op.key \in sockets THEN 1 ELSE 2) \in 0..2
      OBVIOUS
    <3> QED BY <2>1, <3>1 DEF NameOp
  <2> HIDE DEF new
  <2>4. ops'[o] = new /\ \A p \in Ops \ {o} : ops'[p] = ops[p]
    BY <1>0, <2>2, <2>3, NameBecomes
  <2>5. (\A p \in Ops \ {o} : ops'[p] = S!NoOp) /\ Moves(op)
    BY <1>d, <2>0, <2>1, <2>2, <2>4
  <2>6. \A a \in Aliases : Follows(a, sockets \ {op.key})'
    BY <2>1, <2>2, <2>5 DEF Moves, Follows
  <2>7. Edits(ops[o])' /\ Moves(ops[o])'
    BY <2>3, <2>4, <2>6 DEF Edits, Moves
  <2> QED BY <1>c, <2>3, <2>4, <2>5, <2>7 DEF S!NoOp
<1>10. ASSUME NEW o \in Ops, S!Cleared(o)
      PROVE  OneCommand'
  <2>0. PICK op \in NameOp : op = ops[o]
    BY <1>a
  <2> DEFINE left == [a \in Aliases |-> IF links[a] = op.key THEN None ELSE links[a]]
             todo == S!AliasesForSession(op.key)
  <2>1. op.at = "clearing" /\ op.does \in {"open", "stop"} /\ ops[o] # S!NoOp
    BY <1>0, <1>10, <2>0 DEF S!Cleared, Formed, S!NoOp
  <2>2. left \in [Aliases -> S!References \cup {None}] /\ todo \in SUBSET Aliases
    BY <1>0 DEF S!TypeOK, S!AliasesForSession
  <2>3. \A a \in Aliases : left[a] = IF links[a] = op.key THEN None ELSE links[a]
    OBVIOUS
  <2>4. \A a \in Aliases : a \in todo <=> table[a] = op.key
    BY DEF S!AliasesForSession
  <2>5. ~disturbed /\ UNCHANGED <<table, sockets>> /\ (op.does = "open" => UNCHANGED files)
    BY <1>10, <2>0 DEF S!Cleared
  <2>6. CASE op.does = "open"
    <3>1. S!Links(o, op, todo, left)
      BY <1>10, <2>0, <2>6 DEF S!Cleared
    <3> HIDE DEF left, todo
    <3>2. /\ \A p \in Ops \ {o} : ops'[p] = ops[p]
          /\ todo = {} => links' = left /\ lost' = lost /\ ops'[o] = (IF op.syncs > 1 THEN Again(op) ELSE S!NoOp)
          /\ todo # {} => MakesNext(o, op, todo, left)
      BY <1>0, <2>2, <3>1, NameLinks
    <3>3. (\A p \in Ops \ {o} : ops'[p] = S!NoOp) /\ Moves(op) /\ sockets \subseteq files
      BY <1>d, <2>0, <2>1, <2>5, <3>2
    <3>4. \A a \in Aliases :
            \/ links'[a] = left[a] /\ (a \in lost' <=> a \in lost)
            \/ a \in todo /\ (links'[a] = None \/ (a \in lost' /\ links'[a] \notin files))
      <4>1. CASE todo = {}
        BY <3>2, <4>1
      <4>2. CASE todo # {}
        BY <3>2, <4>2 DEF MakesNext
      <4> QED BY <4>1, <4>2
    <3>5. \A a \in Aliases : Follows(a, sockets \ {op.key})
      BY <2>6, <3>3 DEF Moves
    <3>6. \A a \in Aliases : Follows(a, sockets \ {op.key})'
      BY <1>b, <2>3, <2>4, <2>5, <3>3, <3>4, <3>5 DEF Follows
    <3>7. \A a \in Aliases \ todo : Follows(a, sockets)'
      BY <1>b, <2>3, <2>4, <2>5, <3>4, <3>5 DEF Follows
    <3>8. CASE todo = {} /\ op.syncs > 1
      <4>1. Again(op).does = "open" /\ Again(op).at = "clearing" /\ Again(op).key = op.key
        BY <2>6 DEF Again, NameOp
      <4>2. ops'[o] = Again(op)
        BY <3>2, <3>8
      <4>3. Edits(ops[o])' /\ Moves(ops[o])'
        BY <3>6, <4>1, <4>2 DEF Edits, Moves
      <4> QED BY <1>c, <3>3, <4>1, <4>2, <4>3 DEF S!NoOp
    <3>9. CASE todo = {} /\ ~(op.syncs > 1)
      <4>1. ops'[o] = S!NoOp /\ \A a \in Aliases : Follows(a, sockets)'
        BY <3>2, <3>7, <3>9
      <4> QED BY <1>c, <1>i, <3>3, <4>1
    <3>10. CASE todo # {}
      <4>1. PICK next \in todo :
              /\ NextLink(ops'[o], op, todo) /\ ops'[o].alias = next
              /\ links'[next] = None \/ (next \in lost' /\ links'[next] \notin files)
        BY <3>2, <3>10 DEF MakesNext
      <4>2. /\ ops'[o].at = "linking" /\ ops'[o].does = "open" /\ ops'[o].key = op.key
            /\ ops'[o].todo = todo \ {next} /\ ops'[o].alias = next
        BY <2>6, <4>1 DEF NextLink
      <4>3. Met(next)'
        BY <2>5, <2>6, <4>1 DEF Met
      <4>4. todo = S!AliasesForSession(op.key)'
        BY <2>5 DEF todo, S!AliasesForSession
      <4>5. Edits(ops[o])' /\ Moves(ops[o])'
        BY <3>6, <3>7, <4>2, <4>3, <4>4 DEF Edits, Moves, Met
      <4> QED BY <1>c, <3>3, <4>2, <4>5 DEF S!NoOp
    <3> QED BY <3>8, <3>9, <3>10
  <2>7. CASE op.does = "stop"
    <3>1. /\ links' = left /\ lost' = lost
          /\ S!Becomes(o, [op EXCEPT !.at = "closing"])
      BY <1>10, <2>0, <2>7 DEF S!Cleared
    <3> DEFINE new == [op EXCEPT !.at = "closing"]
    <3>2. new \in NameOp /\ new.at = "closing" /\ new.does = "stop" /\ new.key = op.key
      BY <2>7 DEF NameOp
    <3>3. ops'[o] = new /\ \A p \in Ops \ {o} : ops'[p] = ops[p]
      BY <1>0, <3>1, <3>2, NameBecomes
    <3> HIDE DEF new, left, todo
    <3>4. (\A p \in Ops \ {o} : ops'[p] = S!NoOp) /\ Moves(op)
      BY <1>d, <2>0, <2>1, <2>5, <3>3
    <3>5. \A a \in Aliases : Follows(a, sockets \ {op.key})'
      BY <1>b, <2>3, <2>5, <2>7, <3>1, <3>4 DEF Moves, Follows
    <3>6. Edits(ops[o])' /\ Moves(ops[o])'
      BY <3>2, <3>3, <3>5 DEF Edits, Moves
    <3> QED BY <1>c, <3>2, <3>3, <3>4, <3>6 DEF S!NoOp
  <2> QED BY <2>1, <2>6, <2>7
<1>11. ASSUME NEW o \in Ops, S!Closed(o)
      PROVE  OneCommand'
  <2>0. PICK op \in NameOp : op = ops[o]
    BY <1>a
  <2>1. op.at = "closing" /\ op.does = "stop" /\ ops[o] # S!NoOp
    BY <1>0, <1>11, <2>0 DEF S!Closed, Formed, S!NoOp
  <2>2. ~disturbed /\ UNCHANGED <<table, links, lost>> /\ sockets' = sockets \ {op.key} /\ S!Ends(o)
    BY <1>11, <2>0 DEF S!Closed
  <2>3. ops'[o] = S!NoOp /\ \A p \in Ops \ {o} : ops'[p] = ops[p]
    BY <1>0, <2>2, NameEnds
  <2>4. (\A p \in Ops \ {o} : ops'[p] = S!NoOp) /\ Moves(op)
    BY <1>d, <2>0, <2>1, <2>2, <2>3
  <2>5. \A a \in Aliases : Follows(a, sockets)'
    BY <2>1, <2>2, <2>4 DEF Moves, Follows
  <2> QED BY <1>c, <1>i, <2>3, <2>4, <2>5
<1>12. CASE S!Crash
  <2>1. (\A p \in Ops : ops'[p] = S!NoOp) /\ sockets' = {}
    BY <1>12 DEF S!Crash
  <2>2. \A a \in Aliases : Follows(a, sockets)'
    BY <2>1 DEF Follows
  <2> QED BY <1>i, <2>1, <2>2 DEF OneCommand
<1>13. CASE UNCHANGED S!vars
  BY <1>0, <1>13 DEF S!vars, OneCommand, Edits, Moves, Follows, Met, S!AliasesForSession
<1> QED
  BY <1>1, <1>2, <1>3, <1>5, <1>6, <1>7, <1>8, <1>9, <1>10, <1>11, <1>12, <1>13
  DEF S!Next, S!ChatCommand, S!LegacySocketCommand, S!AliasCommand, S!References

LEMMA NamesNextSound == NamesInv /\ [S!Next]_(S!vars) => NamesInv'
  BY NamesTyped, FilesStep, NamesStep DEF NamesInv

LEMMA NamesSteps == [Next]_vars => [S!Next]_(S!vars)
  BY DEF Next, Releasing, Supervising, Registering, Sweeping, Completing, Naming, Talking, Receiving,
         vars, names, S!vars

(* When no command is under way, and in this process none overlapped another or failed half *)
(* way, the link of an alias whose session has a socket leads there, unless it met an old    *)
(* link to a file that was gone; and never does an alias lead to one session that is there   *)
(* while it names another (setAlias, removeAlias, syncAliasSymlinks of daemon.ts).           *)
THEOREM AliasesCorrect == Spec => []AliasesFollow
<1>1. Init => NamesInv
  BY NamesInitSound DEF Init
<1>2. NamesInv /\ [Next]_vars => NamesInv'
  BY NamesNextSound, NamesSteps
<1>3. NamesInv => AliasesFollow
  <2> SUFFICES ASSUME NamesInv, \A o \in Ops : ops[o] = S!NoOp, ~disturbed, NEW a \in Aliases
               PROVE  Follows(a, sockets)
    BY DEF AliasesFollow, S!AliasesFollow, Follows
  <2> QED BY DEF NamesInv, OneAtATime, OneCommand
<1> QED BY <1>1, <1>2, <1>3, PTL DEF Spec

------------------------------------------------------------------------------
(* Turns and events.  Their components have modules of proofs of their own; what those     *)
(* name is what Platform names.                                                            *)
EP == INSTANCE EngineTurnsProofs
IP == INSTANCE InboundEventsProofs

LEMMA EngineSame ==
  /\ (E!Init => EP!Init) /\ ([E!Next]_(E!vars) => [EP!Next]_(EP!vars))
  /\ (EP!NothingOlder => E!NothingOlder) /\ (EP!TypeOK => E!TypeOK)
  BY DEF E!Abort, EP!Abort, E!AttemptFails, EP!AttemptFails, E!Clear, EP!Clear, E!Cleared,
         EP!Cleared, E!Closes, EP!Closes, E!Complete, EP!Complete, E!Connected,
         EP!Connected, E!Connects, EP!Connects, E!Conns, EP!Conns, E!Enqueues, EP!Enqueues,
         E!Fails, EP!Fails, E!GetMessage, EP!GetMessage, E!Handles, EP!Handles, E!Heard,
         EP!Heard, E!Init, EP!Init, E!MayGet, EP!MayGet, E!Message, EP!Message, E!Next,
         EP!Next, E!NoTurn, EP!NoTurn, E!NothingOlder, EP!NothingOlder, E!OperatorSends,
         EP!OperatorSends, E!Reply, EP!Reply, E!Says, EP!Says, E!Send, EP!Send, E!Settles,
         EP!Settles, E!Spawned, EP!Spawned, E!Subscribe, EP!Subscribe, E!TimesOut,
         EP!TimesOut, E!Told, EP!Told, E!TurnBegins, EP!TurnBegins, E!TurnBreaks,
         EP!TurnBreaks, E!TurnEnds, EP!TurnEnds, E!TypeOK, EP!TypeOK, E!client, EP!client,
         E!session, EP!session, E!vars, EP!vars, E!wires, EP!wires

LEMMA InboundSame ==
  /\ (I!Init => IP!Init) /\ ([I!Next]_(I!vars) => [IP!Next]_(IP!vars))
  /\ (IP!TakenOnce => I!TakenOnce) /\ (IP!TypeOK => I!TypeOK)
  BY DEF I!Accepted, IP!Accepted, I!Acts, IP!Acts, I!Artifacts, IP!Artifacts, I!Becomes,
         IP!Becomes, I!Crash, IP!Crash, I!Dispatch, IP!Dispatch, I!Ends, IP!Ends, I!Init,
         IP!Init, I!Intents, IP!Intents, I!IsTask, IP!IsTask, I!LegacyHears, IP!LegacyHears,
         I!Next, IP!Next, I!NoDelivery, IP!NoDelivery, I!NoTask, IP!NoTask, I!Policy,
         IP!Policy, I!Received, IP!Received, I!Replied, IP!Replied, I!SdkHears, IP!SdkHears,
         I!ShouldAccept, IP!ShouldAccept, I!Stacks, IP!Stacks, I!Submitted, IP!Submitted,
         I!TakenOnce, IP!TakenOnce, I!Tick, IP!Tick, I!Times, IP!Times, I!Tracked,
         IP!Tracked, I!TypeOK, IP!TypeOK, I!Unset, IP!Unset, I!Uses, IP!Uses, I!Within,
         IP!Within, I!Worked, IP!Worked, I!vars, IP!vars, I!TaskPolicies, IP!TaskPolicies

LEMMA EngineSteps == [Next]_vars => [E!Next]_(E!vars)
  BY DEF Next, Releasing, Supervising, Registering, Sweeping, Completing, Naming, Talking, Receiving,
         vars, engine, E!vars, E!client, E!wires, E!session

LEMMA InboundSteps == [Next]_vars => [I!Next]_(I!vars)
  BY DEF Next, Releasing, Supervising, Registering, Sweeping, Completing, Naming, Talking, Receiving,
         vars, inbound, I!vars

LEMMA EngineRuns == Spec => EP!Spec
<1>1. Init => EP!Init
  BY EngineSame DEF Init
<1>2. [Next]_vars => [EP!Next]_(EP!vars)
  BY EngineSteps, EngineSame
<1> QED BY <1>1, <1>2, PTL DEF Spec, EP!Spec

LEMMA InboundRuns == Spec => IP!Spec
<1>1. Init => IP!Init
  BY InboundSame DEF Init
<1>2. [Next]_vars => [IP!Next]_(IP!vars)
  BY InboundSteps, InboundSame
<1> QED BY <1>1, <1>2, PTL DEF Spec, IP!Spec

(* A completion returns no answer older than its own turn, whatever earlier attempts and   *)
(* operators left in the session (completeViaSocket of engine/session.ts).                 *)
THEOREM AnswersCorrect == Spec => []NothingOlder
<1>1. EP!Assumptions
  BY BoundAssumption DEF EP!Assumptions
<1>2. EP!Spec => []EP!NothingOlder
  BY <1>1, EP!AnswerCorrect
<1>3. EP!NothingOlder => NothingOlder
  BY EngineSame DEF NothingOlder
<1> QED BY <1>2, <1>3, EngineRuns, PTL

(* An event is acted upon once within the window, whichever stacks deliver it, and however *)
(* often (shouldAccept of event-dedupe.ts, dispatch of daemon.ts).                         *)
THEOREM EventsCorrect == Spec => []TakenOnce
<1>1. IP!Assumptions
  BY NameAssumption, BoundAssumption, SettingAssumption
  DEF IP!Assumptions, I!Unset, IP!Unset, I!Intents, IP!Intents
<1>2. IP!Spec => []IP!TakenOnce
  BY <1>1, IP!OnceCorrect
<1>3. IP!TakenOnce => TakenOnce
  BY InboundSame DEF TakenOnce
<1> QED BY <1>2, <1>3, InboundRuns, PTL

------------------------------------------------------------------------------
(* Every component of the platform keeps its types. *)
TypesOK == R!TypeOK /\ A!TypeOK /\ G!TypeOK /\ W!TypeOK /\ T!TypeOK /\ S!TypeOK /\ E!TypeOK /\ I!TypeOK

(* The tables, files, calls, sweeps and executions of all eight components have their      *)
(* types, whatever the components do side by side.                                         *)
THEOREM TypesCorrect == Spec => []TypesOK
<1>1. Spec => [](EP!TypeOK /\ IP!TypeOK)
  <2>1. EP!Spec => []EP!TypeOK
    BY BoundAssumption, EP!TypeCorrect DEF EP!Assumptions
  <2>2. IP!Assumptions
    BY NameAssumption, BoundAssumption, SettingAssumption
    DEF IP!Assumptions, I!Unset, IP!Unset, I!Intents, IP!Intents
  <2>3. IP!Spec => []IP!TypeOK
    BY <2>2, IP!TypeCorrect
  <2> QED BY <2>1, <2>3, EngineRuns, InboundRuns, PTL
<1> DEFINE Inv == ReleaseInv /\ RegistryInv /\ SweepInv /\ CompletionInv /\ AgentInv /\ NamesInv
<1>2. Init => Inv
  BY ReleaseInitSound, RegistryInitSound, SweepInitSound, CompletionInitSound, AgentInitSound, NamesInitSound
  DEF Init
<1>3. Inv /\ [Next]_vars => Inv'
  BY ReleaseNextSound, RegistryNextSound, SweepNextSound, CompletionNextSound, AgentNextSound, NamesNextSound,
     ReleaseSteps, RegistrySteps, SweepSteps, CompletionSteps, AgentSteps, NamesSteps
<1>4. Inv /\ EP!TypeOK /\ IP!TypeOK => TypesOK
  BY EngineSame, InboundSame
  DEF TypesOK, ReleaseInv, RegistryInv, SweepInv, CompletionInv, AgentInv, NamesInv, NamesSound
<1> QED BY <1>1, <1>2, <1>3, <1>4, PTL DEF Spec
=============================================================================
