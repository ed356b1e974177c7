---------------------------- MODULE RepoRegistry ----------------------------
(***************************************************************************)
(* The repositories that tasks may work in:                                *)
(* src/orchestration/repo-registry.ts.                                     *)
(*                                                                         *)
(* The table is changed at once and saved after: the text goes to one      *)
(* temporary file, which is then renamed.  Calls arrive over HTTP, their   *)
(* saves may overlap, and all use the same temporary file; a save that has *)
(* the file open goes on writing to it when another one has renamed it.    *)
(* A text that cannot be parsed reads as an empty registry.                *)
(***************************************************************************)
EXTENDS Naturals

CONSTANTS
  Ids,     \* ids of repositories, numbers in the order of list()
  Calls    \* bound: calls under way at a time

VARIABLES
  repos,   \* RepoRegistry.repos: what each id is, "absent", "plain" or "default"
  file,    \* registry.json, as a restart would read it
  tmp,     \* registry.json.tmp, in the same way
  exists,  \* the temporary file exists
  saves,   \* each save: where it waits, the table it writes, the file it has open
  acked,   \* history: the table as the last save that was not overlapped left it
  tangled  \* history: two saves overlapped, or the file could not be read

vars == <<repos, file, tmp, exists, saves, acked, tangled>>

Table == [Ids -> {"absent", "plain", "default"}]
Empty == [i \in Ids |-> "absent"]
Torn == Empty
NoSave == [at |-> "none", table |-> Empty, on |-> "gone"]

TypeOK ==
  /\ repos \in Table /\ file \in Table /\ tmp \in Table /\ acked \in Table
  /\ exists \in BOOLEAN /\ tangled \in BOOLEAN
  /\ saves \in [Calls -> [at : {"none", "writing", "renaming"}, table : Table,
                          on : {"tmp", "file", "gone"}]]

Init ==
  /\ repos = Empty /\ file = Empty /\ tmp = Empty /\ acked = Empty
  /\ exists = FALSE /\ tangled = FALSE
  /\ saves = [c \in Calls |-> NoSave]

Known(table) == {i \in Ids : table[i] # "absent"}
Defaults(table) == {i \in Ids : table[i] = "default"}

------------------------------------------------------------------------------
(* persist, up to its first await: the temporary file is opened, which empties it.  A file *)
(* that another save has open is the same file.                                            *)
PersistInPlace(c, table) ==       \* Mutant: no temporary file
  /\ saves' = [saves EXCEPT ![c] = [at |-> "writing", table |-> table, on |-> "file"]]
  /\ file' = Torn
  /\ tangled' = (tangled \/ \E d \in Calls : saves[d].at # "none")
  /\ UNCHANGED <<tmp, exists>>
Persist(c, table) ==
  /\ saves' = [saves EXCEPT ![c] = [at |-> "writing", table |-> table, on |-> "tmp"]]
  /\ tmp' = Torn /\ exists' = TRUE
  /\ tangled' = (tangled \/ \E d \in Calls : saves[d].at # "none")
  /\ UNCHANGED file

Changes(c, table) ==
  /\ repos' = table
  /\ Persist(c, table)
  /\ UNCHANGED acked

(* register: isDefault may be given or not; a default one takes the mark from the others.  *)
Marked(i, isDefault) ==
  \/ isDefault = "yes"
  \/ isDefault = "unset" /\ (repos[i] = "default" \/ Known(repos) = {})

Register(c, i, isDefault) ==
  /\ saves[c].at = "none"
  /\ Changes(c, [j \in Ids |->
       IF j = i THEN IF Marked(i, isDefault) THEN "default" ELSE "plain"
       ELSE IF isDefault = "yes" /\ repos[j] = "default" THEN "plain"
       ELSE repos[j]])

(* remove: the first of those that stay becomes the default when none is. *)
Remove(c, i) ==
  LET left == [repos EXCEPT ![i] = "absent"]
      first(j) == j \in Known(left) /\ \A k \in Known(left) : j <= k IN
  /\ saves[c].at = "none" /\ repos[i] # "absent"
  /\ Changes(c, [j \in Ids |-> IF Defaults(left) = {} /\ first(j) THEN "default" ELSE left[j]])

(* The text is written to the file that was opened, by whatever name it goes now; over the *)
(* text of another save that has it open it may leave a mixture.                           *)
Written(c) ==
  /\ saves[c].at = "writing"
  /\ \E text \in {saves[c].table} \cup
                 (IF \E d \in Calls \ {c} : saves[d].at # "none" THEN {Torn} ELSE {}) :
       /\ tmp' = IF saves[c].on = "tmp" THEN text ELSE tmp
       /\ file' = IF saves[c].on = "file" THEN text ELSE file
  /\ saves' = [saves EXCEPT ![c].at = "renaming"]
  /\ UNCHANGED <<repos, exists, acked, tangled>>

(* The rename.  Saves that have the file open keep it open under its new name. *)
Renamed(c) ==
  /\ saves[c].at = "renaming" /\ exists
  /\ file' = tmp /\ exists' = FALSE
  /\ saves' = [d \in Calls |->
       IF d = c THEN NoSave
       ELSE [saves[d] EXCEPT !.on = CASE @ = "tmp" -> "file" [] OTHER -> "gone"]]
  /\ acked' = saves[c].table
  /\ UNCHANGED <<repos, tmp, tangled>>

(* The write or the rename fails; the rename of a file that is gone does. *)
PersistFails(c) ==
  /\ saves[c].at # "none"
  /\ saves' = [saves EXCEPT ![c] = NoSave]
  /\ UNCHANGED <<repos, file, tmp, exists, acked, tangled>>

(* The process ends, and the next one reads the file.  initialize takes any error of the   *)
(* read for a registry that is not there yet, and saves an empty one in its place; its     *)
(* save is one step, for no call is served before it is done.                              *)
Restart ==
  /\ saves' = [c \in Calls |-> NoSave]
  /\ \/ repos' = file /\ acked' = file
        /\ UNCHANGED <<file, tmp, exists, tangled>>
     \/ repos' = Empty /\ acked' = Empty /\ file' = Empty
        /\ exists' = FALSE /\ tangled' = TRUE
        /\ UNCHANGED tmp

Next ==
  \/ \E c \in Calls :
       \/ \E i \in Ids :
            \/ \E isDefault \in {"yes", "no", "unset"} : Register(c, i, isDefault)
            \/ Remove(c, i)
       \/ Written(c) \/ Renamed(c) \/ PersistFails(c)
  \/ Restart

Spec == Init /\ [][Next]_vars
------------------------------------------------------------------------------
(* Whenever the process ends, the next one finds the registry as the last save that was    *)
(* done left it, never an empty or a mixed one; unless two saves overlapped (persist), or  *)
(* the file could not be read, when initialize writes an empty one over it.                *)
RegistrySurvives == ~tangled => file = acked

(* At most one repository is the default, in the table and after a restart, also when      *)
(* saves overlapped, failed or were lost (register, remove, initialize).                   *)
OneDefaultAtMost ==
  \A i, j \in Ids : (repos[i] = "default" /\ repos[j] = "default") \/ (file[i] = "default" /\ file[j] = "default") => i = j
=============================================================================
