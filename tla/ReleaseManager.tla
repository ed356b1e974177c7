--------------------------- MODULE ReleaseManager ---------------------------
(***************************************************************************)
(* The releases of the bot on disk: src/ops/release-manager.ts.            *)
(*                                                                         *)
(* A release is a directory; two symbolic links name the one that runs and *)
(* the one to go back to.  Calls arrive over HTTP and may overlap; each    *)
(* step of a call is what happens between two of its awaits.  The files of *)
(* a release are one of three contents: absent, whole, or damaged by       *)
(* someone else.                                                           *)
(***************************************************************************)
EXTENDS Naturals

CONSTANTS
  Releases,  \* names of releases: revisions or fingerprints of sources
  Calls,     \* bound: calls under way at a time
  Mode,      \* STARTUP_INTEGRITY_MODE: "off", "warn" or "strict"
  NoRelease  \* a link that does not exist

VARIABLES
  tree,      \* what is in the directory of each release
  current, previous,  \* the two links
  calls,     \* each call: what it does, to which release, where it waits and the link it has read
  up,        \* the daemon runs
  disturbed  \* history: calls overlapped or broke off between their links, and none has repaired it

vars == <<tree, current, previous, calls, up, disturbed>>

NoCall == [op |-> "none", of |-> NoRelease, at |-> "none", read |-> NoRelease]
Running == {"staging", "verifying", "first", "second"}

Links == Releases \cup {NoRelease}

TypeOK ==
  /\ tree \in [Releases -> {"absent", "whole", "damaged"}]
  /\ current \in Links /\ previous \in Links
  /\ calls \in [Calls -> [op : {"none", "snapshot", "activate", "back"}, of : Links,
                          at : Running \cup {"none"}, read : Links]]
  /\ up \in BOOLEAN /\ disturbed \in BOOLEAN

Init ==
  /\ tree = [r \in Releases |-> "absent"]
  /\ current = NoRelease /\ previous = NoRelease
  /\ calls = [c \in Calls |-> NoCall]
  /\ up = TRUE /\ disturbed = FALSE

Alone(c) == \A d \in Calls \ {c} : calls[d].at \notin Running
Ends(c) == calls' = [calls EXCEPT ![c] = NoCall]
Moves(c, at) == calls' = [calls EXCEPT ![c].at = at]

Begins(c, op, r, at) ==
  /\ up /\ calls[c] = NoCall
  /\ calls' = [calls EXCEPT ![c] = [op |-> op, of |-> r, at |-> at, read |-> NoRelease]]
  /\ disturbed' = (disturbed \/ ~Alone(c))

(* createSnapshot: nothing to do when the release is there; else the sources are copied to *)
(* a directory of their own.                                                               *)
Snapshot(c, r) ==
  /\ tree[r] = "absent"
  /\ Begins(c, "snapshot", r, "staging")
  /\ UNCHANGED <<tree, current, previous, up>>

(* The copy, its manifest and its description are written: the directory gets its name,    *)
(* unless another snapshot was faster.                                                     *)
InstalledEarly(c) ==      \* Mutant: the copy is made in place
  tree' = [tree EXCEPT ![calls[c].of] = "damaged"]
Installed(c) ==
  tree' = [tree EXCEPT ![calls[c].of] = IF @ = "absent" THEN "whole" ELSE @]

Staged(c) ==
  /\ calls[c].at = "staging"
  /\ Installed(c) /\ Ends(c)
  /\ UNCHANGED <<current, previous, up, disturbed>>

(* activate of r, also as rollback to r. *)
Activate(c, r) ==
  /\ Begins(c, "activate", r, "verifying")
  /\ UNCHANGED <<tree, current, previous, up>>

(* rollback to the previous release. *)
Rollback(c) ==
  /\ previous # NoRelease
  /\ Begins(c, "back", previous, "verifying")
  /\ UNCHANGED <<tree, current, previous, up>>

(* verifyRelease agrees, and the link to the current release is read. *)
PassesUnread(r) == tree[r] # "absent"     \* Mutant: the files are not compared with the manifest
Passes(r) == tree[r] = "whole"

Verified(c) ==
  /\ calls[c].at = "verifying" /\ Passes(calls[c].of)
  /\ calls' = [calls EXCEPT ![c].at = "first", ![c].read = current]
  /\ UNCHANGED <<tree, current, previous, up, disturbed>>

(* Anything before the first link fails: the release is absent or damaged, the disk full. *)
FailsBefore(c) ==
  /\ calls[c].at \in {"staging", "verifying", "first"}
  /\ Ends(c)
  /\ UNCHANGED <<tree, current, previous, up, disturbed>>

(* activate: the previous link, then the current one.  Once the two are moved by one call  *)
(* alone they are in order again.                                                          *)
ActivateFirst(c) ==
  /\ calls[c].at = "first" /\ calls[c].op = "activate"
  /\ IF calls[c].read = calls[c].of
     THEN Ends(c) /\ UNCHANGED previous
     ELSE /\ previous' = IF calls[c].read # NoRelease THEN calls[c].read ELSE previous
          /\ Moves(c, "second")
  /\ UNCHANGED <<tree, current, up, disturbed>>

ActivateSecond(c) ==
  /\ calls[c].at = "second" /\ calls[c].op = "activate"
  /\ current' = calls[c].of
  /\ disturbed' = (disturbed /\ ~(Alone(c) /\ calls[c].of # previous))
  /\ Ends(c)
  /\ UNCHANGED <<tree, previous, up>>

(* rollback: the current link, then the previous one. *)
BackFirst(c) ==
  /\ calls[c].at = "first" /\ calls[c].op = "back"
  /\ current' = calls[c].of
  /\ Moves(c, "second")
  /\ UNCHANGED <<tree, previous, up, disturbed>>

BackSecondKept(c) == previous           \* Mutant: the release left behind is not remembered
BackSecondLink(c) ==
  IF calls[c].read \notin {NoRelease, calls[c].of} THEN calls[c].read ELSE previous

BackSecond(c) ==
  /\ calls[c].at = "second" /\ calls[c].op = "back"
  /\ previous' = BackSecondLink(c)
  /\ Ends(c)
  /\ UNCHANGED <<tree, current, up, disturbed>>

(* swapSymlink fails for the second link. *)
FailsBetween(c) ==
  /\ calls[c].at = "second"
  /\ disturbed' = TRUE
  /\ Ends(c)
  /\ UNCHANGED <<tree, current, previous, up>>

(* Someone changes the files of a release. *)
Damage(r) ==
  /\ tree[r] = "whole"
  /\ tree' = [tree EXCEPT ![r] = "damaged"]
  /\ UNCHANGED <<current, previous, calls, up, disturbed>>

Crash ==
  /\ up /\ up' = FALSE
  /\ calls' = [c \in Calls |-> NoCall]
  /\ disturbed' = (disturbed \/ \E c \in Calls : calls[c].at = "second")
  /\ UNCHANGED <<tree, current, previous>>

(* integrityCheck, at startup: in the strict mode what it finds keeps the daemon from      *)
(* starting.  A manifest that is not JSON throws in the warn mode too (verifyRelease): the *)
(* daemon that does not start then is one that Start leaves down.                          *)
IntegrityOk ==
  Mode = "strict" => current # NoRelease /\ tree[current] = "whole"

Start ==
  /\ ~up /\ IntegrityOk
  /\ up' = TRUE
  /\ UNCHANGED <<tree, current, previous, calls, disturbed>>

Next ==
  \/ \E c \in Calls :
       \/ \E r \in Releases : Snapshot(c, r) \/ Activate(c, r)
       \/ Rollback(c)
       \/ Staged(c) \/ Verified(c) \/ FailsBefore(c) \/ FailsBetween(c)
       \/ ActivateFirst(c) \/ ActivateSecond(c) \/ BackFirst(c) \/ BackSecond(c)
  \/ \E r \in Releases : Damage(r)
  \/ Crash \/ Start

Spec == Init /\ [][Next]_vars
------------------------------------------------------------------------------
(* Both links name releases that are installed, and, unless calls overlapped or broke off  *)
(* between the two links, a release that runs has another one to go back to: the one that  *)
(* ran before it (activate, rollback).                                                     *)
RollbackLeadsElsewhere ==
  /\ \A r \in {current, previous} \ {NoRelease} : tree[r] # "absent"
  /\ (\A c \in Calls : calls[c].at # "second") /\ ~disturbed /\ current # NoRelease =>
       current # previous
=============================================================================
