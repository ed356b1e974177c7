--------------------------- MODULE SessionAliases ---------------------------
(***************************************************************************)
(* Names for sessions: the aliases of src/control/daemon.ts and            *)
(* src/control/aliases.ts, their file (src/control/store.ts), and the      *)
(* symbolic links that lead from an alias to the control socket of the     *)
(* session it names, kept up while sessions come and go.                   *)
(*                                                                         *)
(* Commands come from chats, from the legacy control socket and from the   *)
(* sockets of sessions, and may overlap.  A session that gets its socket   *)
(* removes the links to it and makes those of its aliases, except where an *)
(* old link leads to a file that is gone: existsSync, which follows links, *)
(* does not see it, and symlink gives way to it.                           *)
(***************************************************************************)
EXTENDS Naturals

CONSTANTS
  Keys,     \* keys of sessions that messages are routed to
  Aliases,  \* names that can be aliases
  Ops,      \* bound: commands under way at a time
  None      \* not set

VARIABLES
  table,    \* ControlPlane.aliases: the session that each alias names
  file,     \* aliases.json, as a restart would read it
  links,    \* the session whose socket each link leads to, by path
  sessions, sockets,  \* the tables of sessions and of sockets
  files,    \* sessions whose socket has its file, left by a process that was killed or not
  ops,      \* each command: what it does, to which alias and session, where it waits
  lost,     \* history: aliases whose link could not be made, for one that leads nowhere
  disturbed \* history: in this process, commands overlapped or failed half way

vars == <<table, file, links, sessions, sockets, files, ops, lost, disturbed>>

(* What is not an alias is the key of a session, whatever it looks like. *)
References == Keys \cup Aliases
NoAliases == [a \in Aliases |-> None]
NoOp == [does |-> "none", alias |-> None, key |-> None, at |-> "none", syncs |-> 0, todo |-> {}]

TypeOK ==
  /\ table \in [Aliases -> References \cup {None}] /\ file \in [Aliases -> References \cup {None}]
  /\ links \in [Aliases -> References \cup {None}]
  /\ sessions \in SUBSET References /\ sockets \in SUBSET References /\ files \in SUBSET References
  /\ ops \in [Ops -> [does : {"none", "set", "unset", "open", "stop"},
                      alias : Aliases \cup {None}, key : References \cup {None},
                      at : {"none", "saving", "unlinking", "linking", "initializing", "clearing", "closing"},
                      syncs : 0..2, todo : SUBSET Aliases]]
  /\ lost \in SUBSET Aliases /\ disturbed \in BOOLEAN

Init ==
  /\ table = NoAliases /\ file = NoAliases /\ links = NoAliases
  /\ sessions = {} /\ sockets = {} /\ files = {}
  /\ ops = [o \in Ops |-> NoOp]
  /\ lost = {} /\ disturbed = FALSE

(* resolveSessionReference, resolveTargetSession. *)
Resolve(reference) ==
  IF reference \in Aliases /\ table[reference] # None THEN table[reference] ELSE reference

AliasesForSession(key) == {a \in Aliases : table[a] = key}

Begins(o, op) ==
  /\ ops[o] = NoOp
  /\ ops' = [ops EXCEPT ![o] = op]
  /\ disturbed' = (disturbed \/ \E p \in Ops : ops[p] # NoOp)

Becomes(o, op) == ops' = [ops EXCEPT ![o] = op]
Ends(o) == Becomes(o, NoOp)

------------------------------------------------------------------------------
(* The commands. *)

SetAlias(o, alias, reference) ==
  LET key == Resolve(reference) IN
  /\ table' = [table EXCEPT ![alias] = key]
  /\ Begins(o, [NoOp EXCEPT !.does = "set", !.alias = alias, !.key = key, !.at = "saving"])
  /\ UNCHANGED <<file, links, sessions, sockets, files, lost>>

RemoveAlias(o, alias) ==
  /\ table[alias] # None
  /\ table' = [table EXCEPT ![alias] = None]
  /\ Begins(o, [NoOp EXCEPT !.does = "unset", !.alias = alias, !.at = "saving"])
  /\ UNCHANGED <<file, links, sessions, sockets, files, lost>>

(* getOrCreateSession of a session that there is not. *)
GetOrCreateSession(o, reference) ==
  LET key == Resolve(reference) IN
  /\ key \notin sessions
  /\ Begins(o, [NoOp EXCEPT !.does = "open", !.key = key, !.at = "initializing"])
  /\ UNCHANGED <<table, file, links, sessions, sockets, files, lost>>

StopSession(o, reference) ==
  LET key == Resolve(reference) IN
  /\ key \in sockets
  /\ sessions' = sessions \ {key}
  /\ Begins(o, [NoOp EXCEPT !.does = "stop", !.key = key, !.at = "clearing"])
  /\ UNCHANGED <<table, file, links, sockets, files, lost>>

(* Who gives them.  A chat stops sessions and edits aliases, and a message of it opens the *)
(* session of its own route; the sockets do all of it by reference.                        *)
AliasCommand(o, reference) ==
  \E alias \in Aliases : SetAlias(o, alias, reference) \/ RemoveAlias(o, alias)

ChatCommand(o) ==
  \/ \E reference \in References : StopSession(o, reference) \/ AliasCommand(o, reference)
  \/ \E key \in Keys : GetOrCreateSession(o, key)

LegacySocketCommand(o) ==
  \E reference \in References :
    StopSession(o, reference) \/ AliasCommand(o, reference) \/ GetOrCreateSession(o, reference)

------------------------------------------------------------------------------
(* Their steps. *)

(* createAliasSymlink for the next of todo: a link of its name that leads to a file is     *)
(* removed at once, and the new one made a moment later.                                   *)
Links(o, op, todo, left) ==
  IF todo # {}
  THEN \E alias \in todo :
         /\ links' = IF left[alias] \in files THEN [left EXCEPT ![alias] = None] ELSE left
         /\ lost' = IF links'[alias] = None THEN lost \ {alias} ELSE lost \cup {alias}
         /\ Becomes(o, [op EXCEPT !.at = "linking", !.alias = alias, !.todo = todo \ {alias}])
  ELSE /\ links' = left /\ UNCHANGED lost
       /\ IF op.syncs > 1
          THEN Becomes(o, [op EXCEPT !.at = "clearing", !.syncs = @ - 1])
          ELSE Ends(o)

(* writeAliasMap is done.  The link of an alias that is no more goes, if it leads to a     *)
(* file; one that is set gets its link if its session has a socket.                        *)
Saved(o) ==
  LET op == ops[o] IN
  /\ op.at = "saving"
  /\ file' = table
  /\ IF op.does = "set" /\ op.key \in sockets
     THEN Links(o, op, {op.alias}, links)
     ELSE /\ IF op.does = "unset" /\ links[op.alias] \in files
             THEN Becomes(o, [op EXCEPT !.at = "unlinking"])
             ELSE Ends(o)
          /\ UNCHANGED <<links, lost>>
  /\ UNCHANGED <<table, sessions, sockets, files, disturbed>>

(* It fails, and the file is as it was or cannot be parsed. *)
SaveFails(o) ==
  /\ ops[o].at = "saving"
  /\ file' \in {file, NoAliases}
  /\ Ends(o) /\ disturbed' = TRUE
  /\ UNCHANGED <<table, links, sessions, sockets, files, lost>>

UnlinkedNothing(o) == UNCHANGED links   \* Mutant: the link of a removed alias stays
UnlinkAlias(o) == links' = [links EXCEPT ![ops[o].alias] = None]

Unlinked(o) ==
  /\ ops[o].at = "unlinking"
  /\ UnlinkAlias(o) /\ Ends(o)
  /\ UNCHANGED <<table, file, sessions, sockets, files, lost, disturbed>>

(* The link is made, unless somebody else has made one. *)
Linked(o) ==
  LET op == ops[o] IN
  /\ op.at = "linking"
  /\ Links(o, op, op.todo, IF links[op.alias] = None THEN [links EXCEPT ![op.alias] = op.key] ELSE links)
  /\ UNCHANGED <<table, file, sessions, sockets, files, disturbed>>

(* A link cannot be made, a history not be read, or a socket not be opened: its old file   *)
(* may be gone by then, and its session is in the table.                                   *)
LinkFails(o) ==
  /\ ops[o].at \in {"linking", "initializing"}
  /\ Ends(o) /\ disturbed' = TRUE
  /\ IF ops[o].at = "initializing" /\ ops[o].key \notin sockets
     THEN /\ sessions' \in {sessions, sessions \cup {ops[o].key}}
          /\ files' \in {files, files \ {ops[o].key}}
     ELSE UNCHANGED <<sessions, files>>
  /\ UNCHANGED <<table, file, links, sockets, lost>>

(* The session has its history: it enters the table, gets a socket if its key has none,    *)
(* and its links are brought up to date, after a new socket twice.                         *)
Initialized(o) ==
  LET op == ops[o] IN
  /\ op.at = "initializing"
  /\ sessions' = sessions \cup {op.key}
  /\ sockets' = sockets \cup {op.key}
  /\ files' = IF op.key \in sockets THEN files ELSE files \cup {op.key}
  /\ Becomes(o, [op EXCEPT !.at = "clearing", !.syncs = IF op.key \in sockets THEN 1 ELSE 2])
  /\ UNCHANGED <<table, file, links, lost, disturbed>>

(* removeAliasesForSocket is done, of a session that opens or stops; closing a server      *)
(* removes its file.                                                                       *)
Cleared(o) ==
  LET op == ops[o]
      left == [a \in Aliases |-> IF links[a] = op.key THEN None ELSE links[a]] IN
  /\ op.at = "clearing"
  /\ IF op.does = "open"
     THEN Links(o, op, AliasesForSession(op.key), left) /\ UNCHANGED files
     ELSE /\ links' = left /\ files' = files \ {op.key}
          /\ Becomes(o, [op EXCEPT !.at = "closing"]) /\ UNCHANGED lost
  /\ UNCHANGED <<table, file, sessions, sockets, disturbed>>

(* The connections have ended. *)
Closed(o) ==
  /\ ops[o].at = "closing"
  /\ sockets' = sockets \ {ops[o].key} /\ files' = files \ {ops[o].key}
  /\ Ends(o)
  /\ UNCHANGED <<table, file, links, sessions, lost, disturbed>>

(* The process ends; what is saved then may be lost with the file.  The next one starts    *)
(* with the aliases in the file, and with the links and the sockets' files that are there.  *)
Crash ==
  /\ \E now \in {file} \cup (IF \E o \in Ops : ops[o].at = "saving" THEN {NoAliases} ELSE {}) :
       table' = now /\ file' = now
  /\ sessions' = {} /\ sockets' = {}
  /\ ops' = [o \in Ops |-> NoOp]
  /\ lost' = {} /\ disturbed' = FALSE
  /\ UNCHANGED <<links, files>>

Next ==
  \/ \E o \in Ops :
       \/ ChatCommand(o) \/ LegacySocketCommand(o)
       \/ Saved(o) \/ SaveFails(o) \/ Unlinked(o) \/ Linked(o) \/ LinkFails(o)
       \/ Initialized(o) \/ Cleared(o) \/ Closed(o)
  \/ Crash

Spec == Init /\ [][Next]_vars
------------------------------------------------------------------------------
(* When no command is under way, and in this process none overlapped another or failed half *)
(* way: the link of an alias whose session has a socket leads there, also when the alias was *)
(* set before the session was there or before a crash, or the alias is one that met an old   *)
(* link to a file that was gone.  And a link to a session that has a socket is that of an    *)
(* alias which names it, or names a session without one, whose opening will take the link:   *)
(* never does an alias lead to one session that is there while it names none or another one  *)
(* that is there (setAlias, removeAlias, syncAliasSymlinks).                                *)
AliasesFollow ==
  (\A o \in Ops : ops[o] = NoOp) /\ ~disturbed =>
    \A a \in Aliases :
      /\ table[a] \in sockets => links[a] = table[a] \/ a \in lost
      /\ links[a] \in sockets => table[a] = links[a] \/ table[a] \notin sockets \cup {None}
=============================================================================
