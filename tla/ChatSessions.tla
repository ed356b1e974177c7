---------------------------- MODULE ChatSessions ----------------------------
(***************************************************************************)
(* The conversations of the daemon: src/control/session.ts with its queue  *)
(* (src/utils/queue.ts), and the table of sessions, their control sockets  *)
(* and the subscriptions to ends of turns in src/control/daemon.ts.        *)
(*                                                                         *)
(* Everything is kept per session key and keys share nothing, so this is   *)
(* one key: a channel, in which every message starts a thread of its own.  *)
(* A call is a message of the chat (dispatch), a message of an operator    *)
(* (the RPC and HTTP "send") or a subscription.  A session object that was *)
(* stopped, or replaced in the table, lives on until its work is done.     *)
(***************************************************************************)
EXTENDS Naturals, Sequences

CONSTANTS
  MaxCalls,    \* bound: calls
  MaxObjects,  \* bound: session objects made
  MaxStops,    \* bound: stops, by an operator or the idle sweep
  MaxAborts,   \* bound: aborts
  MaxWindows,  \* bound: how often the window of a message ends
  Fading,      \* bound: messages whose window may end
  Depth,       \* MAX_QUEUE_PER_SESSION
  Sends,       \* calls that may be a "send" of an operator as well as a message of the chat
  Subscribers  \* calls that may subscribe to the next end of a turn, and nothing else

ASSUME SessionAssumption ==
  /\ MaxCalls \in Nat /\ MaxObjects \in Nat /\ MaxStops \in Nat /\ MaxAborts \in Nat
  /\ MaxWindows \in Nat /\ Depth \in Nat \ {0}

Calls == 1..MaxCalls
Chats == Calls \ Subscribers
Objects == 1..MaxObjects
Stops == 1..MaxStops

VARIABLES
  calls,      \* each call: where it waits, its kind, its message, its session object
  seen,       \* ControlPlane.seenEventIds
  sessions,   \* the object in this.sessions, 0 when there is none
  made,       \* objects made so far
  queue,      \* SerialQueue.queue of each object: calls whose turn has not begun
  turn,       \* the turn of each object, and its call
  running,    \* AgentSession.running
  stopped,    \* AgentSession.stopped
  socket,     \* the server in this.sessionSockets, 0 when there is none
  file,       \* the server that the file of the socket leads to, 0 when there is no file
  opened,     \* servers opened so far
  closings,   \* closeSessionSocket under way, and the server each closes
  subs,       \* turnEndSubscriptions
  turns,      \* history: turns begun, per call
  windows,    \* history: how often the window of each message has ended
  raced,      \* history: the session in the table was made while a socket was closing
  mute,       \* history: objects that entered the table, but whose socket could not be opened
  stops, aborts

objectVars == <<queue, turn, running, stopped>>
tableVars == <<sessions, made>>
socketVars == <<socket, file, opened, closings, subs>>
historyVars == <<turns, windows, raced, mute>>
countVars == <<stops, aborts>>
vars == <<calls, seen, tableVars, objectVars, socketVars, historyVars, countVars>>

Pending == {"initializing", "linking", "logging", "waiting"}
Settled == {"answered", "rejected", "ignored", "duplicate", "lost", "subscribed"}

NoCall == [at |-> "none", kind |-> "chat", of |-> 0, window |-> 0, on |-> 0]
NoTurn == [at |-> "idle", call |-> 0, aborted |-> FALSE]
(* Awaits of processMessage: the engine, the check of its claims, the saving of the answer *)
(* and the reply; then, after a failure of any, the excuse with its saving.                *)
TurnsAt == {"working", "excusing"}

TypeOK ==
  /\ calls \in [Calls -> [at : Pending \cup Settled \cup {"none"},
                          kind : {"chat", "send", "subscribe"},
                          of : Calls \cup {0}, window : 0..MaxWindows, on : Objects \cup {0}]]
  /\ seen \in SUBSET Calls
  /\ sessions \in 0..made /\ made \in Objects \cup {0}
  /\ queue \in [Objects -> Seq(Calls)]
  /\ \A o \in Objects : Len(queue[o]) <= Depth
  /\ turn \in [Objects -> {NoTurn} \cup [at : TurnsAt, call : Calls, aborted : BOOLEAN]]
  /\ running \in [Objects -> BOOLEAN] /\ stopped \in [Objects -> BOOLEAN]
  /\ opened \in Nat /\ socket \in 0..opened /\ file \in 0..opened
  /\ closings \in [Stops -> [at : {"none", "unlinking", "closing"}, server : Nat]]
  /\ subs \in SUBSET Calls
  /\ turns \in [Calls -> Nat] /\ windows \in [Calls -> 0..MaxWindows]
  /\ raced \in BOOLEAN /\ mute \in SUBSET Objects
  /\ stops \in 0..MaxStops /\ aborts \in 0..MaxAborts

Init ==
  /\ calls = [c \in Calls |-> NoCall]
  /\ seen = {} /\ sessions = 0 /\ made = 0
  /\ queue = [o \in Objects |-> <<>>]
  /\ turn = [o \in Objects |-> NoTurn]
  /\ running = [o \in Objects |-> FALSE] /\ stopped = [o \in Objects |-> FALSE]
  /\ socket = 0 /\ file = 0 /\ opened = 0
  /\ closings = [s \in Stops |-> [at |-> "none", server |-> 0]]
  /\ subs = {}
  /\ turns = [c \in Calls |-> 0] /\ windows = [c \in Calls |-> 0]
  /\ raced = FALSE /\ mute = {}
  /\ stops = 0 /\ aborts = 0

(* A settled call lets its session go. *)
Settle(call, outcome) == [call EXCEPT !.at = outcome, !.on = 0]

ClosingNow == \E s \in Stops : closings[s].at # "none"
Elements(q) == {q[i] : i \in 1..Len(q)}

------------------------------------------------------------------------------
(* From the call to the session. *)

(* Sessions have tables of seen events of their own, which their window and clear empty and  *)
(* which begin with the last message in the file.  What they hold is left to chance: a       *)
(* session may know any message that an earlier call brought to a log.                      *)
MayKnow(m) ==
  \E d \in Calls : calls[d].of = m /\ calls[d].at \in {"waiting", "answered", "rejected", "lost"}

(* With a session at hand: enqueue up to its first await, or the subscription. *)
Proceeds(c, call, o) ==
  \/ /\ call.kind = "subscribe"
     /\ calls' = [calls EXCEPT ![c] = Settle(call, "subscribed")]
     /\ subs' = subs \cup {c}
  \/ /\ call.kind # "subscribe"
     /\ \/ /\ ~stopped[o]
           /\ calls' = [calls EXCEPT ![c] = [call EXCEPT !.at = "logging", !.on = o]]
        \/ /\ stopped[o] \/ MayKnow(call.of)
           /\ calls' = [calls EXCEPT ![c] = Settle(call, "ignored")]
     /\ UNCHANGED subs

(* getOrCreateSession: the session in the table, or a new one that loads its history. *)
GetOrCreateSession(c, call) ==
  \/ /\ sessions # 0
     /\ Proceeds(c, call, sessions)
     /\ UNCHANGED made
  \/ /\ sessions = 0 /\ made < MaxObjects
     /\ made' = made + 1
     /\ calls' = [calls EXCEPT ![c] = [call EXCEPT !.at = "initializing", !.on = made + 1]]
     /\ UNCHANGED subs

TouchSeenNever(m) == seen       \* Mutant: dispatch marks no message as seen
TouchSeen(m) == seen \cup {m}

(* dispatch: message m of the chat, for the first time or again.  Operators' messages have *)
(* ids of their own, which no chat delivers.                                               *)
Dispatch(c, m) ==
  LET call == [NoCall EXCEPT !.of = m, !.window = windows[m]] IN
  /\ calls[c] = NoCall /\ {c, m} \subseteq Chats /\ m <= c
  /\ m < c => calls[m].kind = "chat" /\ calls[m].of = m
  /\ \/ /\ m \in seen
        /\ calls' = [calls EXCEPT ![c] = [call EXCEPT !.at = "duplicate"]]
        /\ UNCHANGED <<seen, made, subs>>
     \/ /\ m \notin seen
        /\ seen' = TouchSeen(m)
        /\ GetOrCreateSession(c, call)
  /\ UNCHANGED <<sessions, queue, turn, running, stopped,
                 socket, file, opened, closings, historyVars, countVars>>

(* SESSION_DEDUPE_WINDOW_MS have passed since message m was marked: hasSeenEvent is false of  *)
(* it, and the next touchSeen drops it.                                                    *)
Forget(m) ==
  /\ m \in seen \cap Fading /\ windows[m] < MaxWindows
  /\ seen' = seen \ {m}
  /\ windows' = [windows EXCEPT ![m] = @ + 1]
  /\ UNCHANGED <<calls, tableVars, objectVars, socketVars, turns, raced, mute, countVars>>

(* The RPC "send" and "subscribe", and "send" over HTTP: messages with ids of their own. *)
Rpc(c, kind) ==
  /\ calls[c] = NoCall
  /\ c \in IF kind = "send" THEN Sends ELSE Subscribers
  /\ GetOrCreateSession(c, [NoCall EXCEPT !.kind = kind, !.of = c])
  /\ UNCHANGED <<seen, sessions, queue, turn, running, stopped,
                 socket, file, opened, closings, historyVars, countVars>>

(* The history is read: the session enters the table, over another one if there is one    *)
(* by now.                                                                                 *)
EntersTable(c) ==
  /\ calls[c].at = "initializing"
  /\ sessions' = calls[c].on
  /\ raced' = ClosingNow

(* ensureSessionSocket: the session gets a socket unless the table of sockets has one.      *)
(* Binding the socket is synchronous; what follows are the awaits of syncAliasSymlinks.    *)
Initialized(c) ==
  /\ EntersTable(c)
  /\ IF socket = 0
     THEN opened' = opened + 1 /\ socket' = opened + 1 /\ file' = opened + 1
     ELSE UNCHANGED <<opened, socket, file>>
  /\ calls' = [calls EXCEPT ![c].at = "linking"]
  /\ UNCHANGED <<seen, made, objectVars, closings, subs, turns, windows, mute, countVars>>

(* An old file cannot be removed, or the server cannot listen: the call fails, the session  *)
(* stays in the table, and later calls find it there.                                      *)
OpensNoSocket(c) ==
  /\ EntersTable(c)
  /\ socket = 0 /\ file' \in {0, file}
  /\ mute' = mute \cup {calls[c].on}
  /\ calls' = [calls EXCEPT ![c] = Settle(@, "rejected")]
  /\ UNCHANGED <<seen, made, objectVars, socket, opened, closings, subs, turns, windows, countVars>>

Linked(c) ==
  /\ calls[c].at = "linking"
  /\ Proceeds(c, calls[c], calls[c].on)
  /\ UNCHANGED <<seen, tableVars, objectVars, socket, file, opened, closings,
                 historyVars, countVars>>

------------------------------------------------------------------------------
(* The serial queue and the turns. *)

(* SerialQueue.process with nothing under way: the first of q begins its turn. *)
Serve(o, q) ==
  IF q = <<>>
  THEN /\ queue' = [queue EXCEPT ![o] = <<>>]
       /\ turn' = [turn EXCEPT ![o] = NoTurn]
       /\ UNCHANGED turns
  ELSE /\ queue' = [queue EXCEPT ![o] = Tail(q)]
       /\ turn' = [turn EXCEPT ![o] = [at |-> "working", call |-> Head(q), aborted |-> FALSE]]
       /\ turns' = [turns EXCEPT ![Head(q)] = @ + 1]

ServesAtOnce(o, q) == Serve(o, q)   \* Mutant: enqueue does not look whether a turn is under way
QueueOrServe(o, q) ==
  IF turn[o] = NoTurn THEN Serve(o, q)
  ELSE queue' = [queue EXCEPT ![o] = q] /\ UNCHANGED <<turn, turns>>

(* SerialQueue.enqueue makes room: a full queue drops its oldest, whose promise nobody     *)
(* settles.                                                                                *)
KeptOneMore(q) == IF Len(q) > Depth THEN Tail(q) ELSE q   \* Mutant: > instead of >=
Kept(q) == IF Len(q) >= Depth THEN Tail(q) ELSE q

(* The event is in the log: it is marked and queued. *)
Logged(c) ==
  LET o == calls[c].on
      kept == Kept(queue[o]) IN
  /\ calls[c].at = "logging"
  /\ QueueOrServe(o, Append(kept, c))
  /\ calls' = [d \in Calls |->
       IF d = c THEN [calls[d] EXCEPT !.at = "waiting"]
       ELSE IF d \in Elements(queue[o]) \ Elements(kept) THEN Settle(calls[d], "lost")
       ELSE calls[d]]
  /\ running' = [running EXCEPT ![o] = @ \/ turn[o] = NoTurn]
  /\ UNCHANGED <<seen, tableVars, stopped, socketVars,
                 windows, raced, mute, countVars>>

(* An await of the call fails: the history cannot be read and the session never enters the  *)
(* table, the links cannot be made, the log cannot be written; or the message is too long.  *)
Refused(c) ==
  /\ calls[c].at \in {"initializing", "linking", "logging"}
  /\ calls' = [calls EXCEPT ![c] = Settle(@, "rejected")]
  /\ UNCHANGED <<seen, tableVars, queue, turn, running, stopped,
                 socketVars, historyVars, countVars>>

(* The catch block, up to its reply: the turn no longer counts as running. *)
Excuses(o) ==
  /\ turn[o].at = "working"
  /\ turn' = [turn EXCEPT ![o].at = "excusing"]
  /\ UNCHANGED <<calls, seen, tableVars, queue, stopped, socketVars,
                 historyVars, countVars>>

TurnFailsStillRunning(o) == Excuses(o) /\ UNCHANGED running   \* Mutant: the catch block resets nothing
TurnFails(o) ==
  /\ Excuses(o)
  /\ running' = [running EXCEPT ![o] = FALSE]

(* The turn is over: the promise of its call settles, and the queue goes on. *)
TurnOver(o, outcome) ==
  /\ calls' = [calls EXCEPT ![turn[o].call] = Settle(@, outcome)]
  /\ Serve(o, queue[o])
  /\ running' = [running EXCEPT ![o] = queue[o] # <<>>]
  /\ UNCHANGED <<seen, tableVars, stopped, socket, file, opened, closings,
                 windows, raced, mute, countVars>>

(* emitTurnEnd: every subscriber is told, once. *)
TurnEnds(o) ==
  /\ TurnOver(o, "answered")
  /\ subs' = {}

(* The answer is sent, or held back from a sender who wants a verified pull request first; *)
(* or the excuse is sent and saved.                                                        *)
Replied(o) == turn[o].at = "working" /\ TurnEnds(o)
Excused(o) == turn[o].at = "excusing" /\ TurnEnds(o)

(* The excuse cannot be sent, or not be kept: the turn ends without its event. *)
ExcuseFails(o) ==
  /\ turn[o].at = "excusing"
  /\ TurnOver(o, "rejected")
  /\ UNCHANGED subs

------------------------------------------------------------------------------
(* Operators, and the sweep of idle sessions. *)

(* abort: the turn is signalled, the queue emptied, and nobody settles its promises. *)
DropQueuedForgotten(o) == UNCHANGED calls    \* Mutant: the dropped calls count as waiting
DropQueued(o) ==
  calls' = [d \in Calls |-> IF d \in Elements(queue[o]) THEN Settle(calls[d], "lost") ELSE calls[d]]

AbortSession(o) ==
  /\ turn' = [turn EXCEPT ![o].aborted = @ \/ turn[o].at = "working"]
  /\ queue' = [queue EXCEPT ![o] = <<>>]
  /\ DropQueued(o)
  /\ running' = [running EXCEPT ![o] = FALSE]

Abort ==
  /\ sessions # 0 /\ aborts < MaxAborts
  /\ AbortSession(sessions)
  /\ aborts' = aborts + 1
  /\ UNCHANGED <<seen, tableVars, stopped, socketVars,
                 historyVars, stops>>

CloseSessionSocket(s) ==
  IF socket = 0 THEN UNCHANGED closings
  ELSE closings' = [closings EXCEPT ![s] = [at |-> "unlinking", server |-> socket]]

(* stopSession: by an operator, or by the sweep when the session is stale; the sweep spares *)
(* a session whose queue is not empty, and looks at nothing else.                           *)
StopSession(s) ==
  /\ closings[s].at = "none" /\ stops < MaxStops
  /\ stops' = stops + 1
  /\ CloseSessionSocket(s)
  /\ IF sessions = 0
     THEN UNCHANGED <<calls, sessions, queue, turn, running, stopped>>
     ELSE /\ AbortSession(sessions)
          /\ stopped' = [stopped EXCEPT ![sessions] = TRUE]
          /\ sessions' = 0
  /\ UNCHANGED <<seen, made, socket, file, opened, subs,
                 historyVars, aborts>>

(* removeAliasesForSocket is done; closing a server removes its file. *)
Unlinked(s) ==
  /\ closings[s].at = "unlinking"
  /\ closings' = [closings EXCEPT ![s].at = "closing"]
  /\ file' = IF file = closings[s].server THEN 0 ELSE file
  /\ UNCHANGED <<calls, seen, tableVars, objectVars, socket, opened, subs, historyVars, countVars>>

(* The connections of the server have ended.  The tables are by key: what they have by now *)
(* may belong to another session.                                                          *)
ForgetSocketLeft == UNCHANGED socket    \* Mutant: the entry in the table of sockets stays
ForgetSocket == socket' = 0

Closed(s) ==
  /\ closings[s].at = "closing"
  /\ closings' = [closings EXCEPT ![s] = [at |-> "none", server |-> 0]]
  /\ file' = 0 /\ ForgetSocket
  /\ subs' = {}
  /\ UNCHANGED <<calls, seen, tableVars, objectVars, opened, historyVars, countVars>>

HangUp(c) ==
  /\ c \in subs
  /\ subs' = subs \ {c}
  /\ UNCHANGED <<calls, seen, tableVars, objectVars, socket, file, opened, closings, historyVars, countVars>>

------------------------------------------------------------------------------
CallSteps(c) == Initialized(c) \/ OpensNoSocket(c) \/ Linked(c) \/ Logged(c) \/ Refused(c)

TurnSteps(o) ==
  Replied(o) \/ TurnFails(o) \/ Excused(o) \/ ExcuseFails(o)

Next ==
  \/ \E c \in Calls :
       \/ \E m \in Calls : Dispatch(c, m)
       \/ \E kind \in {"send", "subscribe"} : Rpc(c, kind)
       \/ Forget(c) \/ CallSteps(c) \/ HangUp(c)
  \/ \E o \in Objects : TurnSteps(o)
  \/ Abort
  \/ \E s \in Stops : StopSession(s) \/ Unlinked(s) \/ Closed(s)

Spec == Init /\ [][Next]_vars

(* Files, engines and transports answer, well or badly. *)
Fairness ==
  /\ \A c \in Calls : WF_vars(CallSteps(c))
  /\ \A o \in Objects : WF_vars(TurnSteps(o))

FairSpec == Spec /\ Fairness
------------------------------------------------------------------------------
(* Properties. *)

(* A call that waits for its turn is in the queue of its session, once, or has the turn:   *)
(* whatever overlaps, no promise is left behind that is neither served nor dropped for a   *)
(* reason (queue.ts enqueue, process, clear).                                              *)
WaitersAreServed ==
  \A c \in Calls : calls[c].at = "waiting" =>
    LET o == calls[c].on
        places == {i \in 1..Len(queue[o]) : queue[o][i] = c} IN
    \/ turn[o].call = c /\ places = {}
    \/ turn[o].call # c /\ turn[o] # NoTurn /\ \E i \in places : places = {i}

(* A call has one turn at most, and two turns are never spent on one message unless its     *)
(* window ended between the two deliveries, whichever sessions come and go: within the       *)
(* window a message that is delivered again, by a retry of the platform or while its first   *)
(* delivery still waits, is worked on once (daemon.ts dispatch, hasSeenEvent, touchSeen;     *)
(* queue.ts).                                                                              *)
OneTurnPerWindow ==
  /\ \A c \in Calls : turns[c] <= 1
  /\ \A c, d \in Calls :
       turns[c] > 0 /\ turns[d] > 0 /\ calls[c].of = calls[d].of /\ calls[c].window = calls[d].window
         => c = d

(* What isIdle and clear look at tells the truth of a turn that was not aborted: while the *)
(* engine works on it, or its answer is kept or sent, the session counts as running, and a *)
(* turn in its catch block never does (session.ts running).                                *)
BusyIsSeen ==
  \A o \in Objects :
    running[o] <=> (turn[o].at = "working" /\ ~turn[o].aborted)

(* When no socket is being closed, its file is that of the server in the table of sockets,  *)
(* and the session in the table has a socket.  Left out are a session that was made while    *)
(* the socket of its predecessor was closing, which loses its own socket with that, and one  *)
(* whose socket could not be opened: it stays in the table, is used again by later calls,    *)
(* and never gets a socket (daemon.ts getOrCreateSession, ensureSessionSocket,               *)
(* closeSessionSocket).                                                                    *)
SessionIsReachable ==
  ~ClosingNow /\ ~raced => file = socket /\ (sessions \notin {0} \cup mute => socket # 0)

(* No call waits for ever: all settle, or were dropped by an overflow, an abort or a stop. *)
CallsSettle ==
  (\E c \in Calls : calls[c].at \in Pending) ~> (\A c \in Calls : calls[c].at \notin Pending)
=============================================================================
