----------------------------- MODULE EngineTurns -----------------------------
(***************************************************************************)
(* A task's turn by way of a session: src/engine/session.ts, which the     *)
(* orchestrator calls, speaks to the control socket                        *)
(* (src/runtime/socket.ts, handleSessionRpcCommand of                      *)
(* src/control/daemon.ts); the session there takes one turn after the      *)
(* other, each a process of src/engine/process.ts.                         *)
(*                                                                         *)
(* The completions of one session, one after the other, each with its      *)
(* attempts; an attempt has a connection.  What an attempt left behind,    *)
(* its turn, waiting or taken, and the commands on their way, stays.       *)
(* Operators send to the session too, clear it and abort its turns.        *)
(* The server handles each chunk that it reads by itself: the commands of  *)
(* a connection overtake one another while they wait for the session.      *)
(***************************************************************************)
EXTENDS Naturals, Sequences

CONSTANTS
  MaxAttempts,   \* maxAttempts
  MaxConns,      \* bound: connections in all
  MaxTurns       \* bound: turns in all

VARIABLES
  attempt,    \* of the completion under way, 0 when there is none
  conns,      \* connections so far; the last is the client's
  at,         \* where completeViaSocket waits
  heard,      \* the promises of the attempt that are settled
  commands,   \* on their way or not yet through, by connection
  replies,    \* on their way, by connection
  serving,    \* the turn whose end the server awaits for a connection, 0 if none
  subscribed, \* turnEndSubscriptions of the session
  turns,      \* turns enqueued so far, numbered in that order
  waiting,    \* SerialQueue.queue: turns
  turn,       \* the turn being taken, its stage, and whether abort was called since it began
  last,       \* the turn that the last assistant message of the session answers, 0 if none
  clearing,   \* clear waits for the files
  sent,       \* history: the turn that each connection's send became, 0 before
  answer      \* history: the turn whose answer the last completion returned, 0 if none

client == <<attempt, conns, at, heard, answer>>
wires == <<commands, replies>>
session == <<turns, waiting, turn, last, clearing>>
vars == <<client, wires, serving, subscribed, session, sent>>

Conns == 1..MaxConns
NoTurn == [n |-> 0, at |-> "none", aborted |-> FALSE]

TypeOK ==
  /\ attempt \in 0..MaxAttempts /\ conns \in 0..MaxConns
  /\ at \in {"idle", "connecting", "sending", "getting"}
  /\ heard \in SUBSET {"subscribed", "sent", "failed", "turn_end"}
  /\ commands \in [Conns -> SUBSET {"subscribe", "send", "get_message"}]
  /\ replies \in [Conns -> Seq([type : {"subscribed", "sent", "failed", "turn_end", "message"},
                                turn : 0..MaxTurns])]
  /\ serving \in [Conns -> 0..MaxTurns] /\ subscribed \in SUBSET Conns
  /\ turns \in 0..MaxTurns /\ waiting \in Seq(1..MaxTurns)
  /\ turn \in [n : 0..MaxTurns, at : {"none", "preparing", "running", "killed"}, aborted : BOOLEAN]
  /\ last \in 0..MaxTurns /\ clearing \in BOOLEAN
  /\ sent \in [Conns -> 0..MaxTurns] /\ answer \in 0..MaxTurns

Init ==
  /\ attempt = 0 /\ conns = 0 /\ at = "idle" /\ heard = {}
  /\ commands = [c \in Conns |-> {}] /\ replies = [c \in Conns |-> <<>>]
  /\ serving = [c \in Conns |-> 0] /\ subscribed = {}
  /\ turns = 0 /\ waiting = <<>> /\ turn = NoTurn /\ last = 0 /\ clearing = FALSE
  /\ sent = [c \in Conns |-> 0] /\ answer = 0

Reply(type, n) == [type |-> type, turn |-> n]
Says(c, type, n) == replies' = [replies EXCEPT ![c] = Append(@, Reply(type, n))]

------------------------------------------------------------------------------
(* The client: SessionEngine. *)

Connects(n) ==
  /\ conns < MaxConns
  /\ attempt' = n /\ conns' = conns + 1
  /\ at' = "connecting" /\ heard' = {}

(* finish: nothing of this connection is heard any more.  The server sees it close. *)
Closes == subscribed' = subscribed \ {conns}

Complete ==
  /\ attempt = 0
  /\ Connects(1) /\ answer' = 0
  /\ UNCHANGED <<wires, serving, subscribed, session, sent>>

(* The socket is connected; both commands are written at once. *)
Connected ==
  /\ at = "connecting"
  /\ at' = "sending"
  /\ commands' = [commands EXCEPT ![conns] = {"subscribe", "send"}]
  /\ UNCHANGED <<attempt, conns, heard, answer, replies, serving, subscribed, session, sent>>

(* An error: of the socket, of a response, or one of the timers has run out; an attempt *)
(* that is left may be the last.                                                        *)
Fails ==
  IF attempt < MaxAttempts
  THEN Connects(attempt + 1)
  ELSE attempt' = 0 /\ at' = "idle" /\ UNCHANGED <<conns, heard>>

AttemptFails ==
  /\ attempt > 0
  /\ Fails /\ Closes
  /\ UNCHANGED <<answer, wires, serving, session, sent>>

(* When it asks for the message.  Mutant: as soon as a turn has ended. *)
MayGetAtTurnEnd(known) == {"subscribed", "turn_end"} \subseteq known
MayGet(known) == {"subscribed", "sent", "turn_end"} \subseteq known

(* The next line from the server. *)
Settles(promise) ==
  LET known == heard \cup {promise} IN
  CASE at = "sending" /\ {"subscribed", "failed"} \subseteq known -> Fails /\ Closes /\ UNCHANGED commands
    [] at = "sending" /\ MayGet(known) ->
         /\ at' = "getting" /\ heard' = known
         /\ commands' = [commands EXCEPT ![conns] = @ \cup {"get_message"}]
         /\ UNCHANGED <<attempt, conns, subscribed>>
    [] OTHER -> heard' = known /\ UNCHANGED <<attempt, conns, at, commands, subscribed>>

(* What get_message returns: there may be no message, and that is an error. *)
Message(n) ==
  /\ IF n > 0 THEN attempt' = 0 /\ at' = "idle" /\ answer' = n /\ UNCHANGED <<conns, heard>>
              ELSE Fails /\ UNCHANGED answer
  /\ Closes
  /\ UNCHANGED commands

Heard ==
  /\ attempt > 0 /\ replies[conns] # <<>>
  /\ LET said == Head(replies[conns]) IN
     /\ replies' = [replies EXCEPT ![conns] = Tail(@)]
     /\ IF said.type = "message" THEN Message(said.turn) ELSE Settles(said.type) /\ UNCHANGED answer
  /\ UNCHANGED <<serving, session, sent>>

------------------------------------------------------------------------------
(* The server. *)

Enqueues == /\ turns < MaxTurns
            /\ turns' = turns + 1
            /\ waiting' = Append(waiting, turns + 1)

Handles(c, command) ==
  /\ command \in commands[c]
  /\ commands' = [commands EXCEPT ![c] = @ \ {command}]

Subscribe(c) ==
  /\ Handles(c, "subscribe")
  /\ subscribed' = IF c = conns /\ attempt > 0 THEN subscribed \cup {c} ELSE subscribed
  /\ Says(c, "subscribed", 0)
  /\ UNCHANGED <<client, serving, session, sent>>

(* enqueue, whose log may not be written. *)
Send(c) ==
  /\ Handles(c, "send")
  /\ \/ /\ Enqueues
        /\ serving' = [serving EXCEPT ![c] = turns + 1]
        /\ sent' = [sent EXCEPT ![c] = turns + 1]
        /\ UNCHANGED replies
     \/ Says(c, "failed", 0) /\ UNCHANGED <<turns, waiting, serving, sent>>
  /\ UNCHANGED <<client, subscribed, turn, last, clearing>>

GetMessage(c) ==
  /\ Handles(c, "get_message")
  /\ Says(c, "message", last)
  /\ UNCHANGED <<client, serving, subscribed, session, sent>>

------------------------------------------------------------------------------
(* The session and its turns. *)

TurnBegins ==
  /\ turn = NoTurn /\ waiting # <<>>
  /\ turn' = [n |-> Head(waiting), at |-> "preparing", aborted |-> FALSE]
  /\ waiting' = Tail(waiting)
  /\ UNCHANGED <<client, wires, serving, subscribed, turns, last, clearing, sent>>

(* mkdir is done and the process runs: an abort before that is not heard any more. *)
Spawned ==
  /\ turn.at = "preparing"
  /\ turn' = [turn EXCEPT !.at = "running"]
  /\ UNCHANGED <<client, wires, serving, subscribed, turns, waiting, last, clearing, sent>>

(* The timer of runProcess, which the process may ignore. *)
TimesOut ==
  /\ turn.at = "running"
  /\ turn' = [turn EXCEPT !.at = "killed"]
  /\ UNCHANGED <<client, wires, serving, subscribed, turns, waiting, last, clearing, sent>>

(* The turn has an answer, if only an excuse: its end is told to who is subscribed, once,  *)
(* and whoever sent it has its response, on the same connection after the event.           *)
Told(n) ==
  replies' = [c \in Conns |->
    replies[c] \o (IF c \in subscribed THEN <<Reply("turn_end", n)>> ELSE <<>>)
               \o (IF serving[c] = n THEN <<Reply("sent", n)>> ELSE <<>>)]

TurnEnds ==
  /\ turn # NoTurn
  /\ Told(turn.n)
  /\ last' = turn.n
  /\ turn' = NoTurn
  /\ subscribed' = {}
  /\ serving' = [c \in Conns |-> IF serving[c] = turn.n THEN 0 ELSE serving[c]]
  /\ UNCHANGED <<client, commands, turns, waiting, clearing, sent>>

(* The excuse is in the history but not in the file: no turn_end, and the send has failed. *)
TurnBreaks ==
  /\ turn # NoTurn
  /\ replies' = [c \in Conns |-> IF serving[c] = turn.n THEN Append(replies[c], Reply("failed", turn.n)) ELSE replies[c]]
  /\ last' = turn.n
  /\ turn' = NoTurn
  /\ serving' = [c \in Conns |-> IF serving[c] = turn.n THEN 0 ELSE serving[c]]
  /\ UNCHANGED <<client, commands, subscribed, turns, waiting, clearing, sent>>

OperatorSends ==
  /\ Enqueues
  /\ UNCHANGED <<client, wires, serving, subscribed, turn, last, clearing, sent>>

(* What waits is dropped, and those who sent it wait on. *)
Abort ==
  /\ turn # NoTurn \/ waiting # <<>>
  /\ waiting' = <<>>
  /\ turn' = IF turn = NoTurn THEN turn
             ELSE [turn EXCEPT !.aborted = TRUE, !.at = IF @ = "running" THEN "killed" ELSE @]
  /\ UNCHANGED <<client, wires, serving, subscribed, turns, last, clearing, sent>>

Clear ==
  /\ ~clearing /\ waiting = <<>> /\ (turn = NoTurn \/ turn.aborted) /\ last # 0
  /\ clearing' = TRUE
  /\ UNCHANGED <<client, wires, serving, subscribed, turns, waiting, turn, last, sent>>

Cleared ==
  /\ clearing
  /\ clearing' = FALSE /\ last' = 0
  /\ UNCHANGED <<client, wires, serving, subscribed, turns, waiting, turn, sent>>

Next ==
  \/ Complete \/ Connected \/ AttemptFails \/ Heard
  \/ \E c \in Conns : Subscribe(c) \/ Send(c) \/ GetMessage(c)
  \/ TurnBegins \/ Spawned \/ TimesOut \/ TurnEnds \/ TurnBreaks
  \/ OperatorSends \/ Abort \/ Clear \/ Cleared

Spec == Init /\ [][Next]_vars
------------------------------------------------------------------------------
(* A completion never returns an answer older than its own turn: not that of a turn that   *)
(* an earlier attempt, an earlier completion or an operator left in the session, whose end *)
(* it was told of while its own turn was still waiting (completeViaSocket, get_message).   *)
NothingOlder == answer > 0 => answer >= sent[conns]
=============================================================================
