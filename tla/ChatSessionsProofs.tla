------------------------- MODULE ChatSessionsProofs -------------------------
(***************************************************************************)
(* What ChatSessions promises for any numbers of calls, session objects,   *)
(* stops and aborts, any depth of the queue, and whoever sends what.       *)
(*                                                                         *)
(* The argument: the calls that wait are those in the queues, each once    *)
(* and at its own session, and those that have a turn; a queue is empty    *)
(* when its session is idle.  Of the calls of a message that came within   *)
(* one window, one is not a duplicate: a message that is not marked has    *)
(* had its window ended since.  A call that is not there yet, or waits,    *)
(* has had no turn.  While a socket is being closed the table has no       *)
(* session, or one that is known to have come too early; when none is, the *)
(* file is the socket's.                                                   *)
(***************************************************************************)
EXTENDS ChatSessions, TLAPS

CallType == [at : Pending \cup Settled \cup {"none"}, kind : {"chat", "send", "subscribe"},
             of : Calls \cup {0}, window : 0..MaxWindows, on : Objects \cup {0}]
TurnType == {NoTurn} \cup [at : TurnsAt, call : Calls, aborted : BOOLEAN]

CallTypes == calls \in [Calls -> CallType]
TableTypes ==
  /\ seen \in SUBSET Calls
  /\ sessions \in 0..made /\ made \in Objects \cup {0}
  /\ subs \in SUBSET Calls /\ turns \in [Calls -> Nat] /\ raced \in BOOLEAN
  /\ windows \in [Calls -> 0..MaxWindows] /\ mute \in SUBSET Objects
  /\ stops \in 0..MaxStops /\ aborts \in 0..MaxAborts
ObjectTypes ==
  /\ queue \in [Objects -> Seq(Calls)]
  /\ \A o \in Objects : Len(queue[o]) <= Depth
  /\ turn \in [Objects -> TurnType]
  /\ running \in [Objects -> BOOLEAN] /\ stopped \in [Objects -> BOOLEAN]
SocketTypes ==
  /\ opened \in Nat /\ socket \in 0..opened /\ file \in 0..opened
  /\ closings \in [Stops -> [at : {"none", "unlinking", "closing"}, server : Nat]]

(* The calls in the queues and in the turns are those that wait. *)
AtSession == {"initializing", "linking", "logging", "waiting"}

Queued(o) ==
  \A i \in 1..Len(queue[o]) :
    /\ calls[queue[o][i]].at = "waiting" /\ calls[queue[o][i]].on = o
    /\ turn[o].call # queue[o][i]
    /\ \A j \in 1..Len(queue[o]) : queue[o][j] = queue[o][i] => j = i
Turned(o) ==
  IF turn[o] = NoTurn THEN queue[o] = <<>>
  ELSE calls[turn[o].call].at = "waiting" /\ calls[turn[o].call].on = o
Placed(c) ==
  /\ calls[c].at \in AtSession => calls[c].on \in Objects
  /\ calls[c].at = "waiting" =>
       \/ turn[calls[c].on].call = c
       \/ \E i \in 1..Len(queue[calls[c].on]) : queue[calls[c].on][i] = c
QueuesSound ==
  /\ \A o \in Objects : Queued(o) /\ Turned(o)
  /\ \A c \in Calls : Placed(c)

(* The sessions of calls have been made. *)
OnMade == \A c \in Calls : calls[c].at \in AtSession => calls[c].on <= made

(* Ids: the calls of a message that count came in different windows, and the message is    *)
(* marked unless its window ended after the last of them.                                  *)
Counts(c) == calls[c].at \notin {"none", "duplicate"}
Marked(c) ==
  /\ calls[c].window <= windows[calls[c].of]
  /\ calls[c].of \in seen \/ calls[c].window < windows[calls[c].of]
IdSound(c) ==
  IF calls[c].at = "none" THEN calls[c] = NoCall
  ELSE /\ calls[c].of \in Calls
       /\ IF calls[c].kind = "chat"
          THEN /\ calls[calls[c].of].kind = "chat" /\ calls[calls[c].of].of = calls[c].of
               /\ Counts(c) => Marked(c)
          ELSE calls[c].of = c
       /\ calls[c].kind = "subscribe" => calls[c].at \notin {"logging", "waiting"}
Same(c, d) == calls[c].of = calls[d].of /\ calls[c].window = calls[d].window
IdsSound ==
  /\ \A c \in Calls : IdSound(c)
  /\ \A c, d \in Calls : Counts(c) /\ Counts(d) /\ Same(c, d) => c = d

(* A call that is ahead of its turn has had none, and one that had a turn counts. *)
Ahead(c) == \/ calls[c].at \in {"initializing", "linking", "logging"}
            \/ calls[c].at = "waiting" /\ turn[calls[c].on].call # c
TurnsSound ==
  \A c \in Calls :
    /\ turns[c] <= 1
    /\ turns[c] > 0 => Counts(c)
    /\ Ahead(c) => turns[c] = 0

(* The socket, its file and the session. *)
SocketsSound ==
  IF ClosingNow THEN sessions = 0 \/ raced
  ELSE file = socket /\ (~raced /\ sessions \notin {0} \cup mute => socket # 0)

Served == QueuesSound /\ IdsSound /\ TurnsSound /\ OnMade

IInv == TypeOK /\ Served /\ SocketsSound /\ BusyIsSeen

LEMMA TypeParts == TypeOK <=> CallTypes /\ TableTypes /\ ObjectTypes /\ SocketTypes
  BY DEF TypeOK, CallTypes, TableTypes, ObjectTypes, SocketTypes, CallType, TurnType

(* Turns, as records. *)
LEMMA TurnTyped ==
  ASSUME NEW t \in TurnType
  PROVE  /\ t.aborted \in BOOLEAN
         /\ t = NoTurn \/ (t # NoTurn /\ t.at \in TurnsAt /\ t.call \in Calls)
         /\ t = NoTurn => t.at = "idle" /\ t.call = 0 /\ t.aborted = FALSE
         /\ t.at \in {"idle"} \cup TurnsAt
<1>1. NoTurn \in [at : {"idle"}, call : {0}, aborted : BOOLEAN]
  BY DEF NoTurn
<1>2. NoTurn.at = "idle" /\ NoTurn.call = 0 /\ NoTurn.aborted = FALSE
  BY DEF NoTurn
<1> QED BY <1>1, <1>2 DEF TurnType

LEMMA TurnFlagged ==
  ASSUME NEW t \in TurnType, NEW flag \in BOOLEAN, flag = (t.aborted \/ t.at = "working")
  PROVE  LET u == [t EXCEPT !.aborted = flag] IN
         u \in TurnType /\ u.at = t.at /\ u.call = t.call /\ u.aborted = flag
<1>1. CASE t = NoTurn
  <2>1. t.at = "idle" /\ t.aborted = FALSE
    BY <1>1, TurnTyped
  <2>2. flag = FALSE
    BY <2>1
  <2>3. [NoTurn EXCEPT !.aborted = flag] = [at |-> "idle", call |-> 0, aborted |-> flag]
    BY DEF NoTurn
  <2>4. [at |-> "idle", call |-> 0, aborted |-> flag] = NoTurn
    BY <2>2 DEF NoTurn
  <2> QED BY <1>1, <2>1, <2>2, <2>3, <2>4 DEF TurnType
<1>2. CASE t # NoTurn
  <2>1. t \in [at : TurnsAt, call : Calls, aborted : BOOLEAN]
    BY <1>2 DEF TurnType
  <2> QED BY <2>1 DEF TurnType
<1> QED BY <1>1, <1>2

LEMMA InitSound == Init => IInv
<1> SUFFICES ASSUME Init PROVE IInv
  OBVIOUS
<1>1. CallTypes /\ TableTypes /\ SocketTypes
  <2>1. CallTypes
    BY SessionAssumption DEF Init, CallTypes, CallType, NoCall
  <2>2. TableTypes
    <3>1. seen \in SUBSET Calls /\ subs \in SUBSET Calls /\ turns \in [Calls -> Nat]
      BY DEF Init
    <3>2. sessions = 0 /\ made = 0 /\ raced \in BOOLEAN
      BY DEF Init
    <3>3. stops \in 0..MaxStops /\ aborts \in 0..MaxAborts
      BY SessionAssumption DEF Init
    <3>4. windows \in [Calls -> 0..MaxWindows] /\ mute \in SUBSET Objects
      BY SessionAssumption DEF Init
    <3> QED BY <3>1, <3>2, <3>3, <3>4 DEF TableTypes
  <2>3. SocketTypes
    BY DEF Init, SocketTypes
  <2> QED BY <2>1, <2>2, <2>3
<1>2. ObjectTypes
  BY SessionAssumption DEF Init, ObjectTypes, TurnType
<1>3. QueuesSound
  BY DEF Init, QueuesSound, Queued, Turned, Placed, NoCall, NoTurn, AtSession
<1>4. IdsSound
  BY DEF Init, IdsSound, IdSound, Counts, NoCall
<1>5. TurnsSound
  BY DEF Init, TurnsSound, Ahead, Counts, NoCall
<1>6. SocketsSound
  BY DEF Init, SocketsSound, ClosingNow
<1>7. BusyIsSeen
  BY DEF Init, BusyIsSeen, NoTurn
<1>8. OnMade
  BY DEF Init, OnMade, NoCall, AtSession
<1> QED BY <1>1, <1>2, <1>3, <1>4, <1>5, <1>6, <1>7, <1>8, TypeParts DEF IInv, Served

------------------------------------------------------------------------------
(* A step of one call c that neither waits before nor after it, and of no session. *)
Beside(c) ==
  /\ calls[c].at # "waiting" /\ calls'[c].at # "waiting"
  /\ calls' = [calls EXCEPT ![c] = calls'[c]]
  /\ calls'[c].at \in AtSession => calls'[c].on \in Objects
  /\ UNCHANGED <<queue, turn, turns, running>>

LEMMA BesideQueues ==
  ASSUME TypeOK, QueuesSound, NEW c \in Calls, Beside(c)
  PROVE  QueuesSound'
<1>1. CallTypes /\ ObjectTypes
  BY TypeParts
<1>2. \A d \in Calls \ {c} : calls'[d] = calls[d]
  BY <1>1 DEF Beside, CallTypes
<1>3. ASSUME NEW o \in Objects PROVE Queued(o)'
  <2>1. \A i \in 1..Len(queue[o]) : queue[o][i] \in Calls
    BY <1>1 DEF ObjectTypes
  <2> QED BY <2>1, <1>2 DEF Beside, QueuesSound, Queued
<1>4. ASSUME NEW o \in Objects PROVE Turned(o)'
  <2>1. turn[o] # NoTurn => turn[o].call \in Calls
    BY <1>1, TurnTyped DEF ObjectTypes
  <2> QED BY <2>1, <1>2 DEF Beside, QueuesSound, Turned
<1>5. ASSUME NEW d \in Calls PROVE Placed(d)'
  BY <1>2 DEF Beside, QueuesSound, Placed
<1> QED BY <1>3, <1>4, <1>5 DEF QueuesSound

(* The queue with a call more. *)
LEMMA RoomMade ==
  ASSUME TypeOK, NEW o \in Objects, NEW c \in Calls
  PROVE  /\ Kept(queue[o]) \in Seq(Calls) /\ Len(Kept(queue[o])) < Depth
         /\ \/ Kept(queue[o]) = queue[o]
            \/ queue[o] # <<>> /\ Kept(queue[o]) = Tail(queue[o])
<1>1. queue[o] \in Seq(Calls) /\ Len(queue[o]) <= Depth /\ Depth \in Nat \ {0}
  BY SessionAssumption, TypeParts DEF ObjectTypes
<1>2. CASE Len(queue[o]) >= Depth
  BY <1>1, <1>2 DEF Kept
<1>3. CASE ~(Len(queue[o]) >= Depth)
  BY <1>1, <1>3 DEF Kept
<1> QED BY <1>2, <1>3

(* What Logged does: the session is idle and the call has its turn, or it is queued. *)
LoggedIdle(c, o) ==
  /\ turn[o] = NoTurn /\ queue[o] = <<>>
  /\ queue' = [queue EXCEPT ![o] = <<>>]
  /\ turn' = [turn EXCEPT ![o] = [at |-> "working", call |-> c, aborted |-> FALSE]]
  /\ turns' = [turns EXCEPT ![c] = @ + 1]
  /\ calls' = [calls EXCEPT ![c].at = "waiting"]
  /\ running' = [running EXCEPT ![o] = TRUE]
LoggedBusy(c, o) ==
  /\ turn[o] # NoTurn
  /\ queue' = [queue EXCEPT ![o] = Append(Kept(queue[o]), c)]
  /\ UNCHANGED <<turn, turns, running>>
  /\ \/ /\ Kept(queue[o]) = queue[o]
        /\ calls' = [calls EXCEPT ![c].at = "waiting"]
     \/ /\ queue[o] # <<>> /\ Kept(queue[o]) = Tail(queue[o])
        /\ calls' = [d \in Calls |-> IF d = c THEN [calls[d] EXCEPT !.at = "waiting"]
                                     ELSE IF d = Head(queue[o]) THEN Settle(calls[d], "lost")
                                     ELSE calls[d]]

LEMMA LoggedEffect ==
  ASSUME TypeOK, QueuesSound, NEW c \in Calls, Logged(c)
  PROVE  /\ calls[c].at = "logging" /\ calls[c].on \in Objects
         /\ LoggedIdle(c, calls[c].on) \/ LoggedBusy(c, calls[c].on)
<1> DEFINE o == calls[c].on
           kept == Kept(queue[o])
<1>1. calls[c].at = "logging" /\ o \in Objects
  BY DEF Logged, QueuesSound, Placed, AtSession
<1>2. /\ queue[o] \in Seq(Calls) /\ turn \in [Objects -> TurnType]
      /\ queue \in [Objects -> Seq(Calls)]
      /\ running \in [Objects -> BOOLEAN] /\ calls = [d \in Calls |-> calls[d]]
  BY <1>1, TypeParts DEF ObjectTypes, CallTypes
<1>3. /\ QueueOrServe(o, Append(kept, c))
      /\ calls' = [d \in Calls |->
           IF d = c THEN [calls[d] EXCEPT !.at = "waiting"]
           ELSE IF d \in Elements(queue[o]) \ Elements(kept) THEN Settle(calls[d], "lost")
           ELSE calls[d]]
      /\ running' = [running EXCEPT ![o] = @ \/ turn[o] = NoTurn]
  BY DEF Logged
<1>4. CASE turn[o] = NoTurn
  <2>1. queue[o] = <<>>
    BY <1>1, <1>4 DEF QueuesSound, Turned
  <2>2. kept = <<>>
    BY <2>1, SessionAssumption DEF Kept
  <2>3. Append(kept, c) # <<>> /\ Head(Append(kept, c)) = c /\ Tail(Append(kept, c)) = <<>>
    BY <2>2
  <2>4. Serve(o, Append(kept, c))
    BY <1>3, <1>4 DEF QueueOrServe
  <2>5. calls' = [calls EXCEPT ![c].at = "waiting"]
    <3>1. Elements(queue[o]) = {}
      BY <2>1 DEF Elements
    <3> HIDE DEF o, kept
    <3> QED BY <3>1, <1>2, <1>3
  <2>6. running' = [running EXCEPT ![o] = TRUE]
    BY <1>3, <1>4
  <2> HIDE DEF o, kept
  <2>7. LoggedIdle(c, o)
    BY <1>4, <2>1, <2>3, <2>4, <2>5, <2>6 DEF Serve, LoggedIdle
  <2> QED BY <2>7, <1>1 DEF o
<1>5. CASE turn[o] # NoTurn
  <2>1. queue' = [queue EXCEPT ![o] = Append(kept, c)] /\ UNCHANGED <<turn, turns>>
    BY <1>3, <1>5 DEF QueueOrServe
  <2>2. running' = running
    <3>1. running[o] \in BOOLEAN /\ (turn[o] = NoTurn) = FALSE
      BY <1>1, <1>2, <1>5
    <3>2. (running[o] \/ turn[o] = NoTurn) = running[o]
      BY <3>1
    <3> QED BY <3>2, <1>2, <1>3
  <2>3. CASE kept = queue[o]
    <3>1. calls' = [calls EXCEPT ![c].at = "waiting"]
      <4> HIDE DEF o, kept
      <4> QED BY <2>3, <1>2, <1>3
    <3> QED BY <3>1, <2>1, <2>2, <2>3, <1>1, <1>5 DEF LoggedBusy
  <2>4. CASE queue[o] # <<>> /\ kept = Tail(queue[o])
    <3>1. Elements(queue[o]) \ Elements(kept) = {Head(queue[o])}
      <4>1. \A j \in 1..Len(queue[o]) : queue[o][j] = queue[o][1] => j = 1
        <5>1. Queued(o) /\ 1 \in 1..Len(queue[o])
          BY <1>1, <1>2, <2>4 DEF QueuesSound
        <5> QED BY <5>1 DEF Queued
      <4>2. \A j \in 1..Len(kept) : kept[j] = queue[o][j + 1] /\ j + 1 \in 1..Len(queue[o])
        BY <1>2, <2>4
      <4>3. \A j \in 1..Len(queue[o]) : j # 1 => j - 1 \in 1..Len(kept) /\ kept[j - 1] = queue[o][j]
        BY <1>2, <2>4
      <4>4. Head(queue[o]) = queue[o][1] /\ 1 \in 1..Len(queue[o])
        BY <1>2, <2>4
      <4> HIDE DEF o, kept
      <4>5. \A j \in 1..Len(kept) : kept[j] # queue[o][1]
        BY <4>1, <4>2
      <4>6. \A j \in 1..Len(queue[o]) : j = 1 \/ queue[o][j] \in Elements(kept)
        BY <4>3 DEF Elements
      <4> QED BY <4>4, <4>5, <4>6 DEF Elements
    <3>2. calls' = [d \in Calls |-> IF d = c THEN [calls[d] EXCEPT !.at = "waiting"]
                                     ELSE IF d = Head(queue[o]) THEN Settle(calls[d], "lost")
                                     ELSE calls[d]]
      <4> HIDE DEF o, kept
      <4> QED BY <3>1, <1>3
    <3> QED BY <3>2, <2>1, <2>2, <2>4, <1>1, <1>5 DEF LoggedBusy
  <2> QED BY <2>3, <2>4, <1>1, RoomMade
<1> QED BY <1>4, <1>5

(* What the end of a turn does: its call settles, and the next one has its turn. *)
TurnPasses(o, outcome) ==
  /\ turn[o].at \in TurnsAt /\ turn[o].call \in Calls
  /\ calls' = [calls EXCEPT ![turn[o].call] = Settle(@, outcome)]
  /\ \/ /\ queue[o] = <<>> /\ UNCHANGED turns
        /\ queue' = [queue EXCEPT ![o] = <<>>]
        /\ turn' = [turn EXCEPT ![o] = NoTurn]
        /\ running' = [running EXCEPT ![o] = FALSE]
     \/ /\ queue[o] # <<>>
        /\ queue' = [queue EXCEPT ![o] = Tail(queue[o])]
        /\ turn' = [turn EXCEPT ![o] = [at |-> "working", call |-> Head(queue[o]), aborted |-> FALSE]]
        /\ turns' = [turns EXCEPT ![Head(queue[o])] = @ + 1]
        /\ running' = [running EXCEPT ![o] = TRUE]
  /\ UNCHANGED stopped

LEMMA TurnOverEffect ==
  ASSUME TypeOK, NEW o \in Objects, NEW outcome, turn[o].at \in TurnsAt, TurnOver(o, outcome)
  PROVE  TurnPasses(o, outcome)
<1>1. turn[o] \in TurnType
  BY TypeParts DEF ObjectTypes
<1>2. turn[o].call \in Calls
  BY <1>1, TurnTyped DEF TurnsAt
<1>3. CASE queue[o] = <<>>
  <2>1. (queue[o] # <<>>) = FALSE
    BY <1>3
  <2> QED BY <1>2, <1>3, <2>1 DEF TurnOver, Serve, TurnPasses
<1>4. CASE queue[o] # <<>>
  <2>1. (queue[o] # <<>>) = TRUE
    BY <1>4
  <2> QED BY <1>2, <1>4, <2>1 DEF TurnOver, Serve, TurnPasses
<1> QED BY <1>3, <1>4

(* What an abort of session o does. *)
LEMMA AbortEffect ==
  ASSUME TypeOK, QueuesSound, NEW o \in Objects, AbortSession(o)
  PROVE  /\ \A d \in Calls :
              calls'[d] = IF calls[d].at = "waiting" /\ calls[d].on = o /\ turn[o].call # d
                          THEN Settle(calls[d], "lost") ELSE calls[d]
         /\ calls' = [d \in Calls |-> calls'[d]]
         /\ queue' = [queue EXCEPT ![o] = <<>>]
         /\ turn'[o].call = turn[o].call /\ turn'[o].at = turn[o].at
         /\ turn' = [turn EXCEPT ![o] = turn'[o]]
         /\ turn'[o] \in TurnType
         /\ turn'[o].at = "working" => turn'[o].aborted
         /\ running' = [running EXCEPT ![o] = FALSE]
<1>1. /\ turn \in [Objects -> TurnType]
      /\ turn' = [turn EXCEPT ![o].aborted = @ \/ turn[o].at = "working"]
      /\ queue' = [queue EXCEPT ![o] = <<>>]
      /\ calls' = [d \in Calls |-> IF d \in Elements(queue[o]) THEN Settle(calls[d], "lost") ELSE calls[d]]
      /\ running' = [running EXCEPT ![o] = FALSE]
  BY TypeParts DEF AbortSession, DropQueued, ObjectTypes
<1>2. \A d \in Calls : d \in Elements(queue[o]) <=> calls[d].at = "waiting" /\ calls[d].on = o /\ turn[o].call # d
  <2>1. TAKE d \in Calls
  <2>2. Queued(o) /\ Placed(d)
    BY DEF QueuesSound
  <2> QED BY <2>2 DEF Queued, Placed, Elements
<1>3. PICK flag \in BOOLEAN : flag = (turn[o].aborted \/ turn[o].at = "working")
  BY <1>1, TurnTyped
<1>4. turn' = [turn EXCEPT ![o].aborted = flag]
  BY <1>1, <1>3, Zenon
<1>5. turn'[o] = [turn[o] EXCEPT !.aborted = flag] /\ turn' = [turn EXCEPT ![o] = turn'[o]]
  BY <1>1, <1>4
<1>6. /\ turn'[o] \in TurnType /\ turn'[o].at = turn[o].at /\ turn'[o].call = turn[o].call
      /\ turn'[o].aborted = flag
  BY <1>1, <1>3, <1>5, TurnFlagged
<1> QED BY <1>1, <1>2, <1>3, <1>5, <1>6

------------------------------------------------------------------------------
(* The kinds of steps, for what follows. *)

(* A call arrives at a session, and may begin to be logged. *)
LEMMA ProceedsEffect ==
  ASSUME NEW c \in Calls, NEW call \in CallType, NEW o \in Objects, Proceeds(c, call, o), CallTypes,
         subs \subseteq Calls
  PROVE  /\ calls' = [calls EXCEPT ![c] = calls'[c]]
         /\ calls'[c].at \in {"subscribed", "logging", "ignored"}
         /\ call.kind = "subscribe" => calls'[c].at = "subscribed"
         /\ calls'[c].at = "logging" => calls'[c].on = o
         /\ calls'[c].kind = call.kind /\ calls'[c].of = call.of /\ calls'[c].window = call.window
         /\ calls'[c] \in CallType /\ subs' \subseteq Calls /\ subs \subseteq subs'
<1>1. PICK at \in {"subscribed", "logging", "ignored"}, on \in {0, o} :
        /\ calls' = [calls EXCEPT ![c] = [call EXCEPT !.at = at, !.on = on]]
        /\ call.kind = "subscribe" => at = "subscribed"
        /\ at = "logging" => on = o
        /\ subs' \in {subs, subs \cup {c}}
  BY DEF Proceeds, Settle
<1>2. at \in Pending \cup Settled /\ on \in Objects \cup {0}
  BY DEF Pending, Settled
<1>3. calls'[c] = [call EXCEPT !.at = at, !.on = on] /\ calls' = [calls EXCEPT ![c] = calls'[c]]
  BY <1>1 DEF CallTypes
<1>4. calls'[c] \in CallType /\ calls'[c].at = at /\ calls'[c].on = on
      /\ calls'[c].kind = call.kind /\ calls'[c].of = call.of /\ calls'[c].window = call.window
  BY <1>2, <1>3 DEF CallType
<1> QED BY <1>1, <1>3, <1>4

(* A new call: a duplicate, or one that is on its way to a session. *)
Comes(c, kind, m) ==
  /\ calls[c] = NoCall
  /\ calls' = [calls EXCEPT ![c] = calls'[c]]
  /\ calls'[c].kind = kind /\ calls'[c].of = m
  /\ kind = "chat" /\ calls'[c].at # "duplicate" => calls'[c].window = windows[m]
  /\ calls'[c].at \in {"duplicate", "initializing", "logging", "ignored", "subscribed"}
  /\ kind = "subscribe" => calls'[c].at # "logging"
  /\ calls'[c].at \in AtSession => calls'[c].on \in Objects /\ calls'[c].on <= made'
  /\ calls'[c] \in CallType
  /\ made' \in Objects \cup {0} /\ made <= made' /\ subs' \subseteq Calls /\ subs \subseteq subs'

LEMMA GetOrCreateEffect ==
  ASSUME TypeOK, NEW c \in Calls, NEW kind \in {"chat", "send", "subscribe"}, NEW m \in Calls,
         NEW call \in CallType, call.kind = kind, call.of = m,
         kind = "chat" => call.window = windows[m],
         calls[c] = NoCall, GetOrCreateSession(c, call)
  PROVE  Comes(c, kind, m) /\ calls'[c].at # "duplicate"
<1>1. call \in CallType /\ call.kind = kind /\ call.of = m /\ (kind = "chat" => call.window = windows[m])
  OBVIOUS
<1>2. CallTypes /\ TableTypes
  BY TypeParts
<1>3. CASE sessions # 0 /\ Proceeds(c, call, sessions) /\ UNCHANGED made
  <2>1. sessions \in Objects
    BY <1>2, <1>3, SessionAssumption DEF TableTypes, Objects
  <2>2. /\ calls' = [calls EXCEPT ![c] = calls'[c]]
        /\ calls'[c].at \in {"subscribed", "logging", "ignored"}
        /\ call.kind = "subscribe" => calls'[c].at = "subscribed"
        /\ calls'[c].at = "logging" => calls'[c].on = sessions
        /\ calls'[c].kind = call.kind /\ calls'[c].of = call.of /\ calls'[c].window = call.window
        /\ calls'[c] \in CallType /\ subs' \subseteq Calls /\ subs \subseteq subs'
    BY <1>1, <1>2, <1>3, <2>1, ProceedsEffect DEF TableTypes
  <2>3. made' = made /\ made \in Nat
    BY <1>2, <1>3, SessionAssumption DEF TableTypes, Objects
  <2>4. sessions <= made'
    BY <1>2, <2>3 DEF TableTypes
  <2> QED BY <1>1, <1>2, <2>1, <2>2, <2>3, <2>4 DEF Comes, AtSession, TableTypes
<1>4. CASE /\ sessions = 0 /\ made < MaxObjects /\ made' = made + 1
           /\ calls' = [calls EXCEPT ![c] = [call EXCEPT !.at = "initializing", !.on = made + 1]]
           /\ UNCHANGED subs
  <2>1. made + 1 \in Objects /\ made \in Nat
    BY <1>2, <1>4, SessionAssumption DEF TableTypes, Objects
  <2>2. calls'[c] = [call EXCEPT !.at = "initializing", !.on = made + 1]
        /\ calls' = [calls EXCEPT ![c] = calls'[c]]
    BY <1>2, <1>4 DEF CallTypes
  <2>3. /\ calls'[c] \in CallType
        /\ calls'[c].at = "initializing" /\ calls'[c].on = made + 1 /\ calls'[c].kind = kind /\ calls'[c].of = m
        /\ calls'[c].window = call.window
    <3>1. "initializing" \in Pending \cup Settled /\ made + 1 \in Objects \cup {0}
      BY <2>1 DEF Pending
    <3> QED BY <1>1, <3>1, <2>2 DEF CallType
  <2> QED BY <1>2, <1>4, <2>1, <2>2, <2>3 DEF Comes, TableTypes
<1> QED BY <1>3, <1>4 DEF GetOrCreateSession

(* Dispatch and Rpc. *)
LEMMA ComesEffect ==
  ASSUME TypeOK, NEW c \in Calls, NEW m \in Calls, NEW kind \in {"chat", "send", "subscribe"},
         \/ kind = "chat" /\ Dispatch(c, m)
         \/ kind # "chat" /\ m = c /\ Rpc(c, kind)
  PROVE  /\ Comes(c, kind, m)
         /\ IF kind = "chat" THEN seen' = seen \cup {m} ELSE seen' = seen
         /\ kind = "chat" => IF m \in seen THEN calls'[c].at = "duplicate" ELSE calls'[c].at # "duplicate"
         /\ kind = "chat" /\ m # c => calls[m].kind = "chat" /\ calls[m].of = m
         /\ kind # "chat" => calls'[c].at # "duplicate"
         /\ UNCHANGED <<sessions, queue, turn, running, stopped, socket, file, opened, closings,
                        turns, windows, raced, mute, stops, aborts>>
<1>1. CASE kind = "chat" /\ Dispatch(c, m) /\ m \in seen
  <2>1. calls[c] = NoCall /\ calls' = [calls EXCEPT ![c] = [[NoCall EXCEPT !.of = m, !.window = windows[m]] EXCEPT !.at = "duplicate"]]
        /\ UNCHANGED <<seen, made, subs>>
    BY <1>1 DEF Dispatch
  <2>2. CallTypes /\ TableTypes /\ windows[m] \in 0..MaxWindows
    BY TypeParts DEF TableTypes
  <2>3. calls'[c] = [[NoCall EXCEPT !.of = m, !.window = windows[m]] EXCEPT !.at = "duplicate"] /\ calls' = [calls EXCEPT ![c] = calls'[c]]
    BY <2>1, <2>2 DEF CallTypes
  <2>4. calls'[c].at = "duplicate" /\ calls'[c].kind = "chat" /\ calls'[c].of = m
    BY <2>3 DEF NoCall
  <2>5. calls'[c] \in CallType
    BY <2>2, <2>3 DEF NoCall, CallType, Settled
  <2>6. made \in Nat
    BY <2>2, SessionAssumption DEF TableTypes, Objects
  <2>7. Comes(c, kind, m)
    BY <1>1, <2>1, <2>2, <2>3, <2>4, <2>5, <2>6 DEF Comes, TableTypes, AtSession
  <2>8. m # c => calls[m].kind = "chat" /\ calls[m].of = m
    BY <1>1, SessionAssumption DEF Dispatch, Calls
  <2> QED BY <1>1, <2>1, <2>4, <2>7, <2>8 DEF Dispatch, countVars, historyVars
<1>2. CASE kind = "chat" /\ Dispatch(c, m) /\ m \notin seen
  <2>0. windows[m] \in 0..MaxWindows
    BY TypeParts DEF TableTypes
  <2>1. PICK call \in CallType : call.kind = kind /\ call.of = m /\ call.window = windows[m]
                                /\ call = [NoCall EXCEPT !.of = m, !.window = windows[m]]
    BY <1>2, <2>0 DEF NoCall, CallType
  <2>2. calls[c] = NoCall /\ GetOrCreateSession(c, call)
    BY <1>2, <2>1 DEF Dispatch
  <2>3. Comes(c, kind, m) /\ calls'[c].at # "duplicate"
    BY <2>1, <2>2, GetOrCreateEffect
  <2>4. m # c => calls[m].kind = "chat" /\ calls[m].of = m
    BY <1>2, SessionAssumption DEF Dispatch, Calls
  <2> QED BY <1>2, <2>3, <2>4 DEF Dispatch, TouchSeen, countVars, historyVars
<1>3. CASE kind # "chat" /\ m = c /\ Rpc(c, kind)
  <2>1. PICK call \in CallType : call.kind = kind /\ call.of = m /\ call = [NoCall EXCEPT !.kind = kind, !.of = c]
    <3>1. 0 \in 0..MaxWindows /\ "none" \in Pending \cup Settled \cup {"none"}
      BY SessionAssumption
    <3>2. NoCall \in CallType
      BY <3>1 DEF NoCall, CallType
    <3>3. [NoCall EXCEPT !.kind = kind, !.of = c] \in CallType
      BY <3>2 DEF CallType
    <3> QED BY <3>2, <3>3, <1>3 DEF CallType
  <2>2. calls[c] = NoCall /\ GetOrCreateSession(c, call)
    BY <1>3, <2>1 DEF Rpc
  <2>3. Comes(c, kind, m) /\ calls'[c].at # "duplicate"
    BY <1>3, <2>1, <2>2, GetOrCreateEffect
  <2> QED BY <1>3, <2>3 DEF Rpc, countVars, historyVars
<1> QED BY <1>1, <1>2, <1>3

(* A call goes on, or away, with its kind and its message. *)
Keeps ==
  \A d \in Calls :
    /\ calls'[d].kind = calls[d].kind /\ calls'[d].of = calls[d].of /\ calls'[d].window = calls[d].window
    /\ \/ calls'[d] = calls[d]
       \/ /\ calls[d].at \in Pending /\ calls'[d].at \notin {"none", "duplicate"}
          /\ calls[d].kind = "subscribe" => calls'[d].at \notin {"logging", "waiting"}
          /\ calls'[d].at \in AtSession => calls'[d].on = calls[d].on

(* Initialized, OpensNoSocket, Linked and Refused. *)
Goes(c) == Initialized(c) \/ OpensNoSocket(c) \/ Linked(c) \/ Refused(c)

LEMMA GoesOn ==
  ASSUME TypeOK, QueuesSound, IdsSound, NEW c \in Calls, Goes(c)
  PROVE  /\ Beside(c) /\ Keeps /\ calls'[c] \in CallType /\ subs' \subseteq Calls /\ seen' = seen
         /\ calls[c].at \in {"initializing", "linking", "logging"} /\ calls[c].on \in Objects
         /\ stopped' = stopped /\ windows' = windows
<1>1. CallTypes /\ subs \subseteq Calls
  BY TypeParts DEF TableTypes
<1>2. PICK call \in CallType : call = calls[c]
  BY <1>1 DEF CallTypes
<1>3. calls[c].at \in {"initializing", "linking", "logging"} /\ calls[c].on \in Objects
  BY DEF Goes, Initialized, OpensNoSocket, EntersTable, Linked, Refused, QueuesSound, Placed, AtSession
<1>4. CASE Initialized(c)
  <2>1. calls' = [calls EXCEPT ![c].at = "linking"] /\ UNCHANGED <<seen, queue, turn, running, stopped, subs, turns, windows>>
        /\ calls[c].at = "initializing"
    BY <1>4 DEF Initialized, EntersTable, objectVars
  <2>2. calls' = [calls EXCEPT ![c] = calls'[c]] /\ calls'[c] = [call EXCEPT !.at = "linking"]
    BY <1>1, <1>2, <2>1 DEF CallTypes
  <2>3. "linking" \in Pending \cup Settled
    BY DEF Pending
  <2>4. calls'[c] \in CallType /\ calls'[c].at = "linking" /\ calls'[c].on = call.on
        /\ calls'[c].kind = call.kind /\ calls'[c].of = call.of /\ calls'[c].window = call.window
    BY <2>2, <2>3 DEF CallType
  <2>5. Keeps
    BY <1>1, <1>2, <2>1, <2>2, <2>4 DEF Keeps, Pending, CallTypes, AtSession
  <2> QED BY <1>1, <1>2, <1>3, <2>1, <2>2, <2>4, <2>5 DEF Beside
<1>5. CASE Linked(c)
  <2>1. PICK o \in Objects : o = calls[c].on
    BY <1>3
  <2>2. Proceeds(c, call, o) /\ calls[c].at = "linking"
        /\ UNCHANGED <<seen, queue, turn, running, stopped, turns, windows>>
    BY <1>2, <1>5, <2>1 DEF Linked, objectVars, historyVars
  <2>3. /\ calls' = [calls EXCEPT ![c] = calls'[c]]
        /\ calls'[c].at \in {"subscribed", "logging", "ignored"}
        /\ call.kind = "subscribe" => calls'[c].at = "subscribed"
        /\ calls'[c].at = "logging" => calls'[c].on = o
        /\ calls'[c].kind = call.kind /\ calls'[c].of = call.of /\ calls'[c].window = call.window
        /\ calls'[c] \in CallType /\ subs' \subseteq Calls /\ subs \subseteq subs'
    BY <1>1, <2>2, ProceedsEffect
  <2>4. Keeps
    BY <1>1, <1>2, <2>1, <2>2, <2>3 DEF Keeps, Pending, CallTypes, AtSession
  <2> QED BY <1>1, <1>2, <1>3, <2>1, <2>2, <2>3, <2>4 DEF Beside, AtSession
<1>6. CASE OpensNoSocket(c) \/ Refused(c)
  <2>1. calls' = [calls EXCEPT ![c] = Settle(@, "rejected")]
        /\ UNCHANGED <<seen, queue, turn, running, stopped, subs, turns, windows>>
    BY <1>6 DEF OpensNoSocket, Refused, objectVars, socketVars, historyVars
  <2>2. calls' = [calls EXCEPT ![c] = calls'[c]] /\ calls'[c] = [call EXCEPT !.at = "rejected", !.on = 0]
    BY <1>1, <1>2, <2>1 DEF CallTypes, Settle
  <2>3. "rejected" \in Pending \cup Settled
    BY DEF Settled
  <2>4. calls'[c] \in CallType /\ calls'[c].at = "rejected"
        /\ calls'[c].kind = call.kind /\ calls'[c].of = call.of /\ calls'[c].window = call.window
    BY <2>2, <2>3 DEF CallType
  <2>5. Keeps
    BY <1>1, <1>2, <1>3, <2>1, <2>2, <2>4 DEF Keeps, Pending, CallTypes, AtSession
  <2> QED BY <1>1, <1>2, <1>3, <2>1, <2>2, <2>4, <2>5 DEF Beside, AtSession
<1> QED BY <1>4, <1>5, <1>6 DEF Goes

LEMMA IdsKept ==
  ASSUME IdsSound, Keeps, UNCHANGED <<seen, windows>>
  PROVE  IdsSound'
<1>1. ASSUME NEW c \in Calls, Counts(c)' PROVE Counts(c)
  BY <1>1 DEF Counts, Keeps, Pending
<1>2. ASSUME NEW c \in Calls PROVE IdSound(c)'
  <2>1. IdSound(c) /\ (calls[c].of \in Calls => IdSound(calls[c].of))
    BY DEF IdsSound
  <2>2. CASE calls'[c] = calls[c] /\ calls[c].at = "none"
    BY <2>1, <2>2 DEF IdSound
  <2>3. CASE calls[c].at # "none"
    <3>1. /\ calls'[c].kind = calls[c].kind /\ calls'[c].of = calls[c].of
          /\ calls'[c].window = calls[c].window /\ calls[c].of \in Calls /\ calls'[c].at # "none"
      BY <2>1, <2>3 DEF Keeps, IdSound
    <3>2. calls'[calls[c].of].kind = calls[calls[c].of].kind /\ calls'[calls[c].of].of = calls[calls[c].of].of
      BY <3>1 DEF Keeps
    <3>3. calls[c].kind = "subscribe" => calls'[c].at \notin {"logging", "waiting"}
      BY <2>1, <2>3 DEF Keeps, IdSound
    <3>4. Counts(c)' => Counts(c)
      BY <1>1
    <3>5. Marked(c) => Marked(c)'
      BY <3>1 DEF Marked
    <3> QED BY <2>1, <2>3, <3>1, <3>2, <3>3, <3>4, <3>5 DEF IdSound
  <2> QED BY <2>2, <2>3 DEF Keeps, Pending
<1>3. ASSUME NEW c \in Calls, NEW d \in Calls, Counts(c)', Counts(d)', Same(c, d)'
      PROVE  c = d
  <2>1. Same(c, d)
    BY <1>3 DEF Same, Keeps
  <2> QED BY <1>1, <1>3, <2>1 DEF IdsSound
<1> QED BY <1>2, <1>3 DEF IdsSound

LEMMA IdsForgotten ==
  ASSUME TypeOK, IdsSound, NEW m \in Calls, Forget(m)
  PROVE  IdsSound' /\ windows' \in [Calls -> 0..MaxWindows] /\ seen' \subseteq Calls
<1>1. /\ seen' = seen \ {m} /\ windows' = [windows EXCEPT ![m] = @ + 1] /\ calls' = calls
      /\ windows[m] < MaxWindows
  BY DEF Forget
<1>2. windows \in [Calls -> 0..MaxWindows] /\ seen \subseteq Calls /\ MaxWindows \in Nat /\ CallTypes
  BY TypeParts, SessionAssumption DEF TableTypes
<1>3. windows'[m] = windows[m] + 1 /\ \A n \in Calls \ {m} : windows'[n] = windows[n]
  BY <1>1, <1>2
<1>4. ASSUME NEW c \in Calls PROVE IdSound(c)'
  <2>1. IdSound(c) /\ calls[c].window \in Nat
    BY <1>2 DEF IdsSound, CallTypes, CallType
  <2>2. ASSUME calls[c].of \in Calls, Marked(c) PROVE Marked(c)'
    <3>1. CASE calls[c].of = m
      BY <2>1, <2>2, <3>1, <1>1, <1>2, <1>3 DEF Marked
    <3>2. CASE calls[c].of # m
      BY <2>1, <2>2, <3>2, <1>1, <1>2, <1>3 DEF Marked
    <3> QED BY <3>1, <3>2
  <2> QED BY <2>1, <2>2, <1>1 DEF IdSound, Counts
<1>5. \A c, d \in Calls : Counts(c)' /\ Counts(d)' /\ Same(c, d)' => c = d
  BY <1>1 DEF IdsSound, Counts, Same
<1>6. windows' \in [Calls -> 0..MaxWindows] /\ seen' \subseteq Calls
  BY <1>1, <1>2
<1> QED BY <1>4, <1>5, <1>6 DEF IdsSound

LEMMA IdsCome ==
  ASSUME TypeOK, IdsSound, NEW c \in Calls, NEW m \in Calls, NEW kind \in {"chat", "send", "subscribe"},
         \/ kind = "chat" /\ Dispatch(c, m)
         \/ kind # "chat" /\ m = c /\ Rpc(c, kind)
  PROVE  IdsSound'
<1>1. /\ Comes(c, kind, m) /\ windows' = windows
      /\ IF kind = "chat" THEN seen' = seen \cup {m} ELSE seen' = seen
      /\ kind = "chat" => IF m \in seen THEN calls'[c].at = "duplicate" ELSE calls'[c].at # "duplicate"
      /\ kind = "chat" /\ m # c => calls[m].kind = "chat" /\ calls[m].of = m
      /\ kind # "chat" => calls'[c].at # "duplicate"
  BY ComesEffect
<1>2. CallTypes /\ windows \in [Calls -> 0..MaxWindows] /\ seen \subseteq Calls
  BY TypeParts DEF TableTypes
<1>3. \A d \in Calls \ {c} : calls'[d] = calls[d]
  BY <1>1, <1>2 DEF Comes, CallTypes
<1>4. calls[c].at = "none" /\ calls[c].of = 0 /\ calls'[c].kind = kind /\ calls'[c].of = m /\ calls'[c].at # "none"
      /\ c # 0
  BY <1>1, SessionAssumption DEF Comes, NoCall, Calls
<1>5. ASSUME NEW d \in Calls \ {c}, calls[d].at # "none" PROVE calls[d].of # c
  BY <1>4, <1>5 DEF IdsSound, IdSound
<1>6. ASSUME NEW d \in Calls PROVE IdSound(d)'
  <2>1. CASE d = c
    <3>1. kind = "chat" => calls'[m].kind = "chat" /\ calls'[m].of = m
      BY <1>1, <1>3, <1>4
    <3>2. kind = "chat" /\ calls'[c].at # "duplicate" => Marked(c)'
      BY <1>1, <1>2, <1>4 DEF Comes, Marked
    <3> QED BY <2>1, <3>1, <3>2, <1>1, <1>4 DEF IdSound, Counts, Comes
  <2>2. CASE d # c /\ calls[d].at = "none"
    BY <2>2, <1>3 DEF IdSound, IdsSound
  <2>3. CASE d # c /\ calls[d].at # "none"
    <3>1. IdSound(d) /\ calls'[d] = calls[d] /\ calls[d].of \in Calls \ {c}
      BY <2>3, <1>3, <1>5 DEF IdsSound, IdSound
    <3>2. calls'[calls[d].of] = calls[calls[d].of]
      BY <3>1, <1>3
    <3>3. Marked(d) => Marked(d)'
      BY <3>1, <1>1 DEF Marked
    <3> QED BY <2>3, <3>1, <3>2, <3>3 DEF IdSound, Counts
  <2> QED BY <2>1, <2>2, <2>3
<1>7. ASSUME NEW d \in Calls \ {c}, Counts(c)', Counts(d)', Same(c, d)' PROVE FALSE
  <2>1. Counts(d) /\ calls'[d] = calls[d] /\ calls[d].at # "none" /\ IdSound(d) /\ calls[d].of = m
    BY <1>3, <1>4, <1>7 DEF Counts, IdsSound, Same
  <2>2. kind = "chat" /\ m # c /\ m \notin seen
    BY <2>1, <1>1, <1>5, <1>7 DEF Counts
  <2>3. calls[m].kind = "chat" /\ calls[m].of = m
    BY <2>2, <1>1
  <2>4. calls[d].kind = "chat"
    BY <2>1, <2>3 DEF IdSound
  <2>5. calls[d].window < windows[m]
    BY <2>1, <2>2, <2>4 DEF IdSound, Marked
  <2>6. calls[d].window = windows[m]
    BY <2>1, <2>2, <1>1, <1>7 DEF Same, Comes, Counts
  <2> QED BY <2>5, <2>6, <1>2
<1>8. ASSUME NEW d \in Calls, NEW e \in Calls, Counts(d)', Counts(e)', Same(d, e)'
      PROVE  d = e
  <2>1. Same(e, d)'
    BY <1>8 DEF Same
  <2>2. CASE d = c \/ e = c
    BY <2>1, <2>2, <1>7, <1>8
  <2>3. CASE d # c /\ e # c
    BY <2>3, <1>3, <1>8 DEF IdsSound, Counts, Same
  <2> QED BY <2>2, <2>3
<1> QED BY <1>6, <1>8 DEF IdsSound

(* No turn begins. *)
LEMMA TurnsKept ==
  ASSUME TurnsSound, Keeps, UNCHANGED turns, \A c \in Calls : Ahead(c)' => Ahead(c)
  PROVE  TurnsSound'
  BY DEF TurnsSound, Keeps, Counts, Pending

(* Call d begins its turn. *)
LEMMA TurnBegun ==
  ASSUME TypeOK, TurnsSound, Keeps, NEW d \in Calls,
         turns' = [turns EXCEPT ![d] = @ + 1],
         Ahead(d), ~Ahead(d)', \A c \in Calls : Ahead(c)' => Ahead(c)
  PROVE  TurnsSound'
<1>1. turns \in [Calls -> Nat]
  BY TypeParts DEF TableTypes
<1>2. Counts(d) /\ turns[d] = 0
  BY DEF Ahead, TurnsSound, Counts
<1>3. turns'[d] = 1 /\ \A c \in Calls \ {d} : turns'[c] = turns[c]
  BY <1>1, <1>2
<1>4. \A c \in Calls : Counts(c) => Counts(c)'
  BY DEF Counts, Keeps
<1> QED BY <1>2, <1>3, <1>4 DEF TurnsSound

LEMMA TurnsCome ==
  ASSUME TypeOK, QueuesSound, TurnsSound,
         NEW c \in Calls, NEW m \in Calls, NEW kind \in {"chat", "send", "subscribe"},
         \/ kind = "chat" /\ Dispatch(c, m)
         \/ kind # "chat" /\ m = c /\ Rpc(c, kind)
  PROVE  TurnsSound'
<1>1. Comes(c, kind, m) /\ UNCHANGED <<turn, turns>>
  BY ComesEffect
<1>2. CallTypes /\ turns \in [Calls -> Nat]
  BY TypeParts DEF TableTypes
<1>3. \A d \in Calls \ {c} : calls'[d] = calls[d]
  BY <1>1, <1>2 DEF Comes, CallTypes
<1>4. turns[c] = 0
  <2>1. ~Counts(c)
    BY <1>1 DEF Comes, NoCall, Counts
  <2> QED BY <2>1, <1>2 DEF TurnsSound
<1> SUFFICES ASSUME NEW d \in Calls
             PROVE  turns'[d] <= 1 /\ (turns'[d] > 0 => Counts(d)') /\ (Ahead(d)' => turns'[d] = 0)
  BY DEF TurnsSound
<1>5. CASE d = c
  BY <1>1, <1>4, <1>5
<1>6. CASE d # c
  BY <1>1, <1>3, <1>6 DEF TurnsSound, Counts, Ahead
<1> QED BY <1>5, <1>6

------------------------------------------------------------------------------
(* An event is logged: its call has its turn at once, or is queued. *)
LEMMA IdleLogged ==
  ASSUME TypeOK, QueuesSound, IdsSound, TurnsSound, NEW c \in Calls, NEW o \in Objects,
         calls[c].at = "logging", calls[c].on = o, LoggedIdle(c, o)
  PROVE  CallTypes' /\ Keeps /\ QueuesSound' /\ TurnsSound'
<1>1. CallTypes /\ ObjectTypes
  BY TypeParts
<1>2. /\ \A d \in Calls \ {c} : calls'[d] = calls[d]
      /\ calls'[c] = [calls[c] EXCEPT !.at = "waiting"]
  BY <1>1 DEF LoggedIdle, CallTypes
<1>3. /\ calls'[c] \in CallType /\ calls'[c].at = "waiting" /\ calls'[c].on = o
      /\ calls'[c].kind = calls[c].kind /\ calls'[c].of = calls[c].of /\ calls'[c].window = calls[c].window
  BY <1>1, <1>2 DEF CallTypes, CallType, Pending
<1>4. CallTypes'
  BY <1>1, <1>3 DEF CallTypes, LoggedIdle
<1>5. Keeps
  BY <1>2, <1>3 DEF Keeps, Pending, IdsSound, IdSound, AtSession
<1>6. /\ turn'[o].call = c /\ turn'[o] # NoTurn /\ queue'[o] = <<>>
      /\ \A p \in Objects \ {o} : turn'[p] = turn[p] /\ queue'[p] = queue[p]
      /\ turn[o].call = 0
  <2>1. turn'[o] = [at |-> "working", call |-> c, aborted |-> FALSE]
    BY <1>1 DEF LoggedIdle, ObjectTypes
  <2>2. turn'[o].at # NoTurn.at
    BY <2>1 DEF NoTurn
  <2> QED BY <1>1, <2>1, <2>2 DEF LoggedIdle, ObjectTypes, NoTurn
<1>7. ASSUME NEW p \in Objects PROVE Queued(p)' /\ Turned(p)'
  <2>1. CASE p = o
    BY <2>1, <1>3, <1>6 DEF Queued, Turned
  <2>2. CASE p # o
    <3>1. Queued(p) /\ Turned(p)
      BY DEF QueuesSound
    <3>2. \A i \in 1..Len(queue[p]) : queue[p][i] \in Calls
      BY <1>1 DEF ObjectTypes
    <3>3. turn[p] # NoTurn => turn[p].call \in Calls
      BY <1>1, TurnTyped DEF ObjectTypes
    <3>4. turn'[p] = turn[p] /\ queue'[p] = queue[p]
      BY <2>2, <1>6
    <3>5. \A d \in Calls : calls[d].at = "waiting" => calls'[d] = calls[d]
      BY <1>2
    <3> QED BY <3>1, <3>2, <3>3, <3>4, <3>5 DEF Queued, Turned
  <2> QED BY <2>1, <2>2
<1>8. ASSUME NEW d \in Calls PROVE Placed(d)'
  <2>1. CASE d = c
    BY <2>1, <1>3, <1>6 DEF Placed
  <2>2. CASE d # c
    <3>1. Placed(d) /\ calls'[d] = calls[d]
      BY <2>2, <1>2 DEF QueuesSound
    <3>2. calls[d].at = "waiting" /\ calls[d].on = o => FALSE
      <4>1. queue[o] = <<>>
        BY DEF LoggedIdle
      <4>2. d # 0
        BY SessionAssumption DEF Calls
      <4> QED BY <3>1, <4>1, <4>2, <1>6 DEF Placed
    <3>3. calls[d].on \in Objects \ {o} =>
             turn'[calls[d].on] = turn[calls[d].on] /\ queue'[calls[d].on] = queue[calls[d].on]
      BY <1>6
    <3> QED BY <3>1, <3>2, <3>3 DEF Placed, AtSession
  <2> QED BY <2>1, <2>2
<1>9. QueuesSound'
  BY <1>7, <1>8 DEF QueuesSound
<1>10. TurnsSound'
  <2>1. turns' = [turns EXCEPT ![c] = @ + 1]
    BY DEF LoggedIdle
  <2>2. Ahead(c) /\ ~Ahead(c)'
    BY <1>3, <1>6 DEF Ahead
  <2>3. ASSUME NEW d \in Calls, Ahead(d)' PROVE Ahead(d)
    <3>1. d # c /\ calls'[d] = calls[d]
      BY <2>2, <2>3, <1>2
    <3>2. Placed(d) /\ d # 0
      BY SessionAssumption DEF QueuesSound, Calls
    <3> QED BY <3>1, <3>2, <2>3, <1>6 DEF Ahead, Placed, AtSession
  <2> QED BY <2>1, <2>2, <2>3, <1>5, TurnBegun
<1> QED BY <1>4, <1>5, <1>9, <1>10

LEMMA BusyLogged ==
  ASSUME TypeOK, QueuesSound, IdsSound, TurnsSound, NEW c \in Calls, NEW o \in Objects,
         calls[c].at = "logging", calls[c].on = o, LoggedBusy(c, o)
  PROVE  CallTypes' /\ Keeps /\ QueuesSound' /\ TurnsSound'
<1>1. CallTypes /\ ObjectTypes
  BY TypeParts
<1> DEFINE kept == Kept(queue[o])
           dropped(d) == queue[o] # <<>> /\ kept = Tail(queue[o]) /\ kept # queue[o] /\ d = Head(queue[o])
<1>2. /\ kept \in Seq(Calls) /\ queue[o] \in Seq(Calls)
      /\ kept = queue[o] \/ (queue[o] # <<>> /\ kept = Tail(queue[o]))
  BY <1>1, RoomMade DEF ObjectTypes
<1>3. queue[o] # <<>> => Tail(queue[o]) # queue[o]
  <2>1. queue[o] # <<>> => Len(Tail(queue[o])) # Len(queue[o])
    BY <1>2
  <2> QED BY <2>1
<1>4. /\ calls'[c] = [calls[c] EXCEPT !.at = "waiting"]
      /\ \A d \in Calls \ {c} : calls'[d] = IF dropped(d) THEN Settle(calls[d], "lost") ELSE calls[d]
      /\ calls' = [d \in Calls |-> calls'[d]]
  BY <1>1, <1>3 DEF LoggedBusy, CallTypes
<1>5. \A d \in Calls : dropped(d) => calls[d].at = "waiting" /\ calls[d].on = o /\ d # c
  <2>1. TAKE d \in Calls
  <2>2. Queued(o)
    BY DEF QueuesSound
  <2>3. queue[o] # <<>> => 1 \in 1..Len(queue[o]) /\ Head(queue[o]) = queue[o][1]
    BY <1>2
  <2> QED BY <2>2, <2>3 DEF Queued
<1>6. \A i \in 1..Len(queue[o]) : queue[o][i] # c
  BY DEF QueuesSound, Queued
<1>7. \A i \in 1..Len(kept) : \E j \in 1..Len(queue[o]) : kept[i] = queue[o][j] /\ ~dropped(kept[i])
  <2>1. CASE kept = queue[o]
    BY <2>1
  <2>2. CASE queue[o] # <<>> /\ kept = Tail(queue[o])
    <3>1. TAKE i \in 1..Len(kept)
    <3>2. i + 1 \in 1..Len(queue[o]) /\ kept[i] = queue[o][i + 1] /\ 1 \in 1..Len(queue[o])
          /\ Head(queue[o]) = queue[o][1] /\ i + 1 # 1
      BY <1>2, <2>2
    <3>3. queue[o][i + 1] # queue[o][1]
      BY <3>2 DEF QueuesSound, Queued
    <3> QED BY <3>2, <3>3
  <2> QED BY <1>2, <2>1, <2>2
<1>8. \A d \in Calls : ~dropped(d) => \A j \in 1..Len(queue[o]) : queue[o][j] = d => \E i \in 1..Len(kept) : kept[i] = d
  <2>1. CASE kept = queue[o]
    BY <2>1
  <2>2. CASE queue[o] # <<>> /\ kept = Tail(queue[o])
    <3>1. TAKE d \in Calls
    <3>2. HAVE ~dropped(d)
    <3>3. TAKE j \in 1..Len(queue[o])
    <3>4. HAVE queue[o][j] = d
    <3>5. j # 1
      BY <1>2, <1>3, <2>2, <3>2, <3>4
    <3>6. j - 1 \in 1..Len(kept) /\ kept[j - 1] = d
      BY <1>2, <2>2, <3>4, <3>5
    <3> QED BY <3>6
  <2> QED BY <1>2, <2>1, <2>2
<1>9. \A i, j \in 1..Len(kept) : kept[i] = kept[j] => i = j
  <2>1. \A i, j \in 1..Len(queue[o]) : queue[o][i] = queue[o][j] => i = j
    BY DEF QueuesSound, Queued
  <2>2. CASE kept = queue[o]
    BY <2>1, <2>2
  <2>3. CASE queue[o] # <<>> /\ kept = Tail(queue[o])
    <3>1. SUFFICES ASSUME NEW i \in 1..Len(kept), NEW j \in 1..Len(kept), kept[i] = kept[j]
                   PROVE  i = j
      OBVIOUS
    <3>2. i + 1 \in 1..Len(queue[o]) /\ kept[i] = queue[o][i + 1]
          /\ j + 1 \in 1..Len(queue[o]) /\ kept[j] = queue[o][j + 1]
      BY <1>2, <2>3
    <3>3. i + 1 = j + 1
      BY <2>1, <3>1, <3>2
    <3> QED BY <1>2, <3>3
  <2> QED BY <1>2, <2>2, <2>3
<1>10. /\ queue'[o] = Append(kept, c) /\ turn' = turn /\ turns' = turns /\ turn[o] # NoTurn
       /\ \A p \in Objects \ {o} : queue'[p] = queue[p]
  BY <1>1 DEF LoggedBusy, ObjectTypes
<1>11. /\ Len(queue'[o]) = Len(kept) + 1 /\ Len(kept) \in Nat
       /\ queue'[o][Len(kept) + 1] = c
       /\ \A i \in 1..Len(kept) : queue'[o][i] = kept[i] /\ i # Len(kept) + 1 /\ i \in 1..Len(kept) + 1
       /\ \A i \in 1..Len(kept) + 1 : i \in 1..Len(kept) \/ i = Len(kept) + 1
  <2> HIDE DEF kept
  <2> QED BY <1>2, <1>10
<1> HIDE DEF kept, dropped
<1>12. /\ calls'[c] \in CallType /\ calls'[c].at = "waiting" /\ calls'[c].on = o
       /\ calls'[c].kind = calls[c].kind /\ calls'[c].of = calls[c].of /\ calls'[c].window = calls[c].window
  BY <1>1, <1>4 DEF CallTypes, CallType, Pending
<1>13. \A d \in Calls : dropped(d) =>
         /\ calls'[d] \in CallType /\ calls'[d].at = "lost"
         /\ calls'[d].kind = calls[d].kind /\ calls'[d].of = calls[d].of /\ calls'[d].window = calls[d].window
  <2>1. TAKE d \in Calls
  <2>2. HAVE dropped(d)
  <2>3. calls'[d] = [calls[d] EXCEPT !.at = "lost", !.on = 0]
    BY <2>2, <1>4, <1>5 DEF Settle
  <2> QED BY <2>3, <1>1 DEF CallTypes, CallType, Settled
<1>14. CallTypes'
  BY <1>1, <1>4, <1>12, <1>13 DEF CallTypes
<1>15. Keeps
  <2>1. SUFFICES ASSUME NEW d \in Calls
                 PROVE  /\ calls'[d].kind = calls[d].kind /\ calls'[d].of = calls[d].of /\ calls'[d].window = calls[d].window
                        /\ \/ calls'[d] = calls[d]
                           \/ /\ calls[d].at \in Pending /\ calls'[d].at \notin {"none", "duplicate"}
                              /\ calls[d].kind = "subscribe" => calls'[d].at \notin {"logging", "waiting"}
                              /\ calls'[d].at \in AtSession => calls'[d].on = calls[d].on
    BY DEF Keeps
  <2>2. CASE d = c
    BY <2>2, <1>12 DEF Pending, IdsSound, IdSound, AtSession
  <2>3. CASE d # c /\ dropped(d)
    BY <2>3, <1>5, <1>13 DEF Pending, AtSession
  <2>4. CASE d # c /\ ~dropped(d)
    BY <2>4, <1>4
  <2> QED BY <2>2, <2>3, <2>4
<1>16. ASSUME NEW p \in Objects PROVE Queued(p)' /\ Turned(p)'
  <2>1. Queued(p) /\ Turned(p) /\ turn'[p] = turn[p] /\ Queued(o) /\ Turned(o)
    BY <1>10 DEF QueuesSound
  <2>2. turn[p] # NoTurn => turn[p].call \in Calls
    BY <1>1, TurnTyped DEF ObjectTypes
  <2>3. turn[p] # NoTurn => calls'[turn[p].call] = calls[turn[p].call]
    <3>1. SUFFICES ASSUME turn[p] # NoTurn PROVE calls'[turn[p].call] = calls[turn[p].call]
      OBVIOUS
    <3>2. calls[turn[p].call].at = "waiting" /\ calls[turn[p].call].on = p
      BY <2>1, <3>1 DEF Turned
    <3>3. dropped(turn[p].call) => p = o
      BY <2>2, <3>1, <3>2, <1>5
    <3>4. dropped(turn[o].call) => FALSE
      <4>1. queue[o] # <<>> => 1 \in 1..Len(queue[o]) /\ Head(queue[o]) = queue[o][1]
        BY <1>2
      <4> QED BY <4>1, <2>1 DEF Queued, dropped
    <3> QED BY <2>2, <3>1, <3>2, <3>3, <3>4, <1>4
  <2>4. CASE p = o
    <3>1. \A i \in 1..Len(kept) : kept[i] \in Calls /\ kept[i] # c
      BY <1>2, <1>6, <1>7
    <3>2. \A i \in 1..Len(kept) : calls'[kept[i]] = calls[kept[i]] /\ calls[kept[i]].at = "waiting"
                                   /\ calls[kept[i]].on = o /\ turn[o].call # kept[i]
      BY <2>1, <3>1, <1>4, <1>7 DEF Queued
    <3>3. turn[o].call # c
      BY <2>1, <1>10 DEF Turned
    <3>4. \A i \in 1..Len(queue'[o]) :
            /\ calls'[queue'[o][i]].at = "waiting" /\ calls'[queue'[o][i]].on = o
            /\ turn[o].call # queue'[o][i]
            /\ \A j \in 1..Len(queue'[o]) : queue'[o][j] = queue'[o][i] => j = i
      BY <3>1, <3>2, <3>3, <1>9, <1>11, <1>12
    <3> QED BY <2>1, <2>3, <2>4, <3>4, <1>10 DEF Queued, Turned
  <2>5. CASE p # o
    <3>1. queue'[p] = queue[p] /\ \A i \in 1..Len(queue[p]) : queue[p][i] \in Calls
      BY <2>5, <1>1, <1>10 DEF ObjectTypes
    <3>2. \A i \in 1..Len(queue[p]) : calls'[queue[p][i]] = calls[queue[p][i]]
      BY <2>1, <2>5, <3>1, <1>4, <1>5 DEF Queued
    <3> QED BY <2>1, <2>3, <3>1, <3>2, <1>10 DEF Queued, Turned
  <2> QED BY <2>4, <2>5
<1>17. ASSUME NEW d \in Calls PROVE Placed(d)'
  <2>1. CASE d = c
    <3>1. Len(kept) + 1 \in 1..Len(queue'[o])
      BY <1>11
    <3> QED BY <2>1, <3>1, <1>11, <1>12 DEF Placed
  <2>2. CASE d # c /\ dropped(d)
    BY <2>2, <1>13 DEF Placed, AtSession
  <2>3. CASE d # c /\ ~dropped(d)
    <3>1. Placed(d) /\ calls'[d] = calls[d]
      BY <2>3, <1>4 DEF QueuesSound
    <3>2. CASE calls[d].on = o
      <4>1. calls[d].at = "waiting" => turn[o].call = d \/ \E i \in 1..Len(kept) : kept[i] = d
        BY <2>3, <3>1, <3>2, <1>8 DEF Placed
      <4>2. (\E i \in 1..Len(kept) : kept[i] = d) => \E i \in 1..Len(queue'[o]) : queue'[o][i] = d
        BY <1>11
      <4> QED BY <3>1, <3>2, <4>1, <4>2, <1>10 DEF Placed
    <3>3. CASE calls[d].on # o
      BY <3>1, <3>3, <1>10 DEF Placed, AtSession
    <3> QED BY <3>2, <3>3
  <2> QED BY <2>1, <2>2, <2>3
<1>18. QueuesSound'
  BY <1>16, <1>17 DEF QueuesSound
<1>19. TurnsSound'
  <2>1. ASSUME NEW d \in Calls, Ahead(d)' PROVE Ahead(d)
    <3>1. CASE d = c
      BY <3>1 DEF Ahead
    <3>2. CASE d # c
      BY <2>1, <3>2, <1>4, <1>10, <1>13 DEF Ahead
    <3> QED BY <3>1, <3>2
  <2> QED BY <2>1, <1>10, <1>15, TurnsKept
<1> QED BY <1>14, <1>15, <1>18, <1>19

(* A turn ends: the next call of the queue has its turn, or nobody. *)
LEMMA TurnPassed ==
  ASSUME TypeOK, QueuesSound, IdsSound, TurnsSound, NEW o \in Objects,
         NEW outcome \in {"answered", "rejected"}, TurnPasses(o, outcome)
  PROVE  CallTypes' /\ ObjectTypes' /\ Keeps /\ QueuesSound' /\ TurnsSound'
<1>1. CallTypes /\ ObjectTypes
  BY TypeParts
<1>2. PICK d \in Calls : d = turn[o].call
  BY DEF TurnPasses
<1>3. turn[o] # NoTurn /\ calls[d].at = "waiting" /\ calls[d].on = o
  <2>1. turn[o] # NoTurn
    BY DEF TurnPasses, TurnsAt, NoTurn
  <2> QED BY <2>1, <1>2 DEF QueuesSound, Turned
<1>4. /\ \A e \in Calls \ {d} : calls'[e] = calls[e]
      /\ calls'[d] = [calls[d] EXCEPT !.at = outcome, !.on = 0]
      /\ calls' = [calls EXCEPT ![d] = calls'[d]]
  BY <1>1, <1>2 DEF TurnPasses, CallTypes, Settle
<1>5. /\ calls'[d] \in CallType /\ calls'[d].at = outcome
      /\ calls'[d].kind = calls[d].kind /\ calls'[d].of = calls[d].of /\ calls'[d].window = calls[d].window
  <2>1. outcome \in Pending \cup Settled /\ calls[d] \in CallType
    BY <1>1 DEF Settled, CallTypes
  <2> QED BY <1>4, <2>1 DEF CallType
<1>6. CallTypes'
  BY <1>1, <1>4, <1>5 DEF CallTypes
<1>7. Keeps
  BY <1>3, <1>4, <1>5 DEF Keeps, Pending, AtSession
<1>8. /\ queue[o] \in Seq(Calls) /\ Len(queue[o]) <= Depth
      /\ \A i \in 1..Len(queue[o]) : queue[o][i] \in Calls
  BY <1>1 DEF ObjectTypes
<1>9. CASE queue[o] = <<>>
  <2>1. /\ queue' = queue /\ turn' = [turn EXCEPT ![o] = NoTurn] /\ UNCHANGED turns
        /\ running' = [running EXCEPT ![o] = FALSE]
    BY <1>1, <1>9 DEF TurnPasses, ObjectTypes
  <2>2. turn'[o] = NoTurn /\ \A p \in Objects \ {o} : turn'[p] = turn[p]
    BY <1>1, <2>1 DEF ObjectTypes
  <2>3. turn' \in [Objects -> TurnType] /\ running' \in [Objects -> BOOLEAN]
    BY <1>1, <2>1 DEF ObjectTypes, TurnType
  <2>4. ASSUME NEW p \in Objects PROVE Queued(p)' /\ Turned(p)'
    <3>1. Queued(p) /\ Turned(p)
      BY DEF QueuesSound
    <3>2. CASE p = o
      BY <3>2, <1>9, <2>1, <2>2 DEF Queued, Turned
    <3>3. CASE p # o
      <4>1. \A i \in 1..Len(queue[p]) : queue[p][i] \in Calls \ {d}
        BY <3>1, <3>3, <1>1, <1>3 DEF ObjectTypes, Queued
      <4>2. turn[p] # NoTurn => turn[p].call \in Calls \ {d}
        BY <3>1, <3>3, <1>1, <1>3, TurnTyped DEF ObjectTypes, Turned
      <4> QED BY <3>1, <3>3, <4>1, <4>2, <1>4, <2>1, <2>2 DEF Queued, Turned
    <3> QED BY <3>2, <3>3
  <2>5. ASSUME NEW e \in Calls PROVE Placed(e)' /\ (Ahead(e)' => Ahead(e))
    <3>1. Placed(e) /\ turn[o].call = d /\ NoTurn.call = 0 /\ e # 0
      BY <1>2, SessionAssumption DEF QueuesSound, NoTurn, Calls
    <3>2. CASE e = d
      BY <3>2, <1>5 DEF Placed, Ahead, AtSession
    <3>3. CASE e # d
      <4>1. calls'[e] = calls[e]
        BY <3>3, <1>4
      <4>2. calls[e].at = "waiting" => calls[e].on # o
        BY <3>1, <3>3, <1>9 DEF Placed
      <4> QED BY <3>1, <4>1, <4>2, <2>1, <2>2 DEF Placed, Ahead, AtSession
    <3> QED BY <3>2, <3>3
  <2>6. QueuesSound'
    BY <2>4, <2>5 DEF QueuesSound
  <2>7. TurnsSound'
    BY <2>1, <2>5, <1>7, TurnsKept
  <2>8. ObjectTypes'
    <3>1. stopped' = stopped
      BY DEF TurnPasses
    <3> QED BY <1>1, <2>1, <2>3, <3>1 DEF ObjectTypes
  <2> QED BY <2>6, <2>7, <2>8, <1>6, <1>7
<1>10. CASE queue[o] # <<>>
  <2>1. PICK n \in Calls : n = Head(queue[o]) /\ n = queue[o][1]
    BY <1>8, <1>10
  <2>2. /\ queue' = [queue EXCEPT ![o] = Tail(queue[o])]
        /\ turn' = [turn EXCEPT ![o] = [at |-> "working", call |-> n, aborted |-> FALSE]]
        /\ turns' = [turns EXCEPT ![n] = @ + 1]
        /\ running' = [running EXCEPT ![o] = TRUE]
    BY <1>10, <2>1 DEF TurnPasses
  <2>3. /\ 1 \in 1..Len(queue[o])
        /\ \A i \in 1..Len(Tail(queue[o])) : i + 1 \in 1..Len(queue[o]) /\ Tail(queue[o])[i] = queue[o][i + 1]
        /\ \A j \in 1..Len(queue[o]) : j # 1 => j - 1 \in 1..Len(Tail(queue[o])) /\ Tail(queue[o])[j - 1] = queue[o][j]
        /\ Tail(queue[o]) \in Seq(Calls) /\ Len(Tail(queue[o])) <= Depth
    BY <1>8, <1>10, SessionAssumption
  <2>4. /\ queue'[o] = Tail(queue[o])
        /\ turn'[o] = [at |-> "working", call |-> n, aborted |-> FALSE]
        /\ \A p \in Objects \ {o} : turn'[p] = turn[p] /\ queue'[p] = queue[p]
    BY <1>1, <2>2 DEF ObjectTypes
  <2>5. turn'[o] # NoTurn /\ turn'[o].call = n
    <3>1. turn'[o].at # NoTurn.at
      BY <2>4 DEF NoTurn
    <3> QED BY <2>4, <3>1
  <2>6. Queued(o) /\ Turned(o)
    BY DEF QueuesSound
  <2>7. calls[n].at = "waiting" /\ calls[n].on = o /\ n # d /\ calls'[n] = calls[n]
    BY <1>2, <1>4, <2>1, <2>3, <2>6 DEF Queued
  <2>8. ASSUME NEW i \in 1..Len(queue'[o])
        PROVE  /\ queue'[o][i] \in Calls \ {d} /\ queue'[o][i] # n
               /\ calls[queue'[o][i]].at = "waiting" /\ calls[queue'[o][i]].on = o
               /\ \A j \in 1..Len(queue'[o]) : queue'[o][j] = queue'[o][i] => j = i
    <3>1. i + 1 \in 1..Len(queue[o]) /\ queue'[o][i] = queue[o][i + 1] /\ i \in Nat
      BY <2>3, <2>4, <2>8
    <3>2. queue'[o][i] \in Calls \ {d} /\ calls[queue'[o][i]].at = "waiting" /\ calls[queue'[o][i]].on = o
      BY <3>1, <1>2, <1>8, <2>6 DEF Queued
    <3>3. queue'[o][i] # n
      <4>1. i + 1 # 1
        BY <3>1
      <4> QED BY <3>1, <4>1, <2>1, <2>3, <2>6 DEF Queued
    <3>4. ASSUME NEW j \in 1..Len(queue'[o]), queue'[o][j] = queue'[o][i] PROVE j = i
      <4>1. j + 1 \in 1..Len(queue[o]) /\ queue'[o][j] = queue[o][j + 1] /\ j \in Nat
        BY <2>3, <2>4, <3>4
      <4>2. j + 1 = i + 1
        BY <3>1, <3>4, <4>1, <2>6 DEF Queued
      <4> QED BY <3>1, <4>1, <4>2
    <3> QED BY <3>2, <3>3, <3>4
  <2>9. ASSUME NEW p \in Objects PROVE Queued(p)' /\ Turned(p)'
    <3>1. Queued(p) /\ Turned(p)
      BY DEF QueuesSound
    <3>2. CASE p = o
      BY <3>2, <1>4, <2>5, <2>7, <2>8 DEF Queued, Turned
    <3>3. CASE p # o
      <4>1. \A i \in 1..Len(queue[p]) : queue[p][i] \in Calls \ {d}
        BY <3>1, <3>3, <1>1, <1>3 DEF ObjectTypes, Queued
      <4>2. turn[p] # NoTurn => turn[p].call \in Calls \ {d}
        BY <3>1, <3>3, <1>1, <1>3, TurnTyped DEF ObjectTypes, Turned
      <4>3. turn'[p] = turn[p] /\ queue'[p] = queue[p]
        BY <3>3, <2>4
      <4> QED BY <3>1, <4>1, <4>2, <4>3, <1>4 DEF Queued, Turned
    <3> QED BY <3>2, <3>3
  <2>10. ASSUME NEW e \in Calls PROVE Placed(e)' /\ (Ahead(e)' => Ahead(e))
    <3>1. Placed(e) /\ turn[o].call = d
      BY <1>2 DEF QueuesSound
    <3>2. CASE e = d
      BY <3>2, <1>5 DEF Placed, Ahead, AtSession
    <3>3. CASE e # d /\ calls[e].on = o
      <4>1. calls'[e] = calls[e]
        BY <3>3, <1>4
      <4>2. calls[e].at = "waiting" => e = n \/ \E j \in 1..Len(queue[o]) : j # 1 /\ queue[o][j] = e
        BY <3>1, <3>3, <2>1 DEF Placed
      <4>3. calls[e].at = "waiting" => e = n \/ \E j \in 1..Len(queue'[o]) : queue'[o][j] = e
        BY <4>2, <2>3, <2>4
      <4> QED BY <3>1, <3>3, <4>1, <4>3, <2>5 DEF Placed, Ahead
    <3>4. CASE e # d /\ calls[e].on # o
      <4>1. calls'[e] = calls[e]
        BY <3>4, <1>4
      <4>2. calls[e].on \in Objects => turn'[calls[e].on] = turn[calls[e].on] /\ queue'[calls[e].on] = queue[calls[e].on]
        BY <3>4, <2>4
      <4> QED BY <3>1, <4>1, <4>2 DEF Placed, Ahead, AtSession
    <3> QED BY <3>2, <3>3, <3>4
  <2>11. QueuesSound'
    BY <2>9, <2>10 DEF QueuesSound
  <2>12. Ahead(n) /\ ~Ahead(n)'
    BY <1>2, <2>5, <2>7 DEF Ahead
  <2>13. TurnsSound'
    BY <2>2, <2>10, <2>12, <1>7, TurnBegun
  <2>14. ObjectTypes'
    <3>1. stopped' = stopped
      BY DEF TurnPasses
    <3>2. [at |-> "working", call |-> n, aborted |-> FALSE] \in TurnType
      BY DEF TurnType, TurnsAt
    <3>3. turn' \in [Objects -> TurnType] /\ running' \in [Objects -> BOOLEAN]
      BY <1>1, <2>2, <3>2 DEF ObjectTypes
    <3>4. queue' \in [Objects -> Seq(Calls)] /\ \A p \in Objects : Len(queue'[p]) <= Depth
      BY <1>1, <2>2, <2>3, <2>4 DEF ObjectTypes
    <3> QED BY <1>1, <3>1, <3>3, <3>4 DEF ObjectTypes
  <2> QED BY <2>11, <2>13, <2>14, <1>6, <1>7
<1> QED BY <1>9, <1>10

(* An abort drops what is queued. *)
LEMMA Aborted ==
  ASSUME TypeOK, QueuesSound, IdsSound, TurnsSound, NEW o \in Objects, AbortSession(o),
         stopped' \in [Objects -> BOOLEAN], UNCHANGED turns
  PROVE  CallTypes' /\ ObjectTypes' /\ Keeps /\ QueuesSound' /\ TurnsSound'
<1>1. CallTypes /\ ObjectTypes
  BY TypeParts
<1> DEFINE dropped(d) == calls[d].at = "waiting" /\ calls[d].on = o /\ turn[o].call # d
<1>2. /\ \A d \in Calls : calls'[d] = IF dropped(d) THEN Settle(calls[d], "lost") ELSE calls[d]
      /\ calls' = [d \in Calls |-> calls'[d]]
      /\ queue' = [queue EXCEPT ![o] = <<>>]
      /\ turn'[o].call = turn[o].call /\ turn'[o].at = turn[o].at
      /\ turn' = [turn EXCEPT ![o] = turn'[o]]
      /\ turn'[o] \in TurnType
      /\ running' = [running EXCEPT ![o] = FALSE]
  BY AbortEffect
<1>3. \A d \in Calls : dropped(d) =>
         /\ calls'[d] \in CallType /\ calls'[d].at = "lost"
         /\ calls'[d].kind = calls[d].kind /\ calls'[d].of = calls[d].of /\ calls'[d].window = calls[d].window
  <2>1. TAKE d \in Calls
  <2>2. HAVE dropped(d)
  <2>3. calls'[d] = [calls[d] EXCEPT !.at = "lost", !.on = 0]
    BY <2>2, <1>2 DEF Settle
  <2>4. calls[d] \in CallType /\ "lost" \in Pending \cup Settled
    BY <1>1 DEF CallTypes, Settled
  <2> HIDE DEF dropped
  <2> QED BY <2>3, <2>4 DEF CallType
<1>4. \A d \in Calls : ~dropped(d) => calls'[d] = calls[d]
  BY <1>2
<1>5. CallTypes'
  <2> HIDE DEF dropped
  <2>1. \A d \in Calls : calls'[d] \in CallType
    BY <1>1, <1>3, <1>4 DEF CallTypes
  <2> QED BY <2>1, <1>2 DEF CallTypes
<1>6. Keeps
  <2>1. \A d \in Calls : dropped(d) => calls[d].at \in Pending
    BY DEF Pending
  <2> HIDE DEF dropped
  <2> QED BY <1>3, <1>4, <2>1 DEF Keeps, AtSession
<1>7. ObjectTypes'
  <2>1. queue' \in [Objects -> Seq(Calls)] /\ turn' \in [Objects -> TurnType] /\ running' \in [Objects -> BOOLEAN]
    <3>1. queue' \in [Objects -> Seq(Calls)]
      BY <1>1, <1>2 DEF ObjectTypes
    <3>2. turn' \in [Objects -> TurnType]
      <4>1. PICK t \in TurnType : t = turn'[o]
        BY <1>2
      <4>2. turn' = [turn EXCEPT ![o] = t]
        BY <1>2, <4>1, Zenon
      <4> QED BY <1>1, <4>2 DEF ObjectTypes
    <3>3. running' \in [Objects -> BOOLEAN]
      BY <1>1, <1>2 DEF ObjectTypes
    <3> QED BY <3>1, <3>2, <3>3
  <2>2. \A p \in Objects : Len(queue'[p]) <= Depth
    BY <1>1, <1>2, SessionAssumption DEF ObjectTypes
  <2> QED BY <1>1, <2>1, <2>2 DEF ObjectTypes
<1>8. /\ queue'[o] = <<>> /\ \A p \in Objects \ {o} : queue'[p] = queue[p] /\ turn'[p] = turn[p]
      /\ \A p \in Objects : turn'[p].call = turn[p].call /\ (turn'[p] = NoTurn <=> turn[p] = NoTurn)
  <2>1. queue'[o] = <<>> /\ \A p \in Objects \ {o} : queue'[p] = queue[p] /\ turn'[p] = turn[p]
    BY <1>1, <1>2 DEF ObjectTypes
  <2>2. turn'[o] = NoTurn <=> turn[o] = NoTurn
    <3>1. turn[o] \in TurnType
      BY <1>1 DEF ObjectTypes
    <3>2. turn[o] = NoTurn <=> turn[o].at = "idle"
      BY <3>1, TurnTyped DEF TurnsAt
    <3>3. turn'[o] = NoTurn <=> turn'[o].at = "idle"
      BY <1>2, TurnTyped DEF TurnsAt
    <3> QED BY <3>2, <3>3, <1>2
  <2> QED BY <2>1, <2>2, <1>2
<1>9. ASSUME NEW p \in Objects PROVE Queued(p)' /\ Turned(p)'
  <2>1. Queued(p) /\ Turned(p)
    BY DEF QueuesSound
  <2>2. turn[p] # NoTurn => turn[p].call \in Calls /\ calls'[turn[p].call] = calls[turn[p].call]
    BY <2>1, <1>1, <1>4, TurnTyped DEF ObjectTypes, Turned
  <2>3. CASE p = o
    BY <2>1, <2>2, <2>3, <1>8 DEF Queued, Turned
  <2>4. CASE p # o
    <3>1. \A i \in 1..Len(queue[p]) : queue[p][i] \in Calls
      BY <1>1 DEF ObjectTypes
    <3>2. \A i \in 1..Len(queue[p]) : calls'[queue[p][i]] = calls[queue[p][i]]
      BY <2>1, <2>4, <3>1, <1>4 DEF Queued
    <3>3. queue'[p] = queue[p] /\ turn'[p] = turn[p]
      BY <2>4, <1>8
    <3> QED BY <2>1, <2>2, <3>2, <3>3 DEF Queued, Turned
  <2> QED BY <2>3, <2>4
<1>10. ASSUME NEW d \in Calls PROVE Placed(d)' /\ (Ahead(d)' => Ahead(d))
  <2>1. Placed(d)
    BY DEF QueuesSound
  <2>2. CASE dropped(d)
    BY <2>2, <1>3 DEF Placed, Ahead, AtSession
  <2>3. CASE ~dropped(d) /\ calls[d].on = o
    BY <2>1, <2>3, <1>4, <1>8 DEF Placed, Ahead
  <2>4. CASE calls[d].on # o
    <3>1. calls'[d] = calls[d]
      BY <2>4, <1>4
    <3> HIDE DEF dropped
    <3> QED BY <2>1, <2>4, <3>1, <1>8 DEF Placed, Ahead, AtSession
  <2> QED BY <2>2, <2>3, <2>4
<1>11. QueuesSound'
  BY <1>9, <1>10 DEF QueuesSound
<1>12. TurnsSound'
  BY <1>6, <1>10, TurnsKept
<1> QED BY <1>5, <1>6, <1>7, <1>11, <1>12

(* Only the place of a turn changes. *)
LEMMA SameTurns ==
  ASSUME TypeOK, QueuesSound, IdsSound, TurnsSound, UNCHANGED <<calls, queue, seen, windows, turns>>,
         \A o \in Objects : turn'[o].call = turn[o].call /\ (turn'[o] = NoTurn <=> turn[o] = NoTurn)
  PROVE  QueuesSound' /\ IdsSound' /\ TurnsSound' /\ Keeps
<1>1. \A o \in Objects : Queued(o)' /\ Turned(o)'
  BY DEF QueuesSound, Queued, Turned
<1>2. \A c \in Calls : Placed(c)' /\ (Ahead(c)' => Ahead(c))
  BY DEF QueuesSound, Placed, AtSession, Ahead
<1>3. Keeps
  BY DEF Keeps
<1> QED BY <1>1, <1>2, <1>3, IdsKept, TurnsKept DEF QueuesSound

------------------------------------------------------------------------------
(* What holds of queues, ids and turns after any step. *)
LEMMA MadeGrows == ASSUME TypeOK, [Next]_vars PROVE made \in Nat /\ made' \in Nat /\ made <= made'
<1>1. made \in Nat
  BY TypeParts, SessionAssumption DEF TableTypes, Objects
<1>2. made' = made \/ made' = made + 1
  <2>1. ASSUME NEW c \in Calls, NEW call, GetOrCreateSession(c, call) PROVE made' = made \/ made' = made + 1
    BY <2>1 DEF GetOrCreateSession
  <2>2. ASSUME NEW c \in Calls, NEW m \in Calls, Dispatch(c, m) PROVE made' = made \/ made' = made + 1
    BY <2>1, <2>2 DEF Dispatch, GetOrCreateSession
  <2>3. ASSUME NEW c \in Calls, NEW kind \in {"send", "subscribe"}, Rpc(c, kind)
        PROVE  made' = made \/ made' = made + 1
    BY <2>1, <2>3 DEF Rpc, GetOrCreateSession
  <2>4. ASSUME NEW o \in Objects, TurnSteps(o) PROVE made' = made
    BY <2>4 DEF TurnSteps, Replied, Excused, ExcuseFails, TurnFails, TurnEnds, TurnOver, Excuses, tableVars
  <2>5. ASSUME NEW c \in Calls, Forget(c) \/ CallSteps(c) \/ HangUp(c) PROVE made' = made
    BY <2>5 DEF Forget, CallSteps, Initialized, OpensNoSocket, Linked, Logged, Refused, HangUp, tableVars
  <2>6. CASE Abort \/ \E s \in Stops : StopSession(s) \/ Unlinked(s) \/ Closed(s)
    BY <2>6 DEF Abort, StopSession, Unlinked, Closed, tableVars
  <2> QED BY <2>2, <2>3, <2>4, <2>5, <2>6 DEF Next, vars, tableVars
<1> QED BY <1>1, <1>2

LEMMA MadeKept ==
  ASSUME OnMade, Keeps, made \in Nat, made' \in Nat, made <= made', CallTypes
  PROVE  OnMade'
<1> SUFFICES ASSUME NEW c \in Calls, calls'[c].at \in AtSession PROVE calls'[c].on <= made'
  BY DEF OnMade
<1>1. calls'[c].on = calls[c].on /\ calls[c].at \in AtSession
  BY DEF Keeps, AtSession, Pending
<1>2. calls[c].on \in Nat /\ calls[c].on <= made
  BY <1>1, SessionAssumption DEF OnMade, CallTypes, CallType, Objects
<1> QED BY <1>1, <1>2

LEMMA ServedKept ==
  ASSUME TypeOK, Served, [Next]_vars
  PROVE  CallTypes' /\ ObjectTypes' /\ Served'
<1>1. CallTypes /\ ObjectTypes /\ seen \subseteq Calls
  BY TypeParts DEF TableTypes
<1>2. QueuesSound /\ IdsSound /\ TurnsSound /\ OnMade /\ made \in Nat /\ made' \in Nat /\ made <= made'
  BY MadeGrows DEF Served
<1>3. ASSUME NEW c \in Calls, NEW m \in Calls, NEW kind \in {"chat", "send", "subscribe"},
             \/ kind = "chat" /\ Dispatch(c, m)
             \/ kind # "chat" /\ m = c /\ Rpc(c, kind)
      PROVE  CallTypes' /\ ObjectTypes' /\ Served'
  <2>1. Comes(c, kind, m) /\ UNCHANGED <<queue, turn, running, stopped, turns>>
    BY <1>3, ComesEffect
  <2>2. CallTypes'
    BY <1>1, <2>1 DEF Comes, CallTypes
  <2>3. ObjectTypes'
    BY <1>1, <2>1 DEF ObjectTypes
  <2>4. QueuesSound'
    <3>1. calls[c].at # "waiting" /\ calls'[c].at # "waiting"
      BY <2>1 DEF Comes, NoCall
    <3>2. Beside(c)
      BY <2>1, <3>1 DEF Beside, Comes
    <3> QED BY <1>2, <3>2, BesideQueues
  <2>5. OnMade'
    <3>1. SUFFICES ASSUME NEW d \in Calls, calls'[d].at \in AtSession PROVE calls'[d].on <= made'
      BY DEF OnMade
    <3>2. CASE d = c
      BY <2>1, <3>1, <3>2 DEF Comes
    <3>3. CASE d # c
      <4>1. calls'[d] = calls[d] /\ calls[d].on \in Nat
        BY <1>1, <2>1, <3>3, SessionAssumption DEF Comes, CallTypes, CallType, Objects
      <4>2. calls[d].on <= made
        BY <1>2, <3>1, <4>1 DEF OnMade
      <4> QED BY <1>2, <4>1, <4>2
    <3> QED BY <3>2, <3>3
  <2> QED BY <2>2, <2>3, <2>4, <2>5, <1>2, <1>3, IdsCome, TurnsCome DEF Served
<1>4. ASSUME NEW c \in Calls, Goes(c)
      PROVE  CallTypes' /\ ObjectTypes' /\ Served'
  <2>1. /\ Beside(c) /\ Keeps /\ calls'[c] \in CallType /\ UNCHANGED <<seen, windows, stopped>>
        /\ calls[c].at \in {"initializing", "linking", "logging"} /\ calls[c].on \in Objects
    BY <1>2, <1>4, GoesOn
  <2>2. CallTypes'
    BY <1>1, <2>1 DEF CallTypes, Beside
  <2>3. ObjectTypes'
    BY <1>1, <2>1 DEF ObjectTypes, Beside
  <2>4. \A d \in Calls : Ahead(d)' => Ahead(d)
    <3>1. \A d \in Calls \ {c} : calls'[d] = calls[d]
      BY <1>1, <2>1 DEF Beside, CallTypes
    <3> QED BY <2>1, <3>1 DEF Ahead, Beside
  <2> QED BY <1>1, <1>2, <2>1, <2>2, <2>3, <2>4, BesideQueues, IdsKept, TurnsKept, MadeKept DEF Served, Beside
<1>5. ASSUME NEW c \in Calls, Logged(c)
      PROVE  CallTypes' /\ ObjectTypes' /\ Served'
  <2>1. /\ calls[c].at = "logging" /\ calls[c].on \in Objects
        /\ LoggedIdle(c, calls[c].on) \/ LoggedBusy(c, calls[c].on)
    BY <1>2, <1>5, LoggedEffect
  <2>2. PICK o \in Objects : o = calls[c].on
    BY <2>1
  <2>3. LoggedIdle(c, o) \/ LoggedBusy(c, o)
    BY <2>1, <2>2
  <2>4. CallTypes' /\ Keeps /\ QueuesSound' /\ TurnsSound'
    BY <1>2, <2>1, <2>2, <2>3, IdleLogged, BusyLogged
  <2>5. UNCHANGED <<seen, windows, stopped>>
    BY <1>5 DEF Logged
  <2>6. ObjectTypes'
    <3>1. CASE LoggedIdle(c, o)
      <4>1. [at |-> "working", call |-> c, aborted |-> FALSE] \in TurnType
        BY DEF TurnType, TurnsAt
      <4>2. turn' \in [Objects -> TurnType] /\ running' \in [Objects -> BOOLEAN] /\ queue' = queue
        BY <3>1, <4>1, <1>1 DEF LoggedIdle, ObjectTypes
      <4> QED BY <1>1, <2>5, <4>2 DEF ObjectTypes
    <3>2. CASE LoggedBusy(c, o)
      <4>1. Append(Kept(queue[o]), c) \in Seq(Calls) /\ Len(Append(Kept(queue[o]), c)) <= Depth
        BY RoomMade, SessionAssumption
      <4>2. queue' = [queue EXCEPT ![o] = Append(Kept(queue[o]), c)] /\ UNCHANGED <<turn, running>>
        BY <3>2 DEF LoggedBusy
      <4> QED BY <1>1, <2>5, <4>1, <4>2 DEF ObjectTypes
    <3> QED BY <2>3, <3>1, <3>2
  <2> QED BY <1>1, <1>2, <2>4, <2>5, <2>6, IdsKept, MadeKept DEF Served
<1>6. ASSUME NEW o \in Objects, TurnSteps(o)
      PROVE  CallTypes' /\ ObjectTypes' /\ Served'
  <2>1. CASE TurnFails(o)
    <3>1. /\ turn[o].at = "working" /\ turn' = [turn EXCEPT ![o].at = "excusing"]
          /\ running' = [running EXCEPT ![o] = FALSE]
          /\ UNCHANGED <<calls, seen, windows, queue, stopped, turns>>
      BY <2>1 DEF TurnFails, Excuses, historyVars
    <3>2. turn[o] \in [at : TurnsAt, call : Calls, aborted : BOOLEAN] /\ turn[o] # NoTurn
      BY <1>1, <3>1, TurnTyped DEF ObjectTypes, TurnType, NoTurn
    <3>3. turn'[o] = [turn[o] EXCEPT !.at = "excusing"] /\ turn' = [turn EXCEPT ![o] = turn'[o]]
      BY <1>1, <3>1 DEF ObjectTypes
    <3>4. turn'[o] \in [at : TurnsAt, call : Calls, aborted : BOOLEAN] /\ turn'[o].call = turn[o].call
          /\ turn'[o].at = "excusing"
      BY <3>2, <3>3 DEF TurnsAt
    <3>5. turn'[o] # NoTurn /\ turn'[o] \in TurnType
      BY <3>4 DEF NoTurn, TurnType
    <3>6. \A p \in Objects : turn'[p].call = turn[p].call /\ (turn'[p] = NoTurn <=> turn[p] = NoTurn)
      BY <1>1, <3>1, <3>2, <3>4, <3>5 DEF ObjectTypes
    <3>7. ObjectTypes'
      <4>1. PICK t \in TurnType : turn' = [turn EXCEPT ![o] = t]
        BY <3>3, <3>5
      <4>2. turn' \in [Objects -> TurnType] /\ running' \in [Objects -> BOOLEAN]
        BY <1>1, <3>1, <4>1 DEF ObjectTypes
      <4> QED BY <1>1, <3>1, <4>2 DEF ObjectTypes
    <3> QED BY <1>1, <1>2, <3>1, <3>6, <3>7, SameTurns, MadeKept DEF Served, CallTypes
  <2>2. CASE Replied(o) \/ Excused(o) \/ ExcuseFails(o)
    <3>1. PICK outcome \in {"answered", "rejected"} : turn[o].at \in TurnsAt /\ TurnOver(o, outcome)
      BY <2>2 DEF Replied, Excused, ExcuseFails, TurnEnds, TurnsAt
    <3>2. TurnPasses(o, outcome) /\ UNCHANGED <<seen, windows>>
      BY <3>1, TurnOverEffect DEF TurnOver
    <3> QED BY <1>1, <1>2, <3>2, TurnPassed, IdsKept, MadeKept DEF Served
  <2> QED BY <1>6, <2>1, <2>2 DEF TurnSteps
<1>7. CASE Abort \/ \E s \in Stops : StopSession(s)
  <2>1. UNCHANGED <<seen, windows, turns>>
    BY <1>7 DEF Abort, StopSession, historyVars
  <2>2. CASE UNCHANGED <<calls, queue, turn, running, stopped>>
    BY <1>1, <1>2, <2>1, <2>2, SameTurns, MadeKept DEF Served, CallTypes, ObjectTypes
  <2>3. CASE sessions # 0 /\ AbortSession(sessions) /\ stopped' \in {stopped, [stopped EXCEPT ![sessions] = TRUE]}
    <3>1. PICK o \in Objects : o = sessions
      BY <2>3, TypeParts, SessionAssumption DEF TableTypes, Objects
    <3>2. AbortSession(o) /\ stopped' \in [Objects -> BOOLEAN]
      BY <1>1, <2>3, <3>1 DEF ObjectTypes
    <3> QED BY <1>1, <1>2, <2>1, <3>2, Aborted, IdsKept, MadeKept DEF Served
  <2> QED BY <1>7, <2>2, <2>3 DEF Abort, StopSession
<1>8. CASE UNCHANGED <<calls, seen, windows, queue, turn, running, stopped, turns>>
  BY <1>1, <1>2, <1>8, SameTurns, MadeKept DEF Served, CallTypes, ObjectTypes
<1>9. CASE (\E c \in Calls : HangUp(c)) \/ (\E s \in Stops : Unlinked(s) \/ Closed(s)) \/ UNCHANGED vars
  BY <1>8, <1>9 DEF HangUp, Unlinked, Closed, vars, objectVars, historyVars
<1>10. ASSUME NEW c \in Calls, NEW m \in Calls, Dispatch(c, m) PROVE CallTypes' /\ ObjectTypes' /\ Served'
  BY <1>3, <1>10
<1>11. ASSUME NEW c \in Calls, NEW kind \in {"send", "subscribe"}, Rpc(c, kind)
       PROVE  CallTypes' /\ ObjectTypes' /\ Served'
  BY <1>3, <1>11
<1>12. ASSUME NEW m \in Calls, Forget(m)
       PROVE  CallTypes' /\ ObjectTypes' /\ Served'
  <2>1. UNCHANGED <<calls, queue, turn, running, stopped, turns, made>>
    BY <1>12 DEF Forget, tableVars, objectVars
  <2>2. CallTypes' /\ ObjectTypes' /\ OnMade'
    BY <1>1, <1>2, <2>1 DEF CallTypes, ObjectTypes, OnMade
  <2>3. QueuesSound'
    BY <1>2, <2>1 DEF QueuesSound, Queued, Turned, Placed, AtSession
  <2>4. TurnsSound'
    BY <1>2, <2>1 DEF TurnsSound, Ahead, Counts
  <2> QED BY <1>2, <1>12, <2>2, <2>3, <2>4, IdsForgotten DEF Served
<1> QED BY <1>4, <1>5, <1>6, <1>7, <1>9, <1>10, <1>11, <1>12 DEF Next, CallSteps, Goes

(* The table of sessions, the history, and the bounds. *)
LEMMA TableKept ==
  ASSUME TypeOK, Served, [Next]_vars
  PROVE  TableTypes'
<1>1. TableTypes /\ CallTypes
  BY TypeParts
<1>2. made \in Nat
  BY <1>1, SessionAssumption DEF TableTypes, Objects
<1>3. ASSUME NEW c \in Calls, NEW m \in Calls, NEW kind \in {"chat", "send", "subscribe"},
             \/ kind = "chat" /\ Dispatch(c, m)
             \/ kind # "chat" /\ m = c /\ Rpc(c, kind)
      PROVE  TableTypes'
  <2>1. /\ Comes(c, kind, m) /\ seen' \subseteq Calls
        /\ UNCHANGED <<sessions, turns, windows, raced, mute, stops, aborts>>
    BY <1>1, <1>3, ComesEffect DEF TableTypes
  <2>2. sessions' \in 0..made'
    <3>1. made' \in Nat /\ made <= made' /\ sessions \in 0..made
      BY <1>1, <2>1, SessionAssumption DEF Comes, Objects, TableTypes
    <3> QED BY <1>2, <2>1, <3>1
  <2> QED BY <1>1, <2>1, <2>2 DEF TableTypes, Comes
<1>4. ASSUME NEW c \in Calls, Goes(c)
      PROVE  TableTypes'
  <2>1. UNCHANGED <<made, seen, turns, windows, stops, aborts>> /\ subs' \subseteq Calls
    BY <1>4, GoesOn DEF Served, Goes, Initialized, OpensNoSocket, Linked, Refused, tableVars, historyVars, countVars
  <2>2. CASE Initialized(c) \/ OpensNoSocket(c)
    <3>1. /\ sessions' = calls[c].on /\ calls[c].at = "initializing" /\ raced' = ClosingNow
          /\ mute' \in {mute, mute \cup {calls[c].on}}
      BY <2>2 DEF Initialized, OpensNoSocket, EntersTable
    <3>2. calls[c].on \in Objects /\ calls[c].on \in Nat /\ calls[c].on <= made
      BY <3>1, <1>4, GoesOn, SessionAssumption DEF Served, OnMade, AtSession, Objects
    <3>3. raced' \in BOOLEAN
      BY <3>1 DEF ClosingNow
    <3> QED BY <1>1, <1>2, <2>1, <3>1, <3>2, <3>3 DEF TableTypes
  <2>3. CASE Linked(c) \/ Refused(c)
    BY <1>1, <2>1, <2>3 DEF Linked, Refused, tableVars, historyVars, TableTypes
  <2> QED BY <1>4, <2>2, <2>3 DEF Goes
<1>5. ASSUME NEW c \in Calls, Logged(c)
      PROVE  TableTypes'
  <2>1. UNCHANGED <<made, sessions, seen, subs, windows, raced, mute, stops, aborts>>
    BY <1>5 DEF Logged, tableVars, socketVars, countVars
  <2>2. turns' \in [Calls -> Nat]
    <3>1. LoggedIdle(c, calls[c].on) \/ LoggedBusy(c, calls[c].on)
      BY <1>5, LoggedEffect DEF Served
    <3> QED BY <1>1, <3>1 DEF LoggedIdle, LoggedBusy, TableTypes
  <2> QED BY <1>1, <2>1, <2>2 DEF TableTypes
<1>6. ASSUME NEW o \in Objects, TurnSteps(o)
      PROVE  TableTypes'
  <2>1. CASE TurnFails(o)
    BY <1>1, <2>1 DEF TurnFails, Excuses, tableVars, socketVars, historyVars, countVars, TableTypes
  <2>2. CASE Replied(o) \/ Excused(o) \/ ExcuseFails(o)
    <3>1. PICK outcome \in {"answered", "rejected"} : turn[o].at \in TurnsAt /\ TurnOver(o, outcome)
      BY <2>2 DEF Replied, Excused, ExcuseFails, TurnEnds, TurnsAt
    <3>2. UNCHANGED <<made, sessions, seen, windows, raced, mute, stops, aborts>>
      BY <3>1 DEF TurnOver, tableVars, countVars
    <3>3. subs' \subseteq Calls
      BY <1>1, <2>2 DEF Replied, Excused, ExcuseFails, TurnEnds, TableTypes
    <3>4. turns' \in [Calls -> Nat]
      BY <1>1, <3>1, TurnOverEffect DEF TurnPasses, TableTypes
    <3> QED BY <1>1, <3>2, <3>3, <3>4 DEF TableTypes
  <2> QED BY <1>6, <2>1, <2>2 DEF TurnSteps
<1>7. CASE Abort
  <2>1. aborts' \in 0..MaxAborts
    BY <1>1, <1>7, SessionAssumption DEF Abort, TableTypes
  <2> QED BY <1>1, <1>7, <2>1 DEF Abort, tableVars, socketVars, historyVars, TableTypes
<1>8. ASSUME NEW s \in Stops, StopSession(s)
      PROVE  TableTypes'
  <2>1. stops' \in 0..MaxStops
    BY <1>1, <1>8, SessionAssumption DEF StopSession, TableTypes
  <2>2. sessions' \in 0..made
    BY <1>1, <1>2, <1>8 DEF StopSession, TableTypes
  <2> QED BY <1>1, <1>8, <2>1, <2>2 DEF StopSession, historyVars, TableTypes
<1>9. CASE (\E c \in Calls : HangUp(c)) \/ (\E s \in Stops : Unlinked(s) \/ Closed(s)) \/ UNCHANGED vars
  BY <1>1, <1>9 DEF HangUp, Unlinked, Closed, vars, tableVars, socketVars, historyVars, countVars, TableTypes
<1>10. ASSUME NEW c \in Calls, NEW m \in Calls, Dispatch(c, m) PROVE TableTypes'
  BY <1>3, <1>10
<1>11. ASSUME NEW c \in Calls, NEW kind \in {"send", "subscribe"}, Rpc(c, kind) PROVE TableTypes'
  BY <1>3, <1>11
<1>12. ASSUME NEW m \in Calls, Forget(m) PROVE TableTypes'
  <2>1. windows' \in [Calls -> 0..MaxWindows] /\ seen' \subseteq Calls
    BY <1>12, IdsForgotten DEF Served
  <2> QED BY <1>1, <1>12, <2>1 DEF Forget, TableTypes, tableVars, socketVars, countVars
<1> QED BY <1>4, <1>5, <1>6, <1>7, <1>8, <1>9, <1>10, <1>11, <1>12 DEF Next, CallSteps, Goes

(* The sockets. *)
NoSocketStep == UNCHANGED <<sessions, socket, file, opened, closings, raced, mute>>

LEMMA SocketSteps ==
  ASSUME TypeOK, Served, [Next]_vars
  PROVE  \/ NoSocketStep
         \/ \E c \in Calls : Initialized(c) \/ OpensNoSocket(c)
         \/ \E s \in Stops : StopSession(s) \/ Unlinked(s) \/ Closed(s)
<1>1. ASSUME NEW c \in Calls, NEW m \in Calls, NEW kind \in {"chat", "send", "subscribe"},
             \/ kind = "chat" /\ Dispatch(c, m)
             \/ kind # "chat" /\ m = c /\ Rpc(c, kind)
      PROVE  NoSocketStep
  BY <1>1, ComesEffect DEF NoSocketStep
<1>2. ASSUME NEW c \in Calls, Forget(c) \/ CallSteps(c) \/ HangUp(c)
      PROVE  NoSocketStep \/ Initialized(c) \/ OpensNoSocket(c)
  BY <1>2 DEF Forget, CallSteps, HangUp, Linked, Logged, Refused, tableVars, socketVars, historyVars, NoSocketStep
<1>3. ASSUME NEW o \in Objects, TurnSteps(o)
      PROVE  NoSocketStep
  BY <1>3 DEF TurnSteps, Replied, Excused, ExcuseFails, TurnEnds, TurnOver, TurnFails, Excuses,
              tableVars, socketVars, historyVars, NoSocketStep
<1>4. CASE Abort \/ UNCHANGED vars
  BY <1>4 DEF Abort, vars, tableVars, socketVars, historyVars, NoSocketStep
<1>5. ASSUME NEW c \in Calls, NEW m \in Calls, Dispatch(c, m) PROVE NoSocketStep
  BY <1>1, <1>5
<1>6. ASSUME NEW c \in Calls, NEW kind \in {"send", "subscribe"}, Rpc(c, kind) PROVE NoSocketStep
  BY <1>1, <1>6
<1> QED BY <1>2, <1>3, <1>4, <1>5, <1>6 DEF Next

LEMMA SocketsKept ==
  ASSUME TypeOK, Served, SocketsSound, [Next]_vars
  PROVE  SocketTypes' /\ SocketsSound'
<1>1. SocketTypes /\ TableTypes /\ CallTypes
  BY TypeParts
<1>2. CASE NoSocketStep
  BY <1>1, <1>2 DEF NoSocketStep, SocketTypes, SocketsSound, ClosingNow
<1>3. ASSUME NEW c \in Calls, Initialized(c) PROVE SocketTypes' /\ SocketsSound'
  <2>1. /\ raced' = ClosingNow /\ closings' = closings /\ mute' = mute
        /\ IF socket = 0
           THEN opened' = opened + 1 /\ socket' = opened + 1 /\ file' = opened + 1
           ELSE UNCHANGED <<opened, socket, file>>
    BY <1>3 DEF Initialized, EntersTable
  <2>2. SocketTypes'
    <3>1. CASE socket = 0
      BY <1>1, <2>1, <3>1 DEF SocketTypes
    <3>2. CASE socket # 0
      BY <1>1, <2>1, <3>2 DEF SocketTypes
    <3> QED BY <3>1, <3>2
  <2>3. ClosingNow' <=> ClosingNow
    BY <2>1 DEF ClosingNow
  <2>4. CASE ClosingNow
    <3>1. raced' = TRUE
      BY <2>1, <2>4
    <3> QED BY <3>1, <2>2, <2>3, <2>4 DEF SocketsSound
  <2>5. CASE ~ClosingNow
    <3>1. file' = socket'
      BY <2>1, <2>5 DEF SocketsSound
    <3>2. socket' # 0
      BY <1>1, <2>1 DEF SocketTypes
    <3> QED BY <3>1, <3>2, <2>2, <2>3, <2>5 DEF SocketsSound
  <2> QED BY <2>4, <2>5
<1>4. ASSUME NEW s \in Stops, StopSession(s) PROVE SocketTypes' /\ SocketsSound'
  <2>1. UNCHANGED <<socket, file, opened, raced, mute>> /\ sessions' = 0 /\ CloseSessionSocket(s)
    BY <1>4 DEF StopSession, historyVars
  <2>2. CASE socket = 0
    <3>1. closings' = closings
      BY <2>1, <2>2 DEF CloseSessionSocket
    <3> QED BY <1>1, <2>1, <3>1 DEF SocketTypes, SocketsSound, ClosingNow
  <2>3. CASE socket # 0
    <3>1. closings' = [closings EXCEPT ![s] = [at |-> "unlinking", server |-> socket]]
      BY <2>1, <2>3 DEF CloseSessionSocket
    <3>2. closings'[s].at = "unlinking"
      BY <1>1, <3>1 DEF SocketTypes
    <3>3. ClosingNow'
      BY <3>2 DEF ClosingNow
    <3> QED BY <1>1, <2>1, <3>1, <3>3 DEF SocketTypes, SocketsSound
  <2> QED BY <2>2, <2>3
<1>5. ASSUME NEW s \in Stops, Unlinked(s) PROVE SocketTypes' /\ SocketsSound'
  <2>1. /\ UNCHANGED <<socket, opened, raced, sessions>> /\ closings[s].at = "unlinking"
        /\ closings' = [closings EXCEPT ![s].at = "closing"] /\ file' \in {0, file}
    BY <1>5 DEF Unlinked, tableVars, historyVars
  <2>2. closings'[s].at = "closing" /\ SocketTypes'
    BY <1>1, <2>1 DEF SocketTypes
  <2>3. ClosingNow /\ ClosingNow'
    BY <2>1, <2>2 DEF ClosingNow
  <2> QED BY <2>1, <2>2, <2>3 DEF SocketsSound
<1>6. ASSUME NEW s \in Stops, Closed(s) PROVE SocketTypes' /\ SocketsSound'
  <2>1. /\ UNCHANGED <<opened, raced, sessions>> /\ closings[s].at = "closing"
        /\ closings' = [closings EXCEPT ![s] = [at |-> "none", server |-> 0]]
        /\ file' = 0 /\ socket' = 0
    BY <1>6 DEF Closed, ForgetSocket, tableVars, historyVars
  <2>2. SocketTypes'
    BY <1>1, <2>1 DEF SocketTypes
  <2>3. ClosingNow
    BY <2>1 DEF ClosingNow
  <2> QED BY <2>1, <2>2, <2>3 DEF SocketsSound
<1>7. ASSUME NEW c \in Calls, OpensNoSocket(c) PROVE SocketTypes' /\ SocketsSound'
  <2>1. /\ raced' = ClosingNow /\ closings' = closings /\ UNCHANGED <<socket, opened>> /\ socket = 0
        /\ file' \in {0, file} /\ sessions' = calls[c].on /\ mute' = mute \cup {calls[c].on}
    BY <1>7 DEF OpensNoSocket, EntersTable
  <2>2. SocketTypes' /\ (ClosingNow' <=> ClosingNow)
    BY <1>1, <2>1 DEF SocketTypes, ClosingNow
  <2>3. CASE ClosingNow
    <3>1. raced' = TRUE
      BY <2>1, <2>3
    <3> QED BY <3>1, <2>2, <2>3 DEF SocketsSound
  <2>4. CASE ~ClosingNow
    BY <2>1, <2>2, <2>4 DEF SocketsSound
  <2> QED BY <2>2, <2>3, <2>4
<1> QED BY <1>2, <1>3, <1>4, <1>5, <1>6, <1>7, SocketSteps

(* The flag of a session. *)
LEMMA BusyKept ==
  ASSUME TypeOK, Served, BusyIsSeen, [Next]_vars
  PROVE  BusyIsSeen'
<1>1. ObjectTypes /\ CallTypes /\ TableTypes
  BY TypeParts
<1>2. CASE UNCHANGED <<turn, running>>
  BY <1>2 DEF BusyIsSeen
<1>3. ASSUME NEW c \in Calls, NEW m \in Calls, NEW kind \in {"chat", "send", "subscribe"},
             \/ kind = "chat" /\ Dispatch(c, m)
             \/ kind # "chat" /\ m = c /\ Rpc(c, kind)
      PROVE  BusyIsSeen'
  BY <1>2, <1>3, ComesEffect
<1>4. ASSUME NEW c \in Calls, Forget(c) \/ CallSteps(c) \/ HangUp(c)
      PROVE  BusyIsSeen'
  <2>1. CASE Logged(c)
    <3>1. PICK o \in Objects : LoggedIdle(c, o) \/ LoggedBusy(c, o)
      BY <2>1, LoggedEffect DEF Served
    <3>2. CASE LoggedIdle(c, o)
      <4>1. turn' = [turn EXCEPT ![o] = [at |-> "working", call |-> c, aborted |-> FALSE]]
            /\ running' = [running EXCEPT ![o] = TRUE]
        BY <3>2 DEF LoggedIdle
      <4> QED BY <1>1, <4>1 DEF BusyIsSeen, ObjectTypes
    <3>3. CASE LoggedBusy(c, o)
      BY <1>2, <3>3 DEF LoggedBusy
    <3> QED BY <3>1, <3>2, <3>3
  <2>2. CASE Forget(c) \/ Goes(c) \/ HangUp(c)
    BY <1>2, <2>2 DEF Forget, Goes, Initialized, OpensNoSocket, Linked, Refused, HangUp, objectVars
  <2> QED BY <1>4, <2>1, <2>2 DEF CallSteps, Goes
<1>5. ASSUME NEW o \in Objects, TurnSteps(o)
      PROVE  BusyIsSeen'
  <2>1. CASE TurnFails(o)
    <3>1. turn' = [turn EXCEPT ![o].at = "excusing"] /\ running' = [running EXCEPT ![o] = FALSE]
      BY <2>1 DEF TurnFails, Excuses
    <3>2. turn[o] \in TurnType /\ turn[o].at = "working"
      BY <1>1, <2>1 DEF ObjectTypes, TurnFails, Excuses
    <3>3. turn[o] \in [at : TurnsAt, call : Calls, aborted : BOOLEAN]
      BY <3>2, TurnTyped DEF TurnType
    <3>4. turn'[o].at = "excusing" /\ ~running'[o]
      BY <1>1, <3>1, <3>3 DEF ObjectTypes
    <3>5. \A p \in Objects \ {o} : turn'[p] = turn[p] /\ running'[p] = running[p]
      BY <1>1, <3>1 DEF ObjectTypes
    <3> QED BY <3>4, <3>5 DEF BusyIsSeen
  <2>2. CASE Replied(o) \/ Excused(o) \/ ExcuseFails(o)
    <3>1. PICK outcome \in {"answered", "rejected"} : turn[o].at \in TurnsAt /\ TurnOver(o, outcome)
      BY <2>2 DEF Replied, Excused, ExcuseFails, TurnEnds, TurnsAt
    <3>2. TurnPasses(o, outcome)
      BY <3>1, TurnOverEffect
    <3>3. CASE turn' = [turn EXCEPT ![o] = NoTurn] /\ running' = [running EXCEPT ![o] = FALSE]
      <4>1. NoTurn.at # "working"
        BY DEF NoTurn
      <4> QED BY <1>1, <3>3, <4>1 DEF BusyIsSeen, ObjectTypes
    <3>4. CASE /\ turn' = [turn EXCEPT ![o] = [at |-> "working", call |-> Head(queue[o]), aborted |-> FALSE]]
               /\ running' = [running EXCEPT ![o] = TRUE]
      BY <1>1, <3>4 DEF BusyIsSeen, ObjectTypes
    <3> QED BY <3>2, <3>3, <3>4 DEF TurnPasses
  <2> QED BY <1>5, <2>1, <2>2 DEF TurnSteps
<1>6. CASE Abort \/ \E s \in Stops : StopSession(s)
  <2>1. CASE sessions # 0 /\ AbortSession(sessions)
    <3>1. PICK o \in Objects : o = sessions
      BY <2>1, <1>1, SessionAssumption DEF TableTypes, Objects
    <3>2. /\ turn' = [turn EXCEPT ![o] = turn'[o]]
          /\ turn'[o].at = "working" => turn'[o].aborted
          /\ running' = [running EXCEPT ![o] = FALSE]
      BY <2>1, <3>1, AbortEffect DEF Served
    <3> QED BY <1>1, <3>2 DEF BusyIsSeen, ObjectTypes
  <2> QED BY <1>2, <1>6, <2>1 DEF Abort, StopSession
<1>7. CASE (\E s \in Stops : Unlinked(s) \/ Closed(s)) \/ UNCHANGED vars
  BY <1>2, <1>7 DEF Unlinked, Closed, vars, objectVars
<1>8. ASSUME NEW c \in Calls, NEW m \in Calls, Dispatch(c, m) PROVE BusyIsSeen'
  BY <1>3, <1>8
<1>9. ASSUME NEW c \in Calls, NEW kind \in {"send", "subscribe"}, Rpc(c, kind) PROVE BusyIsSeen'
  BY <1>3, <1>9
<1> QED BY <1>4, <1>5, <1>6, <1>7, <1>8, <1>9 DEF Next

LEMMA NextSound == IInv /\ [Next]_vars => IInv'
<1> SUFFICES ASSUME IInv, [Next]_vars PROVE IInv'
  OBVIOUS
<1>1. TypeOK /\ Served /\ SocketsSound /\ BusyIsSeen
  BY DEF IInv
<1>2. CallTypes' /\ ObjectTypes' /\ Served'
  BY <1>1, ServedKept
<1>3. TableTypes' /\ SocketTypes' /\ SocketsSound' /\ BusyIsSeen'
  BY <1>1, TableKept, SocketsKept, BusyKept
<1>4. TypeOK'
  BY <1>2, <1>3 DEF TypeOK, CallTypes, TableTypes, ObjectTypes, SocketTypes, CallType, TurnType
<1> QED BY <1>2, <1>3, <1>4 DEF IInv

------------------------------------------------------------------------------
(* The inductive invariant holds of every behaviour of the conversations. *)
THEOREM InvariantHolds == Spec => []IInv
  BY InitSound, NextSound, PTL DEF Spec

(* Every variable of the conversations keeps its type: no queue is ever longer than *)
(* MAX_QUEUE_PER_SESSION (queue.ts enqueue), and the table has a session that was made. *)
THEOREM TypeCorrect == Spec => []TypeOK
<1>1. IInv => TypeOK
  BY DEF IInv
<1> QED BY <1>1, InvariantHolds, PTL

(* A call that waits for its turn is in the queue of its session, once, or has the turn, *)
(* whatever calls, ends of turns, aborts and stops overlap (queue.ts enqueue, process, clear). *)
THEOREM WaitersCorrect == Spec => []WaitersAreServed
<1>1. IInv => WaitersAreServed
  <2> SUFFICES ASSUME IInv, NEW c \in Calls, calls[c].at = "waiting"
               PROVE  LET o == calls[c].on
                          places == {i \in 1..Len(queue[o]) : queue[o][i] = c} IN
                      \/ turn[o].call = c /\ places = {}
                      \/ turn[o].call # c /\ turn[o] # NoTurn /\ \E i \in places : places = {i}
    BY DEF WaitersAreServed
  <2> DEFINE o == calls[c].on
             places == {i \in 1..Len(queue[o]) : queue[o][i] = c}
  <2>1. o \in Objects /\ Queued(o) /\ Turned(o) /\ Placed(c)
    BY DEF IInv, Served, QueuesSound, Placed, AtSession
  <2>2. CASE turn[o].call = c
    BY <2>1, <2>2 DEF Queued
  <2>3. CASE turn[o].call # c
    <3>1. PICK i \in 1..Len(queue[o]) : queue[o][i] = c
      BY <2>1, <2>3 DEF Placed
    <3>2. places = {i}
      BY <2>1, <3>1 DEF Queued
    <3>3. turn[o] # NoTurn
      BY <2>1, <3>1 DEF Turned
    <3> QED BY <2>3, <3>2, <3>3
  <2> QED BY <2>2, <2>3
<1> QED BY <1>1, InvariantHolds, PTL

(* A call has one turn at most, and two calls of one message have a turn each only when the *)
(* message's window ended between them, whichever sessions come and go (daemon.ts dispatch,  *)
(* hasSeenEvent, touchSeen; queue.ts). *)
THEOREM OneTurnCorrect == Spec => []OneTurnPerWindow
<1>1. IInv => OneTurnPerWindow
  BY DEF IInv, Served, TurnsSound, IdsSound, Same, OneTurnPerWindow
<1> QED BY <1>1, InvariantHolds, PTL

(* The flag that isIdle and clear look at is true exactly of a turn that works and was not *)
(* aborted (session.ts running). *)
THEOREM BusyCorrect == Spec => []BusyIsSeen
<1>1. IInv => BusyIsSeen
  BY DEF IInv
<1> QED BY <1>1, InvariantHolds, PTL

(* When no socket is being closed, the file is that of the server in the table, and the     *)
(* session in the table has a socket, unless it was made while its predecessor's was closing *)
(* or its own could not be opened (daemon.ts getOrCreateSession, ensureSessionSocket,        *)
(* closeSessionSocket). *)
THEOREM ReachableCorrect == Spec => []SessionIsReachable
<1>1. IInv => SessionIsReachable
  BY DEF IInv, SocketsSound, SessionIsReachable
<1> QED BY <1>1, InvariantHolds, PTL
=============================================================================
