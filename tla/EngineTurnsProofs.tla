-------------------------- MODULE EngineTurnsProofs --------------------------
(***************************************************************************)
(* What EngineTurns promises for any number of attempts, connections and   *)
(* turns: its types, and that a completion returns no answer older than    *)
(* its own turn.                                                           *)
(*                                                                         *)
(* The argument: turns are taken in the order of their numbers, so when a  *)
(* turn is over nothing older can become the session's last message, nor   *)
(* is older already (Past).  A connection asks for the message only once   *)
(* its own turn is over, whatever ends of others it has heard before.      *)
(***************************************************************************)
EXTENDS EngineTurns, SequenceTheorems, TLAPS

(* What the prover needs of the bounds. *)
Assumptions == MaxAttempts \in Nat \ {0} /\ MaxConns \in Nat /\ MaxTurns \in Nat

(* Turn n is over, and so is every one before it: nothing that the session still does, or  *)
(* shows as its last message, is older.                                                    *)
Past(n) ==
  /\ n <= turns
  /\ last = 0 \/ last >= n
  /\ turn.n = 0 \/ turn.n > n
  /\ \A k \in 1..Len(waiting) : waiting[k] > n

(* Turns are taken in the order of their numbers. *)
InOrder ==
  /\ \A k \in 1..Len(waiting) : waiting[k] <= turns /\ waiting[k] > turn.n
  /\ \A j, k \in 1..Len(waiting) : j < k => waiting[j] < waiting[k]
  /\ turn.n <= turns /\ last <= turns
  /\ turn.n = 0 => turn = NoTurn

(* A connection that nothing was written to yet. *)
New(c) == c > conns \/ (c = conns /\ at = "connecting")

ClientSound ==
  /\ attempt > 0 => conns > 0 /\ answer = 0
  /\ at # "idle" => attempt > 0
  /\ at = "connecting" => heard = {}
  /\ answer > 0 => conns > 0 /\ "send" \notin commands[conns]
  /\ attempt > 0 /\ "sent" \in heard => "send" \notin commands[conns] /\ Past(sent[conns])

(* Connection c: its send is written once, and it asks for the message after its turn. *)
Ordered(c) ==
  /\ New(c) => commands[c] = {} /\ replies[c] = <<>> /\ serving[c] = 0 /\ c \notin subscribed
  /\ serving[c] > 0 => sent[c] = serving[c] /\ "send" \notin commands[c]
  /\ "get_message" \in commands[c] => "send" \notin commands[c] /\ Past(sent[c])

Replies == [type : {"subscribed", "sent", "failed", "turn_end", "message"}, turn : 0..MaxTurns]

(* What may be on its way to connection c. *)
Truthful(c) ==
  {r \in Replies :
     /\ r.type \in {"sent", "message"} => "send" \notin commands[c]
     /\ r.type = "sent" => Past(sent[c])
     /\ r.type = "message" => r.turn = 0 \/ r.turn >= sent[c]}

Sound(c) == Ordered(c) /\ replies[c] \in Seq(Truthful(c))

IInv ==
  /\ TypeOK
  /\ InOrder
  /\ ClientSound
  /\ \A c \in Conns : Sound(c)
  /\ NothingOlder

LEMMA InitSound == Assumptions /\ Init => IInv
<1> SUFFICES ASSUME Assumptions, Init PROVE IInv
  OBVIOUS
<1> USE DEF Init, Assumptions
<1>1. TypeOK
  <2>1. \A S : <<>> \in Seq(S)
    BY EmptySeq
  <2>2. replies \in [Conns -> Seq(Replies)] /\ waiting \in Seq(1..MaxTurns)
    BY <2>1
  <2>3. turn \in [n : 0..MaxTurns, at : {"none", "preparing", "running", "killed"}, aborted : BOOLEAN]
    BY DEF NoTurn
  <2>4. /\ commands \in [Conns -> SUBSET {"subscribe", "send", "get_message"}]
        /\ serving \in [Conns -> 0..MaxTurns] /\ sent \in [Conns -> 0..MaxTurns]
    OBVIOUS
  <2>5. attempt \in 0..MaxAttempts /\ conns \in 0..MaxConns /\ turns \in 0..MaxTurns
        /\ last \in 0..MaxTurns /\ answer \in 0..MaxTurns
    OBVIOUS
  <2> QED BY <2>2, <2>3, <2>4, <2>5 DEF TypeOK, Replies
<1>2. InOrder /\ ClientSound /\ NothingOlder
  BY DEF InOrder, ClientSound, NothingOlder, NoTurn
<1>3. ASSUME NEW c \in Conns PROVE Ordered(c) /\ replies[c] \in Seq(Truthful(c))
  BY <1>3 DEF Ordered
<1> QED BY <1>1, <1>2, <1>3 DEF IInv, Sound

------------------------------------------------------------------------------
(* The session: the order of its turns, and what is over stays over. *)

StaysOver == \A n \in Nat : Past(n) => Past(n)'

LEMMA WaitingType == ASSUME Assumptions, TypeOK
  PROVE  /\ Len(waiting) \in Nat
         /\ \A k \in 1..Len(waiting) : waiting[k] \in Nat
         /\ turns \in Nat /\ turn.n \in Nat /\ last \in Nat
  BY ElementOfSeq DEF TypeOK, Assumptions

LEMMA Untouched ==
  ASSUME Assumptions, TypeOK, InOrder, UNCHANGED <<turns, waiting, last>>, turn'.n = turn.n,
         turn = NoTurn => turn' = NoTurn
  PROVE  InOrder' /\ StaysOver
<1>1. InOrder'
  BY DEF InOrder, NoTurn
<1>2. StaysOver
  BY DEF StaysOver, Past
<1> QED BY <1>1, <1>2

LEMMA Enqueued ==
  ASSUME Assumptions, TypeOK, InOrder, Enqueues, UNCHANGED <<turn, last>>
  PROVE  InOrder' /\ StaysOver
<1> DEFINE w == Append(waiting, turns + 1)
<1>1. /\ Len(w) = Len(waiting) + 1
      /\ \A k \in 1..Len(waiting) : w[k] = waiting[k]
      /\ w[Len(waiting) + 1] = turns + 1
  <2>1. waiting \in Seq(1..MaxTurns) /\ turns + 1 \in 1..MaxTurns
    BY DEF Enqueues, TypeOK, Assumptions
  <2> QED BY <2>1, AppendProperties
<1>2. waiting' = w /\ turns' = turns + 1
  BY DEF Enqueues
<1> HIDE DEF w
<1>3. \A k \in 1..Len(w) : k \in 1..Len(waiting) \/ k = Len(waiting) + 1
  BY <1>1, WaitingType
<1>4. InOrder'
  <2>1. \A k \in 1..Len(w) : w[k] <= turns + 1 /\ w[k] > turn.n
    BY <1>1, <1>3, WaitingType DEF InOrder
  <2>2. \A j, k \in 1..Len(w) : j < k => w[j] < w[k]
    BY <1>1, <1>3, WaitingType DEF InOrder
  <2>3. UNCHANGED <<turn, last>> /\ turn.n <= turns + 1 /\ last <= turns + 1
    BY WaitingType DEF InOrder
  <2> QED BY <1>2, <2>1, <2>2, <2>3 DEF InOrder, NoTurn
<1>5. StaysOver
  BY <1>1, <1>2, <1>3, WaitingType DEF StaysOver, Past
<1> QED BY <1>4, <1>5

LEMMA Begun == ASSUME Assumptions, TypeOK, InOrder, TurnBegins PROVE InOrder' /\ StaysOver
<1>1. /\ Head(waiting) = waiting[1] /\ 1 \in 1..Len(waiting)
      /\ Len(Tail(waiting)) = Len(waiting) - 1
      /\ \A k \in 1..Len(Tail(waiting)) : Tail(waiting)[k] = waiting[k + 1]
  BY HeadTailProperties, EmptySeq DEF TurnBegins, TypeOK
<1>2. turn'.n = waiting[1] /\ waiting' = Tail(waiting) /\ UNCHANGED <<turns, last>> /\ turn.n = 0
  BY <1>1 DEF TurnBegins, NoTurn
<1>3. \A k \in 1..Len(Tail(waiting)) : k + 1 \in 1..Len(waiting)
  BY <1>1, WaitingType
<1>4. waiting[1] > 0
  BY <1>1, <1>2 DEF InOrder
<1>5. InOrder'
  BY <1>1, <1>2, <1>3, <1>4, WaitingType DEF InOrder
<1>6. StaysOver
  BY <1>1, <1>2, <1>3, WaitingType DEF StaysOver, Past
<1> QED BY <1>5, <1>6

Ending == turn # NoTurn /\ last' = turn.n /\ turn' = NoTurn /\ UNCHANGED <<turns, waiting>>

LEMMA Over ==
  ASSUME Assumptions, TypeOK, InOrder, Ending
  PROVE  InOrder' /\ StaysOver /\ turn.n > 0 /\ \A n \in Nat : n = turn.n => Past(n)'
<1> USE DEF Ending
<1>1. turn.n > 0 /\ turn.n <= turns /\ turn'.n = 0
  BY WaitingType DEF InOrder, NoTurn
<1>2. InOrder'
  BY <1>1, WaitingType DEF InOrder, NoTurn
<1>3. StaysOver
  BY <1>1, WaitingType DEF StaysOver, Past, NoTurn
<1>4. \A n \in Nat : n = turn.n => Past(n)'
  BY <1>1, WaitingType DEF InOrder, Past, NoTurn
<1> QED BY <1>1, <1>2, <1>3, <1>4

LEMMA Emptied ==
  ASSUME Assumptions, TypeOK, InOrder, waiting' = <<>>, UNCHANGED <<turns, last>>, turn'.n = turn.n,
         turn = NoTurn => turn' = NoTurn
  PROVE  InOrder' /\ StaysOver
  BY WaitingType DEF InOrder, StaysOver, Past, NoTurn

LEMMA Forgotten ==
  ASSUME Assumptions, TypeOK, InOrder, last' = 0, UNCHANGED <<turns, waiting, turn>>
  PROVE  InOrder' /\ StaysOver
  BY WaitingType DEF InOrder, StaysOver, Past, NoTurn

LEMMA SessionSound == ASSUME Assumptions, TypeOK, InOrder, [Next]_vars PROVE InOrder' /\ StaysOver
<1>1. CASE UNCHANGED <<turns, waiting, turn, last>>
  BY <1>1, Untouched
<1>2. ASSUME NEW c \in Conns, Send(c) PROVE InOrder' /\ StaysOver
  BY <1>1, <1>2, Enqueued DEF Send
<1>3. CASE TurnBegins
  BY <1>3, Begun
<1>4. CASE Spawned \/ TimesOut
  <2>1. UNCHANGED <<turns, waiting, last>> /\ turn'.n = turn.n /\ turn # NoTurn
    BY <1>4 DEF Spawned, TimesOut, TypeOK, NoTurn
  <2> QED BY <2>1, Untouched
<1>5. CASE TurnEnds \/ TurnBreaks
  BY <1>5, Over DEF TurnEnds, TurnBreaks, Ending
<1>6. CASE OperatorSends
  BY <1>6, Enqueued DEF OperatorSends
<1>7. CASE Abort
  <2>1. turn'.n = turn.n /\ (turn = NoTurn => turn' = NoTurn)
    BY <1>7 DEF Abort, TypeOK
  <2> QED BY <1>7, <2>1, Emptied DEF Abort
<1>8. CASE Clear \/ Cleared
  BY <1>1, <1>8, Forgotten DEF Clear, Cleared
<1>9. CASE Complete \/ Connected \/ AttemptFails \/ Heard \/ UNCHANGED vars
  BY <1>1, <1>9 DEF Complete, Connected, AttemptFails, Heard, vars, session
<1>10. ASSUME NEW c \in Conns, Subscribe(c) \/ GetMessage(c) PROVE InOrder' /\ StaysOver
  BY <1>1, <1>10 DEF Subscribe, GetMessage, session
<1> QED BY <1>2, <1>3, <1>4, <1>5, <1>6, <1>7, <1>8, <1>9, <1>10 DEF Next

------------------------------------------------------------------------------
(* One connection, when a step leaves its wires alone or takes a command from them. *)

LEMMA Grows ==
  ASSUME NEW c \in Conns, TypeOK, StaysOver, Assumptions,
         commands'[c] \subseteq commands[c], sent'[c] = sent[c]
  PROVE  Truthful(c) \subseteq Truthful(c)'
<1>1. sent[c] \in Nat
  BY DEF TypeOK, Assumptions
<1>2. Past(sent[c]) => Past(sent[c])'
  <2>1. Past(sent[c]) => \A n \in Nat : n = sent[c] => Past(n)'
    BY <1>1 DEF StaysOver
  <2> QED BY <1>1, <2>1 DEF Past
<1> QED BY <1>2 DEF Truthful, Replies

LEMMA PastSent ==
  ASSUME NEW c \in Conns, TypeOK, StaysOver, Assumptions, sent'[c] = sent[c], Past(sent[c])
  PROVE  Past(sent[c])'
<1>1. sent[c] \in Nat
  BY DEF TypeOK, Assumptions
<1>2. \A n \in Nat : n = sent[c] => Past(n)'
  BY DEF StaysOver
<1> QED BY <1>1, <1>2 DEF Past

LEMMA Written ==
  ASSUME NEW c \in Conns, Assumptions, TypeOK, StaysOver, Sound(c),
         commands'[c] \subseteq commands[c], sent'[c] = sent[c],
         serving'[c] = serving[c] \/ serving'[c] = 0,
         replies'[c] \in Seq(Truthful(c)'), ~New(c)'
  PROVE  Sound(c)'
  BY PastSent DEF Sound, Ordered

LEMMA Quiet ==
  ASSUME NEW c \in Conns, Assumptions, TypeOK, StaysOver, Sound(c),
         commands'[c] \subseteq commands[c], sent'[c] = sent[c], serving'[c] = serving[c],
         replies'[c] = replies[c], c \in subscribed' => c \in subscribed, New(c)' => New(c)
  PROVE  Sound(c)'
<1>1. Ordered(c)'
  BY PastSent DEF Sound, Ordered
<1>2. replies'[c] \in Seq(Truthful(c)')
  BY Grows, SeqMonotonic DEF Sound
<1> QED BY <1>1, <1>2 DEF Sound

------------------------------------------------------------------------------
(* The types, by the part of the state that an action can disturb. *)

ClientTypes ==
  /\ attempt \in 0..MaxAttempts /\ conns \in 0..MaxConns
  /\ at \in {"idle", "connecting", "sending", "getting"}
  /\ heard \in SUBSET {"subscribed", "sent", "failed", "turn_end"}
  /\ answer \in 0..MaxTurns

WireTypes ==
  /\ commands \in [Conns -> SUBSET {"subscribe", "send", "get_message"}]
  /\ replies \in [Conns -> Seq(Replies)]
  /\ serving \in [Conns -> 0..MaxTurns] /\ subscribed \in SUBSET Conns
  /\ sent \in [Conns -> 0..MaxTurns]

SessionTypes ==
  /\ turns \in 0..MaxTurns /\ waiting \in Seq(1..MaxTurns)
  /\ turn \in [n : 0..MaxTurns, at : {"none", "preparing", "running", "killed"}, aborted : BOOLEAN]
  /\ last \in 0..MaxTurns /\ clearing \in BOOLEAN

LEMMA TypeParts == TypeOK <=> ClientTypes /\ WireTypes /\ SessionTypes
  BY DEF TypeOK, ClientTypes, WireTypes, SessionTypes, Replies

LEMMA HeadType ==
  ASSUME WireTypes, conns \in Conns, replies[conns] # <<>>
  PROVE  Head(replies[conns]) \in Replies /\ Tail(replies[conns]) \in Seq(Replies)
  BY HeadTailProperties DEF WireTypes

LEMMA ClientTyped == ASSUME Assumptions, TypeOK, ClientSound, [Next]_vars PROVE ClientTypes'
<1> USE TypeParts
<1>1. CASE UNCHANGED client
  BY <1>1 DEF ClientTypes, client
<1>2. ASSUME NEW n \in 1..MaxAttempts, Connects(n) PROVE <<attempt, conns, at, heard>>' \in
        (0..MaxAttempts) \X (0..MaxConns) \X {"idle", "connecting", "sending", "getting"}
          \X SUBSET {"subscribed", "sent", "failed", "turn_end"}
  BY <1>2 DEF Connects, ClientTypes, Assumptions
<1>3. CASE Complete
  BY <1>2, <1>3 DEF Complete, ClientTypes, Assumptions
<1>4. CASE Connected
  BY <1>4 DEF Connected, ClientTypes
<1>5. ASSUME Fails, attempt > 0 PROVE <<attempt, conns, at, heard>>' \in
        (0..MaxAttempts) \X (0..MaxConns) \X {"idle", "connecting", "sending", "getting"}
          \X SUBSET {"subscribed", "sent", "failed", "turn_end"}
  <2>1. CASE attempt < MaxAttempts
    <3>1. attempt + 1 \in 1..MaxAttempts /\ Connects(attempt + 1)
      BY <1>5, <2>1 DEF ClientTypes, Assumptions, Fails
    <3> QED BY <3>1, <1>2
  <2>2. CASE ~(attempt < MaxAttempts)
    BY <1>5, <2>2 DEF Fails, ClientTypes, Assumptions
  <2> QED BY <2>1, <2>2
<1>6. CASE AttemptFails
  BY <1>5, <1>6 DEF AttemptFails, ClientTypes
<1>7. CASE Heard
  <2> DEFINE said == Head(replies[conns])
  <2>1. conns \in Conns /\ attempt > 0
    BY <1>7 DEF Heard, ClientSound, ClientTypes, Assumptions, Conns
  <2>2. said.type \in {"subscribed", "sent", "failed", "turn_end", "message"} /\ said.turn \in 0..MaxTurns
    BY <1>7, <2>1, HeadType DEF Heard, Replies
  <2>3. CASE said.type = "message"
    <3>1. Message(said.turn)
      BY <1>7, <2>3 DEF Heard
    <3>2. CASE said.turn > 0
      BY <2>2, <3>1, <3>2 DEF Message, ClientTypes, Assumptions
    <3>3. CASE ~(said.turn > 0)
      BY <1>5, <2>1, <3>1, <3>3 DEF Message, ClientTypes
    <3> QED BY <3>2, <3>3
  <2>4. CASE said.type # "message"
    <3>1. Settles(said.type) /\ UNCHANGED answer
      BY <1>7, <2>4 DEF Heard
    <3>2. CASE Fails
      BY <1>5, <2>1, <3>1, <3>2 DEF ClientTypes
    <3>3. CASE ~Fails
      BY <2>2, <2>4, <3>1, <3>3 DEF Settles, ClientTypes
    <3> QED BY <3>2, <3>3
  <2> QED BY <2>3, <2>4
<1>8. ASSUME NEW c \in Conns, Subscribe(c) \/ Send(c) \/ GetMessage(c) PROVE ClientTypes'
  BY <1>1, <1>8 DEF Subscribe, Send, GetMessage
<1>9. CASE TurnBegins \/ Spawned \/ TimesOut \/ TurnEnds \/ TurnBreaks \/ OperatorSends \/ Abort
           \/ Clear \/ Cleared \/ UNCHANGED vars
  BY <1>1, <1>9 DEF TurnBegins, Spawned, TimesOut, TurnEnds, TurnBreaks, OperatorSends, Abort,
                    Clear, Cleared, vars
<1> QED BY <1>3, <1>4, <1>6, <1>7, <1>8, <1>9 DEF Next

LEMMA SessionTyped == ASSUME Assumptions, TypeOK, [Next]_vars PROVE SessionTypes'
<1> USE TypeParts
<1>1. CASE UNCHANGED session
  BY <1>1 DEF SessionTypes, session
<1>2. ASSUME Enqueues PROVE turns' \in 0..MaxTurns /\ waiting' \in Seq(1..MaxTurns)
  <2>1. turns + 1 \in 1..MaxTurns
    BY <1>2 DEF Enqueues, SessionTypes, Assumptions
  <2> QED BY <1>2, <2>1, AppendProperties DEF Enqueues, SessionTypes
<1>3. ASSUME NEW c \in Conns, Send(c) PROVE SessionTypes'
  BY <1>2, <1>3 DEF Send, SessionTypes
<1>4. CASE OperatorSends
  BY <1>2, <1>4 DEF OperatorSends, SessionTypes
<1>5. CASE TurnBegins
  <2>1. Head(waiting) \in 1..MaxTurns /\ Tail(waiting) \in Seq(1..MaxTurns)
    BY <1>5, HeadTailProperties DEF TurnBegins, SessionTypes
  <2>2. turn' \in [n : 0..MaxTurns, at : {"none", "preparing", "running", "killed"}, aborted : BOOLEAN]
    BY <1>5, <2>1 DEF TurnBegins
  <2> QED BY <1>5, <2>1, <2>2 DEF TurnBegins, SessionTypes
<1>6. CASE Spawned \/ TimesOut
  BY <1>6 DEF Spawned, TimesOut, SessionTypes
<1>7. CASE TurnEnds \/ TurnBreaks
  <2>1. turn' \in [n : 0..MaxTurns, at : {"none", "preparing", "running", "killed"}, aborted : BOOLEAN]
    <3>1. turn' = NoTurn
      BY <1>7 DEF TurnEnds, TurnBreaks
    <3> QED BY <3>1 DEF NoTurn, Assumptions
  <2>2. turn.n \in 0..MaxTurns
    BY DEF SessionTypes
  <2> QED BY <1>7, <2>1, <2>2 DEF TurnEnds, TurnBreaks, SessionTypes
<1>8. CASE Abort
  <2>1. waiting' \in Seq(1..MaxTurns)
    BY <1>8, EmptySeq DEF Abort
  <2>2. turn' \in [n : 0..MaxTurns, at : {"none", "preparing", "running", "killed"}, aborted : BOOLEAN]
    BY <1>8 DEF Abort, SessionTypes
  <2> QED BY <1>8, <2>1, <2>2 DEF Abort, SessionTypes
<1>9. CASE Clear \/ Cleared
  <2>1. last' \in 0..MaxTurns /\ clearing' \in BOOLEAN
    <3>1. CASE Clear
      BY <3>1 DEF Clear, SessionTypes
    <3>2. CASE Cleared
      <4>1. last' = 0
        BY <3>2 DEF Cleared
      <4>2. last' \in 0..MaxTurns
        BY <4>1 DEF Assumptions
      <4>3. clearing' = FALSE
        BY <3>2 DEF Cleared
      <4>4. clearing' \in BOOLEAN
        BY <4>3
      <4> QED BY <4>2, <4>4
    <3> QED BY <1>9, <3>1, <3>2
  <2> QED BY <1>9, <2>1 DEF Clear, Cleared, SessionTypes
<1>10. ASSUME NEW c \in Conns, Subscribe(c) \/ GetMessage(c) PROVE SessionTypes'
  BY <1>1, <1>10 DEF Subscribe, GetMessage
<1>11. CASE Complete \/ Connected \/ AttemptFails \/ Heard \/ UNCHANGED vars
  BY <1>1, <1>11 DEF Complete, Connected, AttemptFails, Heard, vars
<1> QED BY <1>3, <1>4, <1>5, <1>6, <1>7, <1>8, <1>9, <1>10, <1>11 DEF Next

LEMMA Said ==
  ASSUME Assumptions, WireTypes, NEW c \in Conns, NEW type, NEW n, Reply(type, n) \in Replies, Says(c, type, n)
  PROVE  replies' \in [Conns -> Seq(Replies)] /\ replies'[c] = Append(replies[c], Reply(type, n))
  BY AppendProperties DEF Says, WireTypes

LEMMA ToldTyped ==
  ASSUME Assumptions, WireTypes, NEW n \in 0..MaxTurns, Told(n)
  PROVE  replies' \in [Conns -> Seq(Replies)]
<1>1. Reply("turn_end", n) \in Replies /\ Reply("sent", n) \in Replies
  BY DEF Reply, Replies
<1>2. \A b \in BOOLEAN : \A r \in Replies : (IF b THEN <<r>> ELSE <<>>) \in Seq(Replies)
  BY EmptySeq
<1>3. ASSUME NEW c \in Conns
      PROVE  replies[c] \o (IF c \in subscribed THEN <<Reply("turn_end", n)>> ELSE <<>>)
               \o (IF serving[c] = n THEN <<Reply("sent", n)>> ELSE <<>>) \in Seq(Replies)
  <2>1. /\ replies[c] \in Seq(Replies)
        /\ (IF c \in subscribed THEN <<Reply("turn_end", n)>> ELSE <<>>) \in Seq(Replies)
        /\ (IF serving[c] = n THEN <<Reply("sent", n)>> ELSE <<>>) \in Seq(Replies)
    BY <1>1, <1>2 DEF WireTypes
  <2> QED BY <2>1, ConcatProperties
<1> QED BY <1>3 DEF Told

LEMMA WiresTyped == ASSUME Assumptions, TypeOK, ClientSound, [Next]_vars PROVE WireTypes'
<1> USE TypeParts
<1>1. CASE UNCHANGED <<wires, serving, subscribed, sent>>
  BY <1>1 DEF WireTypes, wires
<1>2. CASE Complete \/ TurnBegins \/ Spawned \/ TimesOut \/ OperatorSends \/ Abort \/ Clear \/ Cleared
           \/ UNCHANGED vars
  BY <1>1, <1>2 DEF Complete, TurnBegins, Spawned, TimesOut, OperatorSends, Abort, Clear, Cleared, vars
<1>3. CASE Connected
  BY <1>3 DEF Connected, WireTypes
<1>4. CASE AttemptFails
  BY <1>4 DEF AttemptFails, Closes, WireTypes, wires
<1>5. CASE Heard
  <2>1. conns \in Conns
    BY <1>5 DEF Heard, ClientSound, ClientTypes, Assumptions, Conns
  <2>2. replies' \in [Conns -> Seq(Replies)]
    BY <1>5, <2>1, HeadType DEF Heard, WireTypes
  <2>3. commands' \in [Conns -> SUBSET {"subscribe", "send", "get_message"}] /\ subscribed' \in SUBSET Conns
    <3>1. CASE Message(Head(replies[conns]).turn)
      BY <3>1 DEF Message, Closes, WireTypes
    <3>2. CASE Settles(Head(replies[conns]).type)
      <4>1. /\ commands' = commands \/ commands' = [commands EXCEPT ![conns] = @ \cup {"get_message"}]
            /\ subscribed' = subscribed \/ subscribed' = subscribed \ {conns}
        BY <3>2 DEF Settles, Closes
      <4> QED BY <2>1, <4>1 DEF WireTypes
    <3> QED BY <1>5, <3>1, <3>2 DEF Heard
  <2> QED BY <1>5, <2>2, <2>3 DEF Heard, WireTypes
<1>6. ASSUME NEW c \in Conns, Subscribe(c) PROVE WireTypes'
  <2>1. Reply("subscribed", 0) \in Replies
    BY DEF Reply, Replies, Assumptions
  <2>2. replies' \in [Conns -> Seq(Replies)]
    BY <1>6, <2>1, Said DEF Subscribe
  <2> QED BY <1>6, <2>2 DEF Subscribe, Handles, WireTypes
<1>7. ASSUME NEW c \in Conns, Send(c) PROVE WireTypes'
  <2>1. CASE Says(c, "failed", 0) /\ UNCHANGED <<serving, sent>>
    <3>1. Reply("failed", 0) \in Replies
      BY DEF Reply, Replies, Assumptions
    <3>2. replies' \in [Conns -> Seq(Replies)]
      BY <2>1, <3>1, Said
    <3> QED BY <1>7, <2>1, <3>2 DEF Send, Handles, WireTypes
  <2>2. CASE ~(Says(c, "failed", 0) /\ UNCHANGED <<serving, sent>>)
    <3>1. turns + 1 \in 0..MaxTurns
      BY <1>7, <2>2 DEF Send, Enqueues, SessionTypes, Assumptions
    <3> QED BY <1>7, <2>2, <3>1 DEF Send, Handles, WireTypes
  <2> QED BY <2>1, <2>2
<1>8. ASSUME NEW c \in Conns, GetMessage(c) PROVE WireTypes'
  <2>1. Reply("message", last) \in Replies
    BY DEF Reply, Replies, SessionTypes
  <2>2. replies' \in [Conns -> Seq(Replies)]
    BY <1>8, <2>1, Said DEF GetMessage
  <2> QED BY <1>8, <2>2 DEF GetMessage, Handles, WireTypes
<1>9. ASSUME serving' = [c \in Conns |-> IF serving[c] = turn.n THEN 0 ELSE serving[c]]
      PROVE  serving' \in [Conns -> 0..MaxTurns]
  BY <1>9 DEF WireTypes, Assumptions
<1>10. CASE TurnEnds
  <2>1. replies' \in [Conns -> Seq(Replies)]
    BY <1>10, ToldTyped DEF TurnEnds, SessionTypes
  <2> QED BY <1>9, <1>10, <2>1 DEF TurnEnds, WireTypes
<1>11. CASE TurnBreaks
  <2>1. Reply("failed", turn.n) \in Replies
    BY DEF Reply, Replies, SessionTypes
  <2>2. replies' \in [Conns -> Seq(Replies)]
    BY <1>11, <2>1, AppendProperties DEF TurnBreaks, WireTypes
  <2> QED BY <1>9, <1>11, <2>2 DEF TurnBreaks, WireTypes
<1> QED BY <1>2, <1>3, <1>4, <1>5, <1>6, <1>7, <1>8, <1>10, <1>11 DEF Next

------------------------------------------------------------------------------
(* The steps. *)

Kept == ClientSound /\ NothingOlder /\ \A c \in Conns : Sound(c)

LEMMA Counts == ASSUME Assumptions, TypeOK
  PROVE  /\ conns \in Nat /\ attempt \in Nat /\ answer \in Nat /\ turns \in Nat
         /\ \A c \in Conns : c \in Nat /\ c > 0 /\ sent[c] \in Nat /\ serving[c] \in Nat
         /\ conns > 0 => conns \in Conns
  BY DEF TypeOK, Assumptions, Conns

(* The client goes on as it was. *)
LEMMA ClientKept ==
  ASSUME Assumptions, IInv, StaysOver, UNCHANGED client,
         \A c \in Conns : commands'[c] \subseteq commands[c],
         \A c \in Conns : sent'[c] = sent[c] \/ "send" \in commands[c]
  PROVE  ClientSound' /\ NothingOlder' /\ \A c \in Conns : New(c)' => New(c)
<1> USE DEF IInv
<1>1. UNCHANGED <<attempt, conns, at, heard, answer>>
  BY DEF client
<1>2. attempt > 0 \/ answer > 0 => conns \in Conns
  BY Counts DEF ClientSound
<1>3. ASSUME attempt > 0, "sent" \in heard PROVE "send" \notin commands'[conns] /\ Past(sent[conns])'
  <2>1. conns \in Conns /\ "send" \notin commands[conns] /\ Past(sent[conns])
    BY <1>2, <1>3 DEF ClientSound
  <2>2. sent'[conns] = sent[conns]
    BY <2>1
  <2>3. \A c \in Conns : c = conns => Past(sent[c])'
    BY <2>1, <2>2, PastSent
  <2> QED BY <1>1, <2>1, <2>3 DEF Past
<1>4. ClientSound'
  BY <1>1, <1>2, <1>3 DEF ClientSound
<1>5. NothingOlder'
  BY <1>1, <1>2 DEF NothingOlder, ClientSound
<1> QED BY <1>1, <1>4, <1>5 DEF New

(* It begins an attempt, or gives up. *)
LEMMA Broken ==
  ASSUME Assumptions, IInv, attempt > 0, Fails, UNCHANGED answer
  PROVE  ClientSound' /\ NothingOlder' /\ \A c \in Conns : New(c)' => New(c) /\ c # conns
<1> USE DEF IInv
<1>1. answer' = 0 /\ conns \in Nat /\ attempt \in Nat
  BY Counts DEF ClientSound
<1>2. NothingOlder'
  BY <1>1 DEF NothingOlder
<1>3. CASE attempt < MaxAttempts
  <2>1. attempt' = attempt + 1 /\ conns' = conns + 1 /\ at' = "connecting" /\ heard' = {}
    BY <1>3 DEF Fails, Connects
  <2>2. ClientSound'
    BY <1>1, <2>1 DEF ClientSound
  <2> QED BY <1>1, <1>2, <2>1, <2>2, Counts DEF New
<1>4. CASE ~(attempt < MaxAttempts)
  <2>1. attempt' = 0 /\ conns' = conns /\ at' = "idle" /\ heard' = heard
    BY <1>4 DEF Fails
  <2>2. ClientSound'
    BY <1>1, <2>1 DEF ClientSound
  <2> QED BY <1>1, <1>2, <2>1, <2>2, Counts DEF New
<1> QED BY <1>3, <1>4

LEMMA CompleteStep == ASSUME Assumptions, IInv, StaysOver, Complete PROVE Kept'
<1> USE DEF IInv
<1>1. /\ attempt' = 1 /\ conns' = conns + 1 /\ at' = "connecting" /\ heard' = {} /\ answer' = 0
      /\ UNCHANGED <<commands, replies, serving, subscribed, sent>>
  BY DEF Complete, Connects, wires
<1>2. ClientSound' /\ NothingOlder'
  BY <1>1, Counts DEF ClientSound, NothingOlder
<1>3. \A c \in Conns : New(c)' => New(c)
  BY <1>1, Counts DEF New
<1>4. \A c \in Conns : Sound(c)'
  BY <1>1, <1>3, Quiet
<1> QED BY <1>2, <1>4 DEF Kept

LEMMA ConnectedStep == ASSUME Assumptions, IInv, StaysOver, Connected PROVE Kept'
<1> USE DEF IInv
<1>1. /\ at = "connecting" /\ at' = "sending" /\ attempt > 0 /\ answer = 0 /\ heard = {}
      /\ UNCHANGED <<attempt, conns, heard, answer, replies, serving, subscribed, sent>>
      /\ commands' = [commands EXCEPT ![conns] = {"subscribe", "send"}]
      /\ conns \in Conns
  BY Counts DEF Connected, ClientSound
<1>2. ClientSound' /\ NothingOlder'
  BY <1>1, Counts DEF ClientSound, NothingOlder
<1>3. ASSUME NEW c \in Conns, c # conns PROVE Sound(c)'
  <2>1. commands'[c] = commands[c]
    BY <1>1, <1>3 DEF TypeOK
  <2>2. New(c)' => New(c)
    BY <1>1 DEF New
  <2> QED BY <1>1, <2>1, <2>2, Quiet
<1>4. Sound(conns)'
  <2>1. replies[conns] = <<>> /\ serving[conns] = 0 /\ ~New(conns)'
    BY <1>1, Counts DEF Sound, Ordered, New
  <2>2. commands'[conns] = {"subscribe", "send"}
    BY <1>1 DEF TypeOK
  <2>3. (replies[conns] \in Seq(Truthful(conns)))'
    BY <1>1, <2>1, EmptySeq
  <2>4. Ordered(conns)'
    BY <1>1, <2>1, <2>2 DEF Ordered
  <2> QED BY <2>3, <2>4 DEF Sound
<1>5. \A c \in Conns : Sound(c)'
  BY <1>1, <1>3, <1>4
<1> QED BY <1>2, <1>5 DEF Kept

LEMMA AttemptFailsStep == ASSUME Assumptions, IInv, StaysOver, AttemptFails PROVE Kept'
<1> USE DEF IInv
<1>1. /\ attempt > 0 /\ Fails /\ UNCHANGED <<answer, commands, replies, serving, sent>>
      /\ subscribed' = subscribed \ {conns}
  BY DEF AttemptFails, Closes, wires
<1>2. ClientSound' /\ NothingOlder' /\ \A c \in Conns : New(c)' => New(c)
  BY <1>1, Broken
<1>3. \A c \in Conns : Sound(c)'
  BY <1>1, <1>2, Quiet
<1> QED BY <1>2, <1>3 DEF Kept

LEMMA SubscribeStep == ASSUME Assumptions, IInv, StaysOver, NEW c \in Conns, Subscribe(c) PROVE Kept'
<1> USE DEF IInv
<1>1. /\ "subscribe" \in commands[c] /\ commands' = [commands EXCEPT ![c] = @ \ {"subscribe"}]
      /\ subscribed' = subscribed \/ subscribed' = subscribed \cup {c}
      /\ Says(c, "subscribed", 0) /\ UNCHANGED client /\ UNCHANGED <<serving, sent>>
  BY DEF Subscribe, Handles
<1>2. \A d \in Conns : commands'[d] \subseteq commands[d]
  BY <1>1 DEF TypeOK
<1>3. ClientSound' /\ NothingOlder' /\ \A d \in Conns : New(d)' => New(d)
  BY <1>1, <1>2, ClientKept
<1>4. ASSUME NEW d \in Conns, d # c PROVE Sound(d)'
  <2>1. replies'[d] = replies[d]
    BY <1>1, <1>4 DEF Says, TypeOK
  <2> QED BY <1>1, <1>2, <1>3, <1>4, <2>1, Quiet
<1>5. Sound(c)'
  <2>1. ~New(c)'
    BY <1>1, <1>3 DEF Sound, Ordered
  <2>2. Reply("subscribed", 0) \in Truthful(c)'
    BY DEF Truthful, Reply, Replies, Assumptions
  <2>3. replies[c] \in Seq(Truthful(c)')
    BY <1>1, <1>2, Grows, SeqMonotonic DEF Sound
  <2>4. replies'[c] = Append(replies[c], Reply("subscribed", 0))
    BY <1>1 DEF Says, TypeOK
  <2>5. replies'[c] \in Seq(Truthful(c)')
    BY <2>2, <2>3, <2>4, AppendProperties
  <2> QED BY <1>1, <1>2, <2>1, <2>5, Written
<1> QED BY <1>3, <1>4, <1>5 DEF Kept

LEMMA GetMessageStep == ASSUME Assumptions, IInv, StaysOver, NEW c \in Conns, GetMessage(c) PROVE Kept'
<1> USE DEF IInv
<1>1. /\ "get_message" \in commands[c] /\ commands' = [commands EXCEPT ![c] = @ \ {"get_message"}]
      /\ Says(c, "message", last) /\ UNCHANGED client /\ UNCHANGED <<serving, subscribed, sent, last>>
  BY DEF GetMessage, Handles, session
<1>2. \A d \in Conns : commands'[d] \subseteq commands[d]
  BY <1>1 DEF TypeOK
<1>3. ClientSound' /\ NothingOlder' /\ \A d \in Conns : New(d)' => New(d)
  BY <1>1, <1>2, ClientKept
<1>4. ASSUME NEW d \in Conns, d # c PROVE Sound(d)'
  <2>1. replies'[d] = replies[d]
    BY <1>1, <1>4 DEF Says, TypeOK
  <2> QED BY <1>1, <1>2, <1>3, <2>1, Quiet
<1>5. Sound(c)'
  <2>1. ~New(c)' /\ "send" \notin commands[c] /\ Past(sent[c])
    BY <1>1, <1>3 DEF Sound, Ordered
  <2>2. last = 0 \/ last >= sent[c]
    BY <2>1 DEF Past
  <2>3. Reply("message", last) \in Truthful(c)'
    BY <1>1, <1>2, <2>1, <2>2 DEF Truthful, Reply, Replies, TypeOK
  <2>4. replies[c] \in Seq(Truthful(c)')
    BY <1>1, <1>2, Grows, SeqMonotonic DEF Sound
  <2>5. replies'[c] = Append(replies[c], Reply("message", last))
    BY <1>1 DEF Says, TypeOK
  <2>6. replies'[c] \in Seq(Truthful(c)')
    BY <2>3, <2>4, <2>5, AppendProperties
  <2> QED BY <1>1, <1>2, <2>1, <2>6, Written
<1> QED BY <1>3, <1>4, <1>5 DEF Kept

(* Before the send nothing on the way to the connection speaks of its turn. *)
LEMMA SendStep == ASSUME Assumptions, IInv, StaysOver, NEW c \in Conns, Send(c) PROVE Kept'
<1> USE DEF IInv
<1>1. /\ "send" \in commands[c] /\ commands' = [commands EXCEPT ![c] = @ \ {"send"}]
      /\ UNCHANGED client /\ UNCHANGED subscribed
      /\ \/ /\ Enqueues /\ UNCHANGED replies
            /\ serving' = [serving EXCEPT ![c] = turns + 1] /\ sent' = [sent EXCEPT ![c] = turns + 1]
         \/ Says(c, "failed", 0) /\ UNCHANGED <<serving, sent>>
  BY DEF Send, Handles
<1>2. \A d \in Conns : commands'[d] \subseteq commands[d]
  BY <1>1 DEF TypeOK
<1>3. \A d \in Conns : d # c => sent'[d] = sent[d] /\ serving'[d] = serving[d] /\ replies'[d] = replies[d]
  BY <1>1 DEF TypeOK, Says
<1>4. ClientSound' /\ NothingOlder' /\ \A d \in Conns : New(d)' => New(d)
  BY <1>1, <1>2, <1>3, ClientKept
<1>5. \A d \in Conns : d # c => Sound(d)'
  BY <1>1, <1>2, <1>3, <1>4, Quiet
<1>6. /\ ~New(c)' /\ "get_message" \notin commands'[c] /\ "send" \notin commands'[c]
  BY <1>1, <1>2, <1>4 DEF Sound, Ordered, TypeOK
<1>7. \A r \in Truthful(c) : r \in Replies /\ r.type \notin {"sent", "message"}
  BY <1>1 DEF Truthful
<1>8. Truthful(c) \subseteq Truthful(c)'
  BY <1>7 DEF Truthful
<1>9. replies[c] \in Seq(Truthful(c)')
  BY <1>8, SeqMonotonic DEF Sound
<1>10. CASE Enqueues /\ UNCHANGED replies /\ serving' = [serving EXCEPT ![c] = turns + 1]
              /\ sent' = [sent EXCEPT ![c] = turns + 1]
  <2>1. serving'[c] = turns + 1 /\ sent'[c] = turns + 1
    BY <1>10 DEF TypeOK
  <2>2. Ordered(c)'
    BY <1>6, <2>1 DEF Ordered
  <2>3. replies'[c] \in Seq(Truthful(c)')
    BY <1>9, <1>10
  <2> QED BY <1>4, <1>5, <2>2, <2>3 DEF Kept, Sound
<1>11. CASE Says(c, "failed", 0) /\ UNCHANGED <<serving, sent>>
  <2>1. Reply("failed", 0) \in Truthful(c)'
    BY DEF Truthful, Reply, Replies, Assumptions
  <2>2. replies'[c] = Append(replies[c], Reply("failed", 0))
    BY <1>11 DEF Says, TypeOK
  <2>3. replies'[c] \in Seq(Truthful(c)')
    BY <1>9, <2>1, <2>2, AppendProperties
  <2>4. Sound(c)'
    BY <1>2, <1>6, <1>11, <2>3, Written
  <2> QED BY <1>4, <1>5, <2>4 DEF Kept
<1> QED BY <1>1, <1>10, <1>11

LEMMA SessionStep ==
  ASSUME Assumptions, IInv, StaysOver,
         TurnBegins \/ Spawned \/ TimesOut \/ OperatorSends \/ Abort \/ Clear \/ Cleared \/ UNCHANGED vars
  PROVE  Kept'
<1> USE DEF IInv
<1>1. UNCHANGED client /\ UNCHANGED <<commands, replies, serving, subscribed, sent>>
  BY DEF TurnBegins, Spawned, TimesOut, OperatorSends, Abort, Clear, Cleared, vars, wires
<1>2. ClientSound' /\ NothingOlder' /\ \A c \in Conns : New(c)' => New(c)
  BY <1>1, ClientKept
<1>3. \A c \in Conns : Sound(c)'
  BY <1>1, <1>2, Quiet
<1> QED BY <1>2, <1>3 DEF Kept

(* Who awaits the turn that ends has sent it, and it is over. *)
LEMMA Awaited ==
  ASSUME Assumptions, IInv, StaysOver, Ending, UNCHANGED <<commands, sent>>,
         NEW c \in Conns, serving[c] = turn.n, ~New(c)'
  PROVE  Reply("sent", turn.n) \in Truthful(c)'
<1> USE DEF IInv
<1>1. turn.n > 0
  BY Over
<1>2. sent[c] = turn.n /\ "send" \notin commands[c]
  BY <1>1 DEF Sound, Ordered
<1>3. \A n \in Nat : n = turn.n => Past(n)'
  BY Over
<1>4. Past(sent[c])'
  BY <1>2, <1>3, Counts DEF Past
<1>5. Reply("sent", turn.n) \in Replies
  BY DEF Reply, Replies, TypeOK
<1> QED BY <1>2, <1>4, <1>5 DEF Truthful, Reply

LEMMA TurnEndsStep == ASSUME Assumptions, IInv, StaysOver, TurnEnds PROVE Kept'
<1> USE DEF IInv
<1> DEFINE ends(c) == IF c \in subscribed THEN <<Reply("turn_end", turn.n)>> ELSE <<>>
           dones(c) == IF serving[c] = turn.n THEN <<Reply("sent", turn.n)>> ELSE <<>>
<1>1. /\ Ending /\ UNCHANGED client /\ UNCHANGED <<commands, sent>> /\ subscribed' = {}
      /\ \A c \in Conns : replies'[c] = replies[c] \o ends(c) \o dones(c)
      /\ \A c \in Conns : serving'[c] = 0 \/ (serving'[c] = serving[c] /\ serving[c] # turn.n)
  BY DEF TurnEnds, Told, Ending
<1>2. turn.n > 0
  BY <1>1, Over
<1>3. ClientSound' /\ NothingOlder' /\ \A c \in Conns : New(c)' => New(c)
  BY <1>1, ClientKept
<1>4. ASSUME NEW c \in Conns, New(c) PROVE Sound(c)'
  <2>1. replies[c] = <<>> /\ serving[c] = 0 /\ c \notin subscribed
    BY <1>4 DEF Sound, Ordered
  <2>2. ends(c) = <<>> /\ dones(c) = <<>>
    BY <1>2, <2>1
  <2> HIDE DEF ends, dones
  <2>3. replies'[c] = replies[c]
    <3>1. <<>> \o <<>> \o <<>> = <<>>
      BY EmptySeq, ConcatEmptySeq
    <3> QED BY <1>1, <2>1, <2>2, <3>1
  <2> QED BY <1>1, <1>3, <1>4, <2>1, <2>3, Quiet
<1>5. ASSUME NEW c \in Conns, ~New(c) PROVE Sound(c)'
  <2>1. ~New(c)'
    BY <1>3, <1>5
  <2>2. Reply("turn_end", turn.n) \in Truthful(c)'
    BY DEF Truthful, Reply, Replies, TypeOK
  <2>3. serving[c] = turn.n => Reply("sent", turn.n) \in Truthful(c)'
    BY <1>1, <2>1, Awaited
  <2>4. ends(c) \in Seq(Truthful(c)') /\ dones(c) \in Seq(Truthful(c)')
    BY <2>2, <2>3, EmptySeq
  <2>5. replies[c] \in Seq(Truthful(c)')
    BY <1>1, Grows, SeqMonotonic DEF Sound
  <2> HIDE DEF ends, dones
  <2>6. replies'[c] \in Seq(Truthful(c)')
    <3>1. replies[c] \o ends(c) \in Seq(Truthful(c)')
      BY <2>4, <2>5, ConcatProperties
    <3>2. (replies[c] \o ends(c)) \o dones(c) \in Seq(Truthful(c)')
      BY <2>4, <3>1, ConcatProperties
    <3> QED BY <1>1, <3>2
  <2> QED BY <1>1, <2>1, <2>6, Written
<1> QED BY <1>3, <1>4, <1>5 DEF Kept

LEMMA TurnBreaksStep == ASSUME Assumptions, IInv, StaysOver, TurnBreaks PROVE Kept'
<1> USE DEF IInv
<1>1. /\ Ending /\ UNCHANGED client /\ UNCHANGED <<commands, sent, subscribed>>
      /\ \A c \in Conns : replies'[c] = IF serving[c] = turn.n THEN Append(replies[c], Reply("failed", turn.n))
                                                               ELSE replies[c]
      /\ \A c \in Conns : serving'[c] = IF serving[c] = turn.n THEN 0 ELSE serving[c]
  BY DEF TurnBreaks, Ending
<1>2. turn.n > 0
  BY <1>1, Over
<1>3. ClientSound' /\ NothingOlder' /\ \A c \in Conns : New(c)' => New(c)
  BY <1>1, ClientKept
<1>4. ASSUME NEW c \in Conns, serving[c] # turn.n PROVE Sound(c)'
  BY <1>1, <1>3, <1>4, Quiet
<1>5. ASSUME NEW c \in Conns, serving[c] = turn.n PROVE Sound(c)'
  <2>1. ~New(c)'
    BY <1>2, <1>3, <1>5 DEF Sound, Ordered
  <2>2. Reply("failed", turn.n) \in Truthful(c)'
    BY DEF Truthful, Reply, Replies, TypeOK
  <2>3. replies[c] \in Seq(Truthful(c)')
    BY <1>1, Grows, SeqMonotonic DEF Sound
  <2>4. replies'[c] \in Seq(Truthful(c)')
    BY <1>1, <1>5, <2>2, <2>3, AppendProperties
  <2> QED BY <1>1, <1>5, <2>1, <2>4, Written
<1> QED BY <1>3, <1>4, <1>5 DEF Kept

(* The client hears a reply: it fails, has its answer, asks for it, or notes what it heard. *)
LEMMA HeardStep == ASSUME Assumptions, IInv, StaysOver, Heard PROVE Kept'
<1> USE DEF IInv
<1> DEFINE said == Head(replies[conns])
           known == heard \cup {said.type}
<1>1. /\ attempt > 0 /\ answer = 0 /\ conns \in Conns /\ replies[conns] # <<>>
      /\ replies' = [replies EXCEPT ![conns] = Tail(@)]
      /\ UNCHANGED <<serving, sent>> /\ UNCHANGED session
      /\ IF said.type = "message" THEN Message(said.turn) ELSE Settles(said.type) /\ UNCHANGED answer
  BY Counts DEF Heard, ClientSound
<1>2. replies'[conns] = Tail(replies[conns]) /\ \A c \in Conns : c # conns => replies'[c] = replies[c]
  BY <1>1 DEF TypeOK
<1>3. said \in Truthful(conns) /\ Tail(replies[conns]) \in Seq(Truthful(conns))
  BY <1>1, HeadTailProperties DEF Sound
<1>4. ~New(conns) /\ at # "connecting"
  BY <1>1 DEF Sound, Ordered, New
<1>5. "sent" \in known /\ said.type # "message" => "send" \notin commands[conns] /\ Past(sent[conns])
  BY <1>1, <1>3 DEF Truthful, ClientSound
<1>6. ASSUME commands' = commands, subscribed' \subseteq subscribed, \A c \in Conns : New(c)' => New(c)
      PROVE  \A c \in Conns : Sound(c)'
  <2>1. ASSUME NEW c \in Conns, c # conns PROVE Sound(c)'
    BY <1>1, <1>2, <1>6, <2>1, Quiet
  <2>2. ASSUME NEW c \in Conns, c = conns PROVE Sound(c)'
    <3>1. replies'[c] \in Seq(Truthful(c)')
      BY <1>1, <1>2, <1>3, <1>6, <2>2, Grows, SeqMonotonic
    <3>2. ~New(c)'
      BY <1>4, <1>6, <2>2
    <3> QED BY <1>1, <1>6, <3>1, <3>2, Written
  <2> QED BY <2>1, <2>2
<1>7. CASE Fails /\ Closes /\ UNCHANGED commands /\ UNCHANGED answer
  <2>1. ClientSound' /\ NothingOlder' /\ \A c \in Conns : New(c)' => New(c)
    BY <1>1, <1>7, Broken
  <2>2. \A c \in Conns : Sound(c)'
    BY <1>6, <1>7, <2>1 DEF Closes
  <2> QED BY <2>1, <2>2 DEF Kept
<1>8. CASE said.type = "message" /\ said.turn > 0
  <2>1. attempt' = 0 /\ at' = "idle" /\ answer' = said.turn /\ UNCHANGED <<conns, heard, commands>> /\ Closes
    BY <1>1, <1>8 DEF Message
  <2>2. "send" \notin commands[conns] /\ said.turn >= sent[conns]
    BY <1>3, <1>8, <1>1 DEF Truthful
  <2>3. ClientSound' /\ NothingOlder'
    BY <1>1, <2>1, <2>2, Counts DEF ClientSound, NothingOlder
  <2>4. \A c \in Conns : New(c)' => New(c)
    BY <2>1 DEF New
  <2>5. \A c \in Conns : Sound(c)'
    BY <1>6, <2>1, <2>4 DEF Closes
  <2> QED BY <2>3, <2>5 DEF Kept
<1>9. ASSUME said.type # "message", heard' = known, at' # "connecting", at' \in {"getting", at}, UNCHANGED <<attempt, conns, answer>>,
             commands' = commands \/ commands' = [commands EXCEPT ![conns] = @ \cup {"get_message"}]
      PROVE  ClientSound' /\ NothingOlder' /\ (\A c \in Conns : New(c)' => New(c))
             /\ ("sent" \in known => Past(sent[conns])')
  <2>1. "send" \in commands'[conns] => "send" \in commands[conns]
    BY <1>1, <1>9 DEF TypeOK
  <2>2. "sent" \in known => Past(sent[conns])'
    <3>1. \A c \in Conns : c = conns /\ Past(sent[c]) => Past(sent[c])'
      BY <1>1, PastSent
    <3> QED BY <1>1, <1>5, <1>9, <3>1 DEF Past
  <2>3. ClientSound'
    BY <1>1, <1>5, <1>9, <2>1, <2>2 DEF ClientSound
  <2>4. NothingOlder' /\ \A c \in Conns : New(c)' => New(c)
    BY <1>1, <1>9 DEF NothingOlder, New
  <2> QED BY <2>2, <2>3, <2>4
<1>10. CASE said.type # "message" /\ at = "sending" /\ MayGet(known)
            /\ at' = "getting" /\ heard' = known /\ UNCHANGED <<attempt, conns, subscribed, answer>>
            /\ commands' = [commands EXCEPT ![conns] = @ \cup {"get_message"}]
  <2>1. "sent" \in known
    BY <1>10 DEF MayGet
  <2>2. ClientSound' /\ NothingOlder' /\ (\A c \in Conns : New(c)' => New(c)) /\ Past(sent[conns])'
    BY <1>9, <1>10, <2>1
  <2>3. "send" \notin commands[conns]
    BY <1>5, <1>10, <2>1
  <2>4. ASSUME NEW c \in Conns, c # conns PROVE Sound(c)'
    <3>1. commands'[c] = commands[c]
      BY <1>10, <2>4 DEF TypeOK
    <3> QED BY <1>1, <1>2, <1>10, <2>2, <2>4, <3>1, Quiet
  <2>5. ASSUME NEW c \in Conns, c = conns PROVE Sound(c)'
    <3>1. commands'[c] = commands[c] \cup {"get_message"} /\ "send" \notin commands'[c]
      BY <1>10, <2>3, <2>5 DEF TypeOK
    <3>2. ~New(c)' /\ Past(sent[c])'
      BY <1>4, <1>10, <2>2, <2>5 DEF Past
    <3>3. Ordered(c)'
      BY <1>1, <3>1, <3>2 DEF Sound, Ordered
    <3>4. Truthful(c) \subseteq Truthful(c)'
      BY <1>1, <3>1, <3>2 DEF Truthful
    <3>5. replies'[c] \in Seq(Truthful(c)')
      BY <1>2, <1>3, <2>5, <3>4, SeqMonotonic
    <3> QED BY <3>3, <3>5 DEF Sound
  <2> QED BY <2>2, <2>4, <2>5 DEF Kept
<1>11. CASE said.type # "message" /\ heard' = known /\ UNCHANGED <<attempt, conns, at, commands, subscribed, answer>>
  <2>1. ClientSound' /\ NothingOlder' /\ \A c \in Conns : New(c)' => New(c)
    BY <1>4, <1>9, <1>11
  <2> QED BY <1>6, <1>11, <2>1 DEF Kept
<1>12. CASE said.type = "message" /\ ~(said.turn > 0)
  BY <1>1, <1>7, <1>12 DEF Message
<1>13. CASE said.type # "message"
  <2>1. Settles(said.type) /\ UNCHANGED answer
    BY <1>1, <1>13
  <2> QED BY <1>7, <1>10, <1>11, <1>13, <2>1 DEF Settles
<1> QED BY <1>8, <1>12, <1>13

------------------------------------------------------------------------------
LEMMA NextSound == Assumptions /\ IInv /\ [Next]_vars => IInv'
<1> SUFFICES ASSUME Assumptions, IInv, [Next]_vars PROVE IInv'
  OBVIOUS
<1>1. InOrder' /\ StaysOver
  BY SessionSound DEF IInv
<1>2. TypeOK'
  <2>1. ClientTypes' /\ WireTypes' /\ SessionTypes'
    BY ClientTyped, WiresTyped, SessionTyped DEF IInv
  <2> QED BY <2>1 DEF TypeOK, ClientTypes, WireTypes, SessionTypes, Replies
<1>3. ASSUME NEW c \in Conns, Subscribe(c) \/ Send(c) \/ GetMessage(c) PROVE Kept'
  BY <1>1, <1>3, SubscribeStep, SendStep, GetMessageStep
<1>4. Kept'
  BY <1>1, <1>3, CompleteStep, ConnectedStep, AttemptFailsStep, HeardStep, TurnEndsStep, TurnBreaksStep,
     SessionStep DEF Next
<1> QED BY <1>1, <1>2, <1>4 DEF IInv, Kept

(* The invariant holds in every reachable state. *)
THEOREM InvariantHolds == ASSUME Assumptions PROVE Spec => []IInv
<1>1. Init => IInv
  BY InitSound
<1>2. IInv /\ [Next]_vars => IInv'
  BY NextSound
<1> QED BY <1>1, <1>2, PTL DEF Spec

(* The client, the wires and the session have their types. *)
THEOREM TypeCorrect == ASSUME Assumptions PROVE Spec => []TypeOK
<1>1. IInv => TypeOK
  BY DEF IInv
<1> QED BY <1>1, InvariantHolds, PTL

(* A completion returns no answer older than its own turn, whatever earlier attempts,      *)
(* other completions and operators left in the session (completeViaSocket).                *)
THEOREM AnswerCorrect == ASSUME Assumptions PROVE Spec => []NothingOlder
<1>1. IInv => NothingOlder
  BY DEF IInv
<1> QED BY <1>1, InvariantHolds, PTL
=============================================================================
