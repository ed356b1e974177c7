------------------------ MODULE InboundEventsProofs ------------------------
(***************************************************************************)
(* What InboundEvents promises for any events, deliveries, settings, texts *)
(* and windows: its types, and that an event is acted upon once.           *)
(*                                                                         *)
(* The argument: whatever was accepted of an event was accepted when the   *)
(* guard says or before, and any two of these times are further apart than *)
(* the window, whether they have been acted upon or still wait.            *)
(***************************************************************************)
EXTENDS InboundEvents, TLAPS

Assumptions ==
  /\ Never \notin Nat
  /\ Window \in Nat /\ SessionWindow \in Nat /\ MaxTime \in Nat
  /\ Setups \subseteq [provider : {"legacy", "chat_sdk", "dual"}, shadow : BOOLEAN,
                       mode : {"session", "task", "hybrid"}, verified : BOOLEAN]
  /\ Text \in [Events -> [directive : {"task", "session", Unset}, body : {"talk", "command", "empty"},
                          intent : Intents, cue : BOOLEAN]]

Waits(d) == deliveries[d].at = "dispatching"
Apart(s, t) == s > t + Window \/ t > s + Window

Known ==
  /\ \A d \in Deliveries : deliveries[d].at # "none" => deliveries[d].event \in Events
  /\ \A d \in Deliveries : Waits(d) =>
       /\ deliveries[d].accepted \in Times
       /\ guard[deliveries[d].event] \in Times
       /\ deliveries[d].accepted <= guard[deliveries[d].event]
  /\ \A e \in Events : \A t \in taken[e] : guard[e] \in Times /\ t <= guard[e]

Spaced ==
  /\ \A c, d \in Deliveries :
       c # d /\ Waits(c) /\ Waits(d) /\ deliveries[c].event = deliveries[d].event =>
         Apart(deliveries[c].accepted, deliveries[d].accepted)
  /\ \A d \in Deliveries : Waits(d) =>
       \A t \in taken[deliveries[d].event] : Apart(deliveries[d].accepted, t)

IInv == TypeOK /\ Known /\ Spaced /\ TakenOnce

LEMMA InitSound == Assumptions /\ Init => IInv
<1> SUFFICES ASSUME Assumptions, Init PROVE IInv
  OBVIOUS
<1>1. TypeOK
  BY DEF Assumptions, Init, TypeOK, NoDelivery, NoTask, TaskPolicies, Times, Stacks, Intents, Artifacts
<1>2. Known /\ Spaced /\ TakenOnce
  BY DEF Init, Known, Spaced, TakenOnce, Waits, NoDelivery
<1> QED BY <1>1, <1>2 DEF IInv

(* A step that accepts nothing and acts upon nothing, after which no more deliveries wait  *)
(* to be dispatched than before.                                                           *)
LEMMA Unmoved ==
  ASSUME Known, Spaced, TakenOnce,
         \A d \in Deliveries : deliveries'[d].at # "none" => deliveries'[d].event \in Events,
         \A d \in Deliveries : Waits(d)' => Waits(d) /\ deliveries'[d] = deliveries[d],
         UNCHANGED <<guard, taken, again>>
  PROVE  (Known /\ Spaced /\ TakenOnce)'
<1>1. Known'
  BY DEF Known, Waits
<1>2. Spaced'
  BY DEF Spaced, Waits
<1>3. TakenOnce'
  BY DEF TakenOnce
<1> QED BY <1>1, <1>2, <1>3

LEMMA ReceivedSound ==
  ASSUME Assumptions, IInv, NEW d \in Deliveries, NEW stack \in Stacks, NEW event \in Events,
         Received(d, stack, event)
  PROVE  IInv'
<1> USE DEF IInv
<1>1. deliveries' = [deliveries EXCEPT ![d] = [event |-> event, stack |-> stack, accepted |-> Never, at |-> "received"]]
      /\ UNCHANGED <<setup, now, guard, seen, tasks, bound, taken, again>>
  BY DEF Received
<1>2. TypeOK'
  BY <1>1 DEF TypeOK
<1>3. (Known /\ Spaced /\ TakenOnce)'
  BY <1>1, Unmoved DEF TypeOK, Waits, Known
<1> QED BY <1>2, <1>3

LEMMA AcceptedSound ==
  ASSUME Assumptions, IInv, NEW d \in Deliveries, Accepted(d)
  PROVE  IInv'
<1> USE DEF IInv
<1> DEFINE event == deliveries[d].event
<1>1. deliveries[d].at = "received" /\ event \in Events
      /\ UNCHANGED <<setup, now, seen, tasks, bound, taken, again>>
  BY DEF Accepted, Known
<1>2. CASE ~ShouldAccept(event)
  <2>1. deliveries' = [deliveries EXCEPT ![d] = NoDelivery] /\ guard' = guard
    BY <1>2 DEF Accepted, Ends
  <2>2. TypeOK'
    BY <1>1, <2>1 DEF TypeOK, NoDelivery, Stacks
  <2>3. (Known /\ Spaced /\ TakenOnce)'
    BY <1>1, <2>1, Unmoved DEF TypeOK, Waits, Known, NoDelivery
  <2> QED BY <2>2, <2>3
<1>3. CASE ShouldAccept(event)
  <2>1. /\ guard' = [guard EXCEPT ![event] = now]
        /\ deliveries' = [deliveries EXCEPT ![d] =
             [event |-> event, stack |-> deliveries[d].stack, accepted |-> now, at |-> "dispatching"]]
    BY <1>3 DEF Accepted
  <2>2. TypeOK'
    <3>1. deliveries' \in [Deliveries -> [event : Events \cup {Never}, stack : Stacks, accepted : Times \cup {Never},
                              at : {"none", "received", "dispatching", "working", "submitting", "tracking", "replying"}]]
      BY <1>1, <2>1 DEF TypeOK
    <3>2. guard' \in [Events -> Times \cup {Never}]
      BY <1>1, <2>1 DEF TypeOK
    <3> QED BY <1>1, <3>1, <3>2 DEF TypeOK
  <2>3. now \in Nat /\ Window \in Nat /\ (guard[event] = Never \/ now > guard[event] + Window)
    BY <1>1, <1>3 DEF ShouldAccept, Within, TypeOK, Times, Assumptions
  <2>4. deliveries'[d].event = event /\ deliveries'[d].accepted = now /\ deliveries'[d].at = "dispatching"
        /\ guard'[event] = now /\ \A c \in Deliveries \ {d} : deliveries'[c] = deliveries[c]
    BY <1>1, <2>1 DEF TypeOK
  <2>5. \A c \in Deliveries : Waits(c) /\ deliveries[c].event = event =>
          /\ deliveries[c].accepted \in Nat /\ guard[event] \in Nat /\ guard[event] # Never
          /\ deliveries[c].accepted <= guard[event]
    BY DEF Known, Times, Assumptions
  <2>6. \A t \in taken[event] : t \in Nat /\ guard[event] \in Nat /\ guard[event] # Never /\ t <= guard[event]
    BY <1>1 DEF Known, Times, Assumptions, TypeOK
  <2>7. Known'
    <3>1. \A c \in Deliveries : deliveries'[c].at # "none" => deliveries'[c].event \in Events
      BY <1>1, <2>4 DEF Known
    <3>2. ASSUME NEW c \in Deliveries, Waits(c)'
          PROVE  /\ deliveries'[c].accepted \in Times /\ guard'[deliveries'[c].event] \in Times
                 /\ deliveries'[c].accepted <= guard'[deliveries'[c].event]
      <4>1. CASE c = d
        BY <4>1, <2>4 DEF TypeOK, Times
      <4>2. CASE c # d /\ deliveries[c].event = event
        BY <4>2, <3>2, <2>3, <2>4, <2>5 DEF TypeOK, Times, Known, Waits
      <4>3. CASE c # d /\ deliveries[c].event # event
        BY <4>3, <3>2, <2>1, <2>4 DEF Known, Waits, TypeOK
      <4> QED BY <4>1, <4>2, <4>3
    <3>3. ASSUME NEW e \in Events, NEW t \in taken'[e]
          PROVE  guard'[e] \in Times /\ t <= guard'[e]
      <4>1. CASE e = event
        BY <4>1, <3>3, <1>1, <2>3, <2>4, <2>6 DEF TypeOK
      <4>2. CASE e # event
        BY <4>2, <3>3, <1>1, <2>1 DEF Known, TypeOK
      <4> QED BY <4>1, <4>2
    <3> QED BY <3>1, <3>2, <3>3 DEF Known
  <2>8. Spaced'
    <3>1. ASSUME NEW c \in Deliveries \ {d}, Waits(c), deliveries[c].event = event
          PROVE  Apart(now, deliveries[c].accepted) /\ Apart(deliveries[c].accepted, now)
      BY <3>1, <2>3, <2>5 DEF Apart
    <3>2. \A t \in taken[event] : Apart(now, t)
      BY <2>3, <2>6 DEF Apart
    <3>3. ASSUME NEW b \in Deliveries, NEW c \in Deliveries, b # c, Waits(b)', Waits(c)',
                 deliveries'[b].event = deliveries'[c].event
          PROVE  Apart(deliveries'[b].accepted, deliveries'[c].accepted)
      <4>1. CASE b = d
        BY <4>1, <3>3, <3>1, <2>4 DEF Waits
      <4>2. CASE c = d
        BY <4>2, <3>3, <3>1, <2>4 DEF Waits
      <4>3. CASE b # d /\ c # d
        BY <4>3, <3>3, <2>4 DEF Waits, Spaced
      <4> QED BY <4>1, <4>2, <4>3
    <3>4. ASSUME NEW c \in Deliveries, Waits(c)', NEW t \in taken'[deliveries'[c].event]
          PROVE  Apart(deliveries'[c].accepted, t)
      <4>1. CASE c = d
        BY <4>1, <3>4, <3>2, <2>4, <1>1
      <4>2. CASE c # d
        BY <4>2, <3>4, <2>4, <1>1 DEF Waits, Spaced
      <4> QED BY <4>1, <4>2
    <3> QED BY <3>3, <3>4 DEF Spaced, Apart
  <2>9. TakenOnce'
    BY <1>1 DEF TakenOnce
  <2> QED BY <2>2, <2>7, <2>8, <2>9
<1> QED BY <1>2, <1>3

LEMMA DispatchSound ==
  ASSUME Assumptions, IInv, NEW d \in Deliveries, Dispatch(d)
  PROVE  IInv'
<1> USE DEF IInv
<1> DEFINE event == deliveries[d].event
           accepted == deliveries[d].accepted
           id == <<deliveries[d].stack, event>>
<1>1. Waits(d) /\ event \in Events /\ accepted \in Times /\ deliveries[d].stack \in Stacks
      /\ UNCHANGED <<setup, now, guard, tasks, bound>>
  BY DEF Dispatch, Known, Waits, TypeOK
<1>2. CASE Within(seen[id], SessionWindow)
  <2>1. deliveries' = [deliveries EXCEPT ![d] = NoDelivery] /\ UNCHANGED <<seen, taken, again>>
    BY <1>2 DEF Dispatch, Ends
  <2>2. TypeOK'
    BY <1>1, <2>1 DEF TypeOK, NoDelivery, Stacks
  <2>3. (Known /\ Spaced /\ TakenOnce)'
    BY <1>1, <2>1, Unmoved DEF TypeOK, Waits, Known, NoDelivery
  <2> QED BY <2>2, <2>3
<1>3. CASE ~Within(seen[id], SessionWindow)
  <2>1. /\ seen' = [seen EXCEPT ![id] = now]
        /\ Acts(event, accepted)
        /\ \E stage \in {"submitting", "working"} : deliveries' = [deliveries EXCEPT ![d].at = stage]
    BY <1>3 DEF Dispatch, Becomes
  <2>2. taken' = [taken EXCEPT ![event] = @ \cup {accepted}]
    BY <2>1 DEF Acts
  <2>3. again' = again
    <3>1. \A t \in taken[event] : Apart(accepted, t) /\ t \in Nat /\ accepted \in Nat
      BY <1>1 DEF Spaced, TypeOK, Times
    <3>2. ~ \E t \in taken[event] : accepted <= t + Window /\ t <= accepted + Window
      BY <3>1 DEF Apart, Assumptions
    <3> QED BY <2>1, <3>2 DEF Acts
  <2>4. /\ \A c \in Deliveries : Waits(c)' => c # d /\ Waits(c) /\ deliveries'[c] = deliveries[c]
        /\ \A c \in Deliveries : deliveries'[c].at # "none" => deliveries'[c].event \in Events
    BY <2>1, <1>1 DEF TypeOK, Waits, Known
  <2>5. TypeOK'
    BY <1>1, <2>1, <2>2, <2>3 DEF TypeOK
  <2>6. Known'
    <3>1. ASSUME NEW e \in Events, NEW t \in taken'[e]
          PROVE  guard'[e] \in Times /\ t <= guard'[e]
      <4>1. CASE e = event /\ t = accepted
        BY <4>1, <1>1 DEF Known
      <4>2. CASE t \in taken[e]
        BY <4>2, <1>1 DEF Known
      <4> QED BY <3>1, <4>1, <4>2, <2>2, <1>1 DEF TypeOK
    <3> QED BY <3>1, <2>4, <1>1 DEF Known, Waits
  <2>7. Spaced'
    <3>1. ASSUME NEW b \in Deliveries, NEW c \in Deliveries, b # c, Waits(b)', Waits(c)',
                 deliveries'[b].event = deliveries'[c].event
          PROVE  Apart(deliveries'[b].accepted, deliveries'[c].accepted)
      BY <3>1, <2>4 DEF Spaced
    <3>2. ASSUME NEW c \in Deliveries, Waits(c)', NEW t \in taken'[deliveries'[c].event]
          PROVE  Apart(deliveries'[c].accepted, t)
      <4>1. c # d /\ Waits(c) /\ deliveries'[c] = deliveries[c] /\ deliveries[c].event \in Events
        BY <3>2, <2>4 DEF Known, Waits
      <4>2. CASE t \in taken[deliveries[c].event]
        BY <4>1, <4>2 DEF Spaced
      <4>3. CASE deliveries[c].event = event /\ t = accepted
        BY <4>1, <4>3, <1>1 DEF Spaced
      <4> QED BY <3>2, <4>1, <4>2, <4>3, <2>2, <1>1 DEF TypeOK
    <3> QED BY <3>1, <3>2 DEF Spaced, Apart
  <2>8. TakenOnce'
    BY <2>3 DEF TakenOnce
  <2> QED BY <2>5, <2>6, <2>7, <2>8
<1> QED BY <1>2, <1>3

(* What follows a dispatch is of no consequence for the guard. *)
LEMMA LaterSound ==
  ASSUME Assumptions, IInv, NEW d \in Deliveries,
         Worked(d) \/ Submitted(d) \/ Tracked(d) \/ Replied(d)
  PROVE  IInv'
<1> USE DEF IInv
<1>1. deliveries[d].at \in {"working", "submitting", "tracking", "replying"} /\ deliveries[d].event \in Events
  BY DEF Worked, Submitted, Tracked, Replied, Known
<1>2. UNCHANGED <<setup, now, guard, seen, taken, again>>
  BY DEF Worked, Submitted, Tracked, Replied
<1>3. \/ deliveries' = [deliveries EXCEPT ![d] = NoDelivery]
      \/ \E stage \in {"tracking", "replying"} : deliveries' = [deliveries EXCEPT ![d].at = stage]
  BY DEF Worked, Submitted, Tracked, Replied, Ends, Becomes
<1>4. Policy(Text[deliveries[d].event]) \in TaskPolicies
  <2>1. Text[deliveries[d].event].intent \in Intents /\ setup.verified \in BOOLEAN
    BY <1>1 DEF Assumptions, TypeOK
  <2> QED BY <2>1 DEF Policy, TaskPolicies, Artifacts
<1>5. tasks' \in [Events -> TaskPolicies] /\ bound' \in SUBSET Events
  <2>1. CASE Submitted(d)
    BY <2>1, <1>1, <1>4 DEF Submitted, TypeOK
  <2>2. CASE Tracked(d)
    BY <2>2, <1>1 DEF Tracked, TypeOK
  <2>3. CASE Worked(d) \/ Replied(d)
    BY <2>3 DEF Worked, Replied, TypeOK
  <2> QED BY <2>1, <2>2, <2>3
<1>6. TypeOK'
  <2>1. deliveries' \in [Deliveries -> [event : Events \cup {Never}, stack : Stacks, accepted : Times \cup {Never},
                            at : {"none", "received", "dispatching", "working", "submitting", "tracking", "replying"}]]
    BY <1>3 DEF TypeOK, NoDelivery, Stacks
  <2> QED BY <2>1, <1>2, <1>5 DEF TypeOK
<1>7. (Known /\ Spaced /\ TakenOnce)'
  <2>1. \A c \in Deliveries : c # d => deliveries'[c] = deliveries[c]
    BY <1>3 DEF TypeOK
  <2>2. deliveries'[d].at # "dispatching" /\ (deliveries'[d].at # "none" => deliveries'[d].event \in Events)
    BY <1>1, <1>3 DEF TypeOK, NoDelivery
  <2> QED BY <1>2, <2>1, <2>2, Unmoved DEF Known, Waits
<1> QED BY <1>6, <1>7

LEMMA TickSound ==
  ASSUME Assumptions, IInv, Tick
  PROVE  IInv'
<1> USE DEF IInv
<1>1. UNCHANGED <<setup, guard, seen, deliveries, tasks, bound, taken, again>>
  BY DEF Tick
<1>2. TypeOK'
  BY <1>1 DEF Tick, TypeOK, Times, Assumptions
<1>3. (Known /\ Spaced /\ TakenOnce)'
  BY <1>1, Unmoved DEF Known, Waits
<1> QED BY <1>2, <1>3

LEMMA CrashSound ==
  ASSUME Assumptions, IInv, Crash
  PROVE  IInv'
<1> USE DEF IInv
<1>1. TypeOK'
  BY DEF Crash, TypeOK, NoDelivery, Stacks
<1>2. Known' /\ Spaced' /\ TakenOnce'
  BY DEF Crash, Known, Spaced, TakenOnce, Waits, NoDelivery
<1> QED BY <1>1, <1>2

LEMMA NextSound ==
  ASSUME Assumptions, IInv, [Next]_vars
  PROVE  IInv'
<1>1. ASSUME NEW d \in Deliveries, NEW event \in Events, LegacyHears(d, event) \/ SdkHears(d, event)
      PROVE  IInv'
  BY <1>1, ReceivedSound DEF LegacyHears, SdkHears, Stacks
<1>2. ASSUME NEW d \in Deliveries,
             Accepted(d) \/ Dispatch(d) \/ Worked(d) \/ Submitted(d) \/ Tracked(d) \/ Replied(d)
      PROVE  IInv'
  BY <1>2, AcceptedSound, DispatchSound, LaterSound
<1>3. CASE Tick \/ Crash
  BY <1>3, TickSound, CrashSound
<1>4. CASE UNCHANGED vars
  BY <1>4 DEF vars, IInv, TypeOK, Known, Spaced, TakenOnce, Waits
<1> QED BY <1>1, <1>2, <1>3, <1>4 DEF Next

(* The invariant holds in every reachable state. *)
THEOREM InvariantHolds ==
  ASSUME Assumptions PROVE Spec => []IInv
<1>1. Init => IInv
  BY InitSound
<1>2. IInv /\ [Next]_vars => IInv'
  BY NextSound
<1> QED BY <1>1, <1>2, PTL DEF Spec

(* The guard, the deliveries and the tasks they make have their types. *)
THEOREM TypeCorrect ==
  ASSUME Assumptions PROVE Spec => []TypeOK
<1>1. IInv => TypeOK
  BY DEF IInv
<1> QED BY <1>1, InvariantHolds, PTL

(* A process acts upon an event once within the window, whoever delivers it how often. *)
THEOREM OnceCorrect ==
  ASSUME Assumptions PROVE Spec => []TakenOnce
<1>1. IInv => TakenOnce
  BY DEF IInv
<1> QED BY <1>1, InvariantHolds, PTL
=============================================================================
