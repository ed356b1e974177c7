---------------------------- MODULE InboundEvents ----------------------------
(***************************************************************************)
(* How a chat event becomes work: the handlers of the Slack, Discord and   *)
(* chat-sdk stacks (src/transports), the guard against duplicates that     *)
(* they share (src/transports/event-dedupe.ts), and dispatch of            *)
(* src/control/daemon.ts, which takes an event for a command, a task or a  *)
(* message of a session.                                                   *)
(*                                                                         *)
(* An event is delivered any number of times, by one stack or by both; the *)
(* two stacks name the same message by different ids.  Time is counted in  *)
(* units, and what is older than its window counts as forgotten.           *)
(***************************************************************************)
EXTENDS Naturals

CONSTANTS
  Events,         \* messages in Slack or Discord
  Deliveries,     \* bound: deliveries being handled at a time
  Setups,         \* the settings tried: records like setup
  Text,           \* the text of each event
  Window,         \* CHAT_SDK_EVENT_DEDUPE_WINDOW_MS
  SessionWindow,  \* SESSION_DEDUPE_WINDOW_MS
  MaxTime,        \* bound: units of time
  Never           \* no time, no event

VARIABLES
  setup,      \* provider, shadow traffic, dispatch mode, and CHAT_REQUIRE_VERIFIED_PR
  now,
  guard,      \* EventDedupeGuard.seen, by event: when it was accepted
  seen,       \* ControlPlane.seenEventIds, by stack and event
  deliveries, \* each delivery: its event, its stack, when it was accepted, where it waits
  tasks,      \* the policy of the task that an event became
  bound,      \* events whose task is bound to their thread
  taken,      \* history: when the deliveries that this process acted upon were accepted, by event
  again       \* history: events acted upon twice within the window by one process

vars == <<setup, now, guard, seen, deliveries, tasks, bound, taken, again>>

Stacks == {"legacy", "sdk"}
Times == 0..MaxTime
Intents == {"implementation", "ops", "unknown"}
Artifacts == {"summary", "branch", "commit", "pr"}
Unset == "unset"
NoDelivery == [event |-> Never, stack |-> "legacy", accepted |-> Never, at |-> "none"]
TaskPolicies == [intent : Intents, verified : BOOLEAN, required : SUBSET Artifacts]
NoTask == [intent |-> "unknown", verified |-> FALSE, required |-> {}]

TypeOK ==
  /\ setup \in [provider : {"legacy", "chat_sdk", "dual"}, shadow : BOOLEAN,
                mode : {"session", "task", "hybrid"}, verified : BOOLEAN]
  /\ now \in Times
  /\ guard \in [Events -> Times \cup {Never}]
  /\ seen \in [Stacks \X Events -> Times \cup {Never}]
  /\ deliveries \in [Deliveries -> [event : Events \cup {Never}, stack : Stacks, accepted : Times \cup {Never},
                                    at : {"none", "received", "dispatching", "working", "submitting", "tracking", "replying"}]]
  /\ tasks \in [Events -> TaskPolicies] /\ bound \in SUBSET Events
  /\ taken \in [Events -> SUBSET Times] /\ again \in SUBSET Events

Init ==
  /\ setup \in Setups /\ now = 0
  /\ guard = [e \in Events |-> Never] /\ seen = [i \in Stacks \X Events |-> Never]
  /\ deliveries = [d \in Deliveries |-> NoDelivery]
  /\ tasks = [e \in Events |-> NoTask] /\ bound = {}
  /\ taken = [e \in Events |-> {}] /\ again = {}

Becomes(d, stage) == deliveries' = [deliveries EXCEPT ![d].at = stage]
Ends(d) == deliveries' = [deliveries EXCEPT ![d] = NoDelivery]

Within(time, window) == time # Never /\ now - time <= window

------------------------------------------------------------------------------
(* The stacks. *)

Uses(stack) == IF stack = "legacy" THEN setup.provider # "chat_sdk" ELSE setup.provider # "legacy"

(* A handler is called.  Events of others, without a mention or not allowed are left out:  *)
(* they come no further.                                                                   *)
Received(d, stack, event) ==
  /\ deliveries[d] = NoDelivery
  /\ Uses(stack)
  /\ deliveries' = [deliveries EXCEPT ![d] = [event |-> event, stack |-> stack, accepted |-> Never, at |-> "received"]]
  /\ UNCHANGED <<setup, now, guard, seen, tasks, bound, taken, again>>

LegacyHears(d, event) == Received(d, "legacy", event)

(* The chat-sdk stack only watches when it shadows the other without traffic. *)
SdkHears(d, event) ==
  /\ setup.provider = "chat_sdk" \/ setup.shadow
  /\ Received(d, "sdk", event)

(* shouldAccept(inboundDedupeKey).  Mutant: the id, which each stack makes up for itself, *)
(* is all there is to tell a duplicate by.                                                *)
ShouldAcceptAny(event) == TRUE
ShouldAccept(event) == ~Within(guard[event], Window)

Accepted(d) ==
  LET event == deliveries[d].event IN
  /\ deliveries[d].at = "received"
  /\ IF ShouldAccept(event)
     THEN /\ guard' = [guard EXCEPT ![event] = now]
          /\ deliveries' = [deliveries EXCEPT ![d] =
               [event |-> event, stack |-> deliveries[d].stack, accepted |-> now, at |-> "dispatching"]]
     ELSE Ends(d) /\ UNCHANGED guard
  /\ UNCHANGED <<setup, now, seen, tasks, bound, taken, again>>

------------------------------------------------------------------------------
(* dispatch: before it, Discord's handler waits for a reaction. *)

(* resolveTaskPolicy: the metadata of a chat's message holds no hints, and its handlers    *)
(* give none.                                                                              *)
Policy(text) ==
  LET verified == IF text.intent = "implementation" THEN setup.verified ELSE FALSE IN
  [intent |-> text.intent, verified |-> verified, required |-> IF verified THEN {"pr"} ELSE {"summary"}]

(* shouldDispatchTaskFlow, parseDispatchDirective. *)
IsTask(text) ==
  \/ text.directive = "task"
  \/ /\ text.directive = Unset /\ setup.mode = "task"
     /\ text.intent # "unknown" \/ text.cue

Acts(event, accepted) ==
  /\ again' = IF \E t \in taken[event] : accepted <= t + Window /\ t <= accepted + Window
              THEN again \cup {event} ELSE again
  /\ taken' = [taken EXCEPT ![event] = @ \cup {accepted}]

Dispatch(d) ==
  LET event == deliveries[d].event
      id == <<deliveries[d].stack, event>>
      text == Text[event] IN
  /\ deliveries[d].at = "dispatching"
  /\ IF Within(seen[id], SessionWindow)
     THEN Ends(d) /\ UNCHANGED <<seen, taken, again>>
     ELSE /\ seen' = [seen EXCEPT ![id] = now]
          /\ Acts(event, deliveries[d].accepted)
          /\ Becomes(d, IF text.body = "talk" /\ IsTask(text) THEN "submitting" ELSE "working")
  /\ UNCHANGED <<setup, now, guard, tasks, bound>>

(* handleCommand, dispatchToSession, or the reply that a text is required; any may fail. *)
Worked(d) ==
  /\ deliveries[d].at = "working"
  /\ Ends(d)
  /\ UNCHANGED <<setup, now, guard, seen, tasks, bound, taken, again>>

(* submitTask of dispatchToTask; without a repository there is only the reply. *)
Submitted(d) ==
  LET event == deliveries[d].event IN
  /\ deliveries[d].at = "submitting"
  /\ \/ tasks' = [tasks EXCEPT ![event] = Policy(Text[event])] /\ Becomes(d, "tracking")
     \/ Becomes(d, "replying") /\ UNCHANGED tasks
  /\ UNCHANGED <<setup, now, guard, seen, bound, taken, again>>

(* trackTaskBinding, which may fail; the user is told that the dispatch failed. *)
Tracked(d) ==
  /\ deliveries[d].at = "tracking"
  /\ bound' \in {bound, bound \cup {deliveries[d].event}}
  /\ Becomes(d, "replying")
  /\ UNCHANGED <<setup, now, guard, seen, tasks, taken, again>>

Replied(d) ==
  /\ deliveries[d].at = "replying"
  /\ Ends(d)
  /\ UNCHANGED <<setup, now, guard, seen, tasks, bound, taken, again>>

------------------------------------------------------------------------------
Tick ==
  /\ now < MaxTime /\ now' = now + 1
  /\ UNCHANGED <<setup, guard, seen, deliveries, tasks, bound, taken, again>>

(* Both tables are lost: an event that is delivered again then counts as new. *)
Crash ==
  /\ guard' = [e \in Events |-> Never] /\ seen' = [i \in Stacks \X Events |-> Never]
  /\ deliveries' = [d \in Deliveries |-> NoDelivery]
  /\ taken' = [e \in Events |-> {}]
  /\ UNCHANGED <<setup, now, tasks, bound, again>>

Next ==
  \/ \E d \in Deliveries :
       \/ \E event \in Events : LegacyHears(d, event) \/ SdkHears(d, event)
       \/ Accepted(d) \/ Dispatch(d) \/ Worked(d) \/ Submitted(d) \/ Tracked(d) \/ Replied(d)
  \/ Tick \/ Crash

Spec == Init /\ [][Next]_vars
------------------------------------------------------------------------------
(* Within the window a process acts on an event once, however often it is delivered and by *)
(* whichever stacks: it runs its command, submits its task or enqueues its message once    *)
(* (the guard that all stacks share, checked and marked before anything is awaited).       *)
TakenOnce == again = {}
=============================================================================
