--------------------------- MODULE DurableDelivery ---------------------------
(***************************************************************************)
(* What a durable outbox promises for one message, whatever its queue,     *)
(* its file and its retry schedule look like:                              *)
(*                                                                         *)
(*   unseen -> offered -> promised -> delivered                            *)
(*                                 -> abandoned -> delivered               *)
(*                                                                         *)
(* An offered message may be lost by a crash, a promised one may not: it   *)
(* is delivered at least once or visibly abandoned.  A message can be      *)
(* delivered before it is promised, and an abandoned one may still be      *)
(* delivered when a crash makes the program forget that it gave up.        *)
(***************************************************************************)
CONSTANT Messages

VARIABLE phase

Phases == {"unseen", "offered", "promised", "delivered", "abandoned"}

TypeOK == phase \in [Messages -> Phases]

Init == phase = [m \in Messages |-> "unseen"]

Move(m, from, to) ==
  /\ phase[m] \in from
  /\ phase' = [phase EXCEPT ![m] = to]

Offer(m) == Move(m, {"unseen"}, "offered")
Deliver(m) == Move(m, {"offered", "promised", "abandoned"}, "delivered")
Abandon(m) == Move(m, {"offered", "promised"}, "abandoned")

(* One write of the outbox file can promise several messages at once. *)
PromiseAll(S) ==
  /\ \A m \in S : phase[m] = "offered"
  /\ phase' = [m \in Messages |-> IF m \in S THEN "promised" ELSE phase[m]]

Settle(m) == Deliver(m) \/ Abandon(m)

Next ==
  \/ \E m \in Messages : Offer(m) \/ Settle(m)
  \/ \E S \in SUBSET Messages : PromiseAll(S)

(* Nothing is lost, reordered or taken back. *)
Safety == Init /\ [][Next]_phase

(* A promised message is settled in the end. *)
Spec ==
  /\ Safety
  /\ \A m \in Messages : WF_phase(phase[m] = "promised" /\ Settle(m))

==============================================================================
