------------------------------ MODULE MCPlatform ------------------------------
(***************************************************************************)
(* Platform on a small instance: see MCPlatform.cfg.  As the components    *)
(* share no state, a behaviour picks one of them and takes its steps; the  *)
(* others stay as they begin.                                              *)
(***************************************************************************)
EXTENDS Platform

VARIABLE part

Required(verified, kinds, target) == [verified |-> verified, required |-> kinds, target |-> target]
Allowed(commit, open) == [commit |-> commit, pr |-> open]
Chats(provider, mode) == [provider |-> provider, shadow |-> provider = "dual", mode |-> mode, verified |-> TRUE]

ThreePolicies == {Required(TRUE, {"pr", "commit"}, FALSE), Required(TRUE, {"pr"}, TRUE),
                  Required(FALSE, {"summary"}, FALSE)}
TwoSettings == {Allowed(TRUE, TRUE), Allowed(TRUE, FALSE)}
TwoSetups == {Chats("dual", "task"), Chats("legacy", "hybrid")}
OneText == [e \in Events |-> [directive |-> "unset", body |-> "talk", intent |-> "implementation", cue |-> FALSE]]

(* Who has a choice of initial states has it only when it is picked. *)
PickInit ==
  /\ part \in {"releases", "agents", "registry", "sweeps", "completion", "aliases", "engine", "inbound"}
  /\ Init
  /\ part # "completion" => settings = Allowed(TRUE, TRUE) /\ policy = Required(FALSE, {"summary"}, FALSE)
  /\ part # "inbound" => setup = Chats("legacy", "hybrid")

PickNext ==
  \/ part = "releases" /\ Releasing /\ UNCHANGED part
  \/ part = "agents" /\ Supervising /\ UNCHANGED part
  \/ part = "registry" /\ Registering /\ UNCHANGED part
  \/ part = "sweeps" /\ Sweeping /\ UNCHANGED part
  \/ part = "completion" /\ Completing /\ UNCHANGED part
  \/ part = "aliases" /\ Naming /\ UNCHANGED part
  \/ part = "engine" /\ Talking /\ UNCHANGED part
  \/ part = "inbound" /\ Receiving /\ UNCHANGED part

PickSpec == PickInit /\ [][PickNext]_<<part, vars>>
=============================================================================
