------------------------- MODULE MCBridgeSupervisor -------------------------
(* BridgeSupervisor on small instances: see MCBridge.cfg and MCBridgeRetry.cfg. *)
EXTENDS BridgeSupervisor

CONSTANTS m1, m2
==============================================================================
