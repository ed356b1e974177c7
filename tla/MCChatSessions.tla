--------------------------- MODULE MCChatSessions ---------------------------
(* ChatSessions on small instances: see MCSessions.cfg. *)
EXTENDS ChatSessions
=============================================================================
