---------------------------- MODULE MCAgentTurn -----------------------------
(* One agent for TLC.  The bounds are in the .cfg files. *)
EXTENDS AgentTurn
=============================================================================
