---------------------------- MODULE MCAgentTurn ----------------------------
(* Instances of AgentTurn for TLC; the constants are in the cfg files.       *)
EXTENDS AgentTurn
=============================================================================
