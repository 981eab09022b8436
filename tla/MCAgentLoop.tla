---------------------------- MODULE MCAgentLoop ----------------------------
(* AgentLoop on small instances: see the README for the bounds.            *)
EXTENDS AgentLoop
=============================================================================
