-------------------------- MODULE MCAgentController -------------------------
(* Instances of AgentController for TLC: which tools exist, what the       *)
(* provider may answer and which settings are on is chosen by each cfg.    *)
EXTENDS AgentControllerProperties
=============================================================================
