----------------------------- MODULE MCAgentDock ----------------------------
(***************************************************************************)
(* Root of the TLC runs of the agent dock.                                 *)
(***************************************************************************)
EXTENDS AgentDockProperties
=============================================================================
