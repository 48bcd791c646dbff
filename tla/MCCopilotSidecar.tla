-------------------------- MODULE MCCopilotSidecar --------------------------
(***************************************************************************)
(* Root of the TLC runs of the Copilot sidecar.                            *)
(***************************************************************************)
EXTENDS CopilotSidecarProperties
=============================================================================
