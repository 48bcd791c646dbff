------------------------- MODULE MCCompletionSession -------------------------
(***************************************************************************)
(* Root of the TLC run of the completion session.                          *)
(***************************************************************************)
EXTENDS CompletionSessionProperties
=============================================================================
