--------------------------- MODULE MCHttpProvider ---------------------------
(***************************************************************************)
(* Root of the TLC runs of the HTTP providers.                             *)
(***************************************************************************)
EXTENDS HttpProviderProperties
=============================================================================
