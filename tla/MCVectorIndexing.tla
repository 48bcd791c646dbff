--------------------------- MODULE MCVectorIndexing --------------------------
(***************************************************************************)
(* Root of the TLC run of the vector index.                                *)
(***************************************************************************)
EXTENDS VectorIndexingProperties
=============================================================================
