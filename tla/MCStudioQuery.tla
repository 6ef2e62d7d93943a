---------------------------- MODULE MCStudioQuery ---------------------------
(***************************************************************************)
(* StudioQuery on small instances.                                         *)
(***************************************************************************)
EXTENDS StudioQuery
=============================================================================
