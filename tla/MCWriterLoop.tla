---------------------------- MODULE MCWriterLoop ----------------------------
(***************************************************************************)
(* Chunks of two plans, three of them.                                     *)
(***************************************************************************)
EXTENDS WriterLoop
=============================================================================
