-------------------------- MODULE MCClickHouseCdc ---------------------------
(***************************************************************************)
(* Two raw tables, windows of two commits (see the .cfg files), and what   *)
(* the transactions do to the events.                                      *)
(***************************************************************************)
EXTENDS ClickHouseCdc

\* Two events; two events of which the first is deleted.
MCInserts == <<1, 2>>
MCDeletesLast == <<1, 2, 1>>
=============================================================================
