------------------------------ MODULE MCAttach ------------------------------
(***************************************************************************)
(* Attach on small instances: two tables whose rows are spread over pages  *)
(* in turn, so that rows of every age share a page and some lie past what  *)
(* the statistics know.  A behaviour starts before attach, and then gets   *)
(* the smaller bounds here and a source that writes nothing but commits,   *)
(* or right after it, with the bounds of the .cfg.                         *)
(***************************************************************************)
EXTENDS Attach, TLC

MCTable == <<"orders", "events">>

MCIdentity ==
    [orders |-> [replident |-> "default", pk |-> {"id"}, ri_index |-> {}],
     events |-> [replident |-> "nothing", pk |-> {}, ri_index |-> {}]]

MCTableOf(h) == IF h % 3 = 0 THEN "events" ELSE "orders"

MCPageOf(h) == h % 3

Interchangeable == Permutations(Worker)

VARIABLE start

CopyTxn == 2

CopyKills == 1

JustAttached ==
    /\ PipelineInit
    /\ base = 1 /\ slot = TRUE /\ published = TRUE
    /\ exported = NoJob
    /\ at = "idle" /\ jobs = <<>> /\ workers = All("done") /\ parts = {}
    /\ loaded = [h \in {1} |-> 1]
    /\ attaches = MaxAttaches

StartedInit ==
    \/ start = "before" /\ AttachInit
    \/ start = "after" /\ JustAttached

StartedNext ==
    /\ AttachNext
    /\ UNCHANGED start
    /\ start = "before" => wal' <= CopyTxn /\ kills' <= CopyKills /\ ~wal_past'

StartedSpec == StartedInit /\ [][StartedNext]_<<allVars, start>>
=============================================================================
