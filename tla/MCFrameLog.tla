----------------------------- MODULE MCFrameLog -----------------------------
(***************************************************************************)
(* FrameLog on small instances, under either of its owners: the ingest     *)
(* pump, which calls append, and the control stream of graydb-r1, which    *)
(* calls append_deferred and flush_pending.                                *)
(***************************************************************************)
EXTENDS FrameLog

VARIABLE owner

ownedVars == <<logVars, owner>>

ControlLog == INSTANCE FrameLog WITH Deferred <- TRUE

OwnedInit == Create /\ owner \in {"pump", "control"}

OwnedNext ==
    \/ owner = "pump" /\ Next /\ UNCHANGED owner
    \/ owner = "control" /\ ControlLog!Next /\ UNCHANGED owner

OwnedSpec == OwnedInit /\ [][OwnedNext]_ownedVars
=============================================================================
