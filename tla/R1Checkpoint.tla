----------------------------- MODULE R1Checkpoint -----------------------------
(***************************************************************************)
(* capture_runtime_checkpoint: PostgreSQL is captured while the writer is  *)
(* parked, the writer goes on, the captured LSN is raised to the greatest  *)
(* position an engine has applied, and every engine is compared with the   *)
(* capture at that LSN.  It is called by the checkpoint stages and by the  *)
(* failure sequence; the caller waits for cp.at = "done".                  *)
(***************************************************************************)
EXTENDS R1World

VARIABLE cp

\* engines: those to compare; todo: those of them still to visit; rate: the
\* rate to resume at; captured: the commits PostgreSQL showed.
NoCheckpoint == [at |-> "idle", engines |-> <<>>, todo |-> <<>>, rate |-> 0, lsn |-> 0,
                 captured |-> {}, passed |-> TRUE, err |-> FALSE]

CallCheckpoint(engines) ==
    cp' = [NoCheckpoint EXCEPT !.at = "pause", !.engines = engines]

CpFails == [cp EXCEPT !.at = "done", !.err = TRUE]

\* The rate is saved only when stop succeeds; a failed pause does not resume.
Pause ==
    /\ cp.at = "pause"
    /\ StopWriter
    /\ cp' = IF StopErr THEN CpFails ELSE [cp EXCEPT !.at = "snapshot", !.rate = writer.rate]
    /\ UNCHANGED <<sourceVars, cdc, active, faults>>

\* drain, then a repeatable-read snapshot.
Snapshot ==
    /\ cp.at = "snapshot"
    /\ cp' = IF writer.rate # 0 THEN [cp EXCEPT !.at = "resume", !.err = TRUE]
             ELSE [cp EXCEPT !.at = "lsn", !.captured = Commits(Here, WalHead)]
    /\ UNCHANGED worldVars

\* pg_current_wal_lsn is not part of the snapshot.
ReadLsn ==
    /\ cp.at = "lsn"
    /\ cp' = [cp EXCEPT !.at = "resume", !.lsn = WalHead]
    /\ UNCHANGED worldVars

\* On every path once pause has succeeded.
Resume ==
    /\ cp.at = "resume"
    /\ IF cp.rate = 0 THEN UNCHANGED <<writer, slots>> ELSE StartWriter(cp.rate)
    /\ cp' = IF cp.err THEN CpFails ELSE [cp EXCEPT !.at = "raise", !.todo = cp.engines]
    /\ UNCHANGED <<sourceVars, cdc, active, faults>>

\* An engine whose status cannot be had is passed over.
Raise ==
    /\ cp.at = "raise" /\ cp.todo # <<>>
    /\ LET applied == engine[Head(cp.todo)].applied IN
       cp' = [cp EXCEPT !.todo = Tail(@),
                        !.lsn = IF Reachable(Head(cp.todo)) /\ @ < applied THEN applied ELSE @]
    /\ UNCHANGED worldVars

Raised ==
    /\ cp.at = "raise" /\ cp.todo = <<>>
    /\ cp' = [cp EXCEPT !.at = "compare", !.todo = cp.engines]
    /\ UNCHANGED worldVars

\* Mutant of Compare: the last engine's verdict replaces the others'.
LastVerdictWins ==
    /\ cp.at = "compare" /\ cp.todo # <<>>
    /\ Visible(Head(cp.todo), cp.lsn)
    /\ cp' = [cp EXCEPT !.todo = Tail(@), !.passed = (Shown(Head(cp.todo), cp.lsn) = cp.captured)]
    /\ UNCHANGED worldVars

\* wait_visible, then Q1 to Q5 at the raised LSN.
Compare ==
    /\ cp.at = "compare" /\ cp.todo # <<>>
    /\ Visible(Head(cp.todo), cp.lsn)
    /\ cp' = [cp EXCEPT !.todo = Tail(@), !.passed = @ /\ Shown(Head(cp.todo), cp.lsn) = cp.captured]
    /\ UNCHANGED worldVars

WaitTimesOut ==
    /\ cp.at = "compare" /\ cp.todo # <<>>
    /\ ~Visible(Head(cp.todo), cp.lsn)
    /\ cp' = CpFails
    /\ UNCHANGED worldVars

Compared ==
    /\ cp.at = "compare" /\ cp.todo = <<>>
    /\ cp' = [cp EXCEPT !.at = "done"]
    /\ UNCHANGED worldVars

\* Any call to PostgreSQL or an engine may fail, and so may the writer's start.
CheckpointCallFails ==
    /\ cp.at \in {"pause", "snapshot", "lsn", "resume", "compare"}
    /\ faults < MaxFaults
    /\ cp' = IF cp.at \in {"snapshot", "lsn"} THEN [cp EXCEPT !.at = "resume", !.err = TRUE]
             ELSE CpFails
    /\ faults' = faults + 1
    /\ UNCHANGED <<sourceVars, heldVars>>

CheckpointStep ==
    \/ Pause \/ Snapshot \/ ReadLsn \/ Resume \/ Raise \/ Raised
    \/ Compare \/ WaitTimesOut \/ Compared \/ CheckpointCallFails
=============================================================================
