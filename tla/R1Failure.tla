------------------------------- MODULE R1Failure ------------------------------
(***************************************************************************)
(* The failure sequence of a correctness run: each engine is stopped and   *)
(* started again, each is cut off the network and linked again, and the    *)
(* writer is stopped and resumed, all under a steady source rate.  After   *)
(* each an engine must catch up and pass a checkpoint at or beyond the     *)
(* position the source had reached.  The caller waits for fs.at = "done".  *)
(***************************************************************************)
EXTENDS R1Checkpoint

VARIABLE fs

FailureRate == 1000

\* run_failure_sequence.
Failures == << [kind |-> "kill", engines |-> <<Graydb>>],
               [kind |-> "kill", engines |-> <<Clickhouse>>],
               [kind |-> "cut", engines |-> <<Graydb>>],
               [kind |-> "cut", engines |-> <<Clickhouse>>],
               [kind |-> "writer", engines |-> <<Graydb, Clickhouse>>] >>

\* k: the failure at hand; todo: its engines still to validate; aim: the LSN to
\* catch up with; through: the LSN its checkpoint has to cover.
NoFailure == [at |-> "idle", k |-> 1, todo |-> <<>>, aim |-> 0, through |-> 0, err |-> FALSE]

CallFailureSequence == fs' = [NoFailure EXCEPT !.at = "steady"]

Kind == Failures[fs.k].kind
FsEngine == IF Kind = "writer" THEN Head(fs.todo) ELSE Failures[fs.k].engines[1]

FsFails == [fs EXCEPT !.at = "stop", !.err = TRUE]

Steady ==
    /\ fs.at = "steady"
    /\ StartWriter(FailureRate)
    /\ fs' = IF StartErr(FailureRate) THEN FsFails ELSE [fs EXCEPT !.at = "measure"]
    /\ UNCHANGED <<sourceVars, cdc, active, faults, cp>>

\* The ledger shows at least 95% of the rate, or the sequence is over.
RateHeld ==
    /\ fs.at = "measure"
    /\ fs' = [fs EXCEPT !.at = "break"]
    /\ UNCHANGED <<worldVars, cp>>

RateMissed ==
    /\ fs.at = "measure"
    /\ fs' = FsFails
    /\ UNCHANGED <<worldVars, cp>>

StopEngine ==
    /\ fs.at = "break" /\ Kind = "kill"
    /\ engine' = [engine EXCEPT ![FsEngine].up = FALSE]
    /\ fs' = [fs EXCEPT !.at = "mend"]
    /\ UNCHANGED <<mode, wal, ledger, heldVars, faults, cp>>

StartEngine ==
    /\ fs.at = "mend" /\ Kind = "kill"
    /\ engine' = [engine EXCEPT ![FsEngine].up = TRUE]
    /\ fs' = [fs EXCEPT !.at = "aim"]
    /\ UNCHANGED <<mode, wal, ledger, heldVars, faults, cp>>

\* docker refuses to disconnect an endpoint that is not connected.
Disconnect ==
    /\ fs.at = "break" /\ Kind = "cut"
    /\ engine' = [engine EXCEPT ![FsEngine].linked = FALSE]
    /\ fs' = IF engine[FsEngine].linked THEN [fs EXCEPT !.at = "mend"] ELSE FsFails
    /\ UNCHANGED <<mode, wal, ledger, heldVars, faults, cp>>

\* The source's LSN is read before the engine has caught up.
Reconnect ==
    /\ fs.at = "mend" /\ Kind = "cut"
    /\ engine' = [engine EXCEPT ![FsEngine].linked = TRUE]
    /\ fs' = [fs EXCEPT !.at = "aim", !.through = WalHead]
    /\ UNCHANGED <<mode, wal, ledger, heldVars, faults, cp>>

HaltWriter ==
    /\ fs.at = "break" /\ Kind = "writer"
    /\ StopWriter
    /\ fs' = IF StopErr THEN FsFails ELSE [fs EXCEPT !.at = "mend"]
    /\ UNCHANGED <<sourceVars, cdc, active, faults, cp>>

ResumeWriter ==
    /\ fs.at = "mend" /\ Kind = "writer"
    /\ StartWriter(FailureRate)
    /\ fs' = [fs EXCEPT !.at = "aim", !.through = WalHead, !.todo = Failures[fs.k].engines]
    /\ UNCHANGED <<sourceVars, cdc, active, faults, cp>>

\* wait_caught_up reads the source's LSN once.
Aim ==
    /\ fs.at = "aim"
    /\ fs' = [fs EXCEPT !.at = "await", !.aim = WalHead]
    /\ UNCHANGED <<worldVars, cp>>

CaughtUp ==
    /\ fs.at = "await" /\ Visible(FsEngine, fs.aim)
    /\ fs' = [fs EXCEPT !.at = "validate", !.through = IF Kind = "kill" THEN WalHead ELSE @]
    /\ CallCheckpoint(<<FsEngine>>)
    /\ UNCHANGED worldVars

NotCaughtUp ==
    /\ fs.at = "await" /\ ~Visible(FsEngine, fs.aim)
    /\ fs' = FsFails
    /\ UNCHANGED <<worldVars, cp>>

\* validate_lsn_range.
Covered == ~cp.err /\ cp.passed /\ cp.lsn >= fs.through

\* The next engine, the next failure, or the end.
FsNext ==
    IF Kind = "writer" /\ Len(fs.todo) > 1 THEN [fs EXCEPT !.at = "aim", !.todo = Tail(@)]
    ELSE IF fs.k < Len(Failures) THEN [NoFailure EXCEPT !.at = "steady", !.k = fs.k + 1]
    ELSE [fs EXCEPT !.at = "stop"]

Validated ==
    /\ fs.at = "validate" /\ cp.at = "done"
    /\ fs' = IF Covered THEN FsNext ELSE FsFails
    /\ cp' = NoCheckpoint
    /\ UNCHANGED worldVars

\* docker, PostgreSQL or an engine's status fails, or an engine reports an
\* operation missing, twice or out of order.
FailureCallFails ==
    /\ fs.at \in {"steady", "measure", "break", "mend", "aim", "await"} /\ faults < MaxFaults
    /\ fs' = FsFails
    /\ faults' = faults + 1
    /\ UNCHANGED <<sourceVars, heldVars, cp>>

\* Mutant of StopSequence: a failed sequence leaves its writer running.
StopSequenceOnSuccess ==
    /\ fs.at = "stop"
    /\ IF fs.err THEN UNCHANGED <<writer, slots>> ELSE StopWriter
    /\ fs' = [fs EXCEPT !.at = "done", !.err = @ \/ StopErr]
    /\ UNCHANGED <<sourceVars, cdc, active, faults, cp>>

\* The writer is stopped whatever came of it.
StopSequence ==
    /\ fs.at = "stop"
    /\ StopWriter
    /\ fs' = [fs EXCEPT !.at = "done", !.err = @ \/ StopErr]
    /\ UNCHANGED <<sourceVars, cdc, active, faults, cp>>

FailureStep ==
    \/ Steady \/ RateHeld \/ RateMissed \/ StopEngine \/ StartEngine \/ Disconnect \/ Reconnect
    \/ HaltWriter \/ ResumeWriter \/ Aim \/ CaughtUp \/ NotCaughtUp \/ Validated
    \/ FailureCallFails \/ StopSequence
=============================================================================
