------------------------------- MODULE R1Window -------------------------------
(***************************************************************************)
(* run_query_window: queries of the engines at exact source LSNs while the *)
(* writer runs at a rate, or not at all.  In a correctness run both        *)
(* engines are asked at one target, which is held until both prove that    *)
(* they show it.  Time is the number of rounds: a window may end after     *)
(* ScheduledRounds and ends after MaxRounds.  The caller waits for         *)
(* win.at = "done".                                                        *)
(***************************************************************************)
EXTENDS R1World

CONSTANTS ScheduledRounds, MaxRounds,
          MinSamples    \* MINIMUM_QUERY_SAMPLES, for one query shape

VARIABLES win,
          maps          \* engine -> isolated/<engine>'s replay map: original and replay LSNs

\* observed: the rate has been sampled; pending: the held target; samples: successful samples of each engine;
\* digests: what the engines that proved the target showed in this round;
\* proved: all of them did.
NoWindow == [at |-> "idle", engines |-> <<>>, todo |-> <<>>, rate |-> 0, round |-> 0, observed |-> FALSE,
             target |-> 0, pending |-> None, scanned |-> {}, digests |-> {},
             proved |-> TRUE, samples |-> [e \in Engine |-> 0], valid |-> TRUE, err |-> FALSE]

CallWindow(engines, rate) ==
    win' = [NoWindow EXCEPT !.at = "rate", !.engines = engines, !.rate = rate]

EnoughSamples == \A i \in DOMAIN win.engines : win.samples[win.engines[i]] >= MinSamples

\* set_writer_rate before the window; its error ends the window at once.
SetRate ==
    /\ win.at = "rate"
    /\ IF win.rate = 0 THEN StopWriter ELSE StartWriter(win.rate)
    /\ win' = IF (IF win.rate = 0 THEN StopErr ELSE StartErr(win.rate))
              THEN [win EXCEPT !.at = "done", !.err = TRUE]
              ELSE [win EXCEPT !.at = "gates"]
    /\ UNCHANGED <<sourceVars, cdc, active, faults, maps>>

\* pause_for_free_space: less than the floor is free.
FreeSpaceTrips ==
    /\ win.at = "gates" /\ win.round < MaxRounds
    /\ win' = [win EXCEPT !.at = "persist", !.valid = FALSE]
    /\ UNCHANGED <<worldVars, maps>>

\* A sample is due in the first round and from time to time after it.
SampleDue == win.at = "gates" /\ win.round < MaxRounds /\ win.rate # 0

\* rate_observation needs the status of each engine of the run's plan, in an
\* isolated window too.
Observable == \A e \in Engine : Reachable(e)

ObserveRate ==
    /\ SampleDue /\ ~win.observed /\ Observable
    /\ win' = [win EXCEPT !.observed = TRUE]
    /\ UNCHANGED <<worldVars, maps>>

ObservationFails ==
    /\ SampleDue /\ ~Observable
    /\ win' = [win EXCEPT !.at = "stop", !.err = TRUE]
    /\ UNCHANGED <<worldVars, maps>>

\* rate_search_stop: an engine is unhealthy or more than a second behind, or in
\* three samples the rate was missed or a large backlog grew.
RateStops ==
    /\ SampleDue /\ Observable
    /\ win' = [win EXCEPT !.at = "persist", !.valid = FALSE]
    /\ UNCHANGED <<worldVars, maps>>

\* query_checkpoint: the last ledger entry, or the last entry of the engine's
\* replay map; 0 while there is none.
Newest(s) == IF s = <<>> THEN 0 ELSE s[Len(s)]

\* The map as its file has it: resumed once, then refreshed at each use.
LastReplayed(e) == IF maps[e] = <<>> THEN 0 ELSE maps[e][Len(maps[e])].lsn

ChooseTarget ==
    /\ win.at = "gates" /\ win.round < MaxRounds
    /\ win.rate = 0 \/ win.observed
    /\ win' = [win EXCEPT
                 !.at = "query", !.todo = win.engines, !.digests = {}, !.proved = TRUE,
                 !.target = IF mode = "Isolated" THEN LastReplayed(Head(win.engines))
                            ELSE IF win.pending # None THEN win.pending
                            ELSE Newest(ledger)]
    /\ UNCHANGED <<worldVars, maps>>

Answered(e, rows) ==
    [win EXCEPT !.todo = Tail(@), !.at = "query", !.scanned = {},
                !.digests = @ \union {rows},
                !.samples[e] = IF @ < MinSamples THEN @ + 1 ELSE @]

NoAnswer == [win EXCEPT !.todo = Tail(@), !.at = "query", !.scanned = {}, !.proved = FALSE]

\* GrayDB scans first and reads the position it proves by afterwards.
ScanGraydb ==
    /\ win.at = "query" /\ win.todo # <<>> /\ Head(win.todo) = Graydb
    /\ Reachable(Graydb)
    /\ win' = [win EXCEPT !.at = "proof", !.scanned = Shown(Graydb, win.target)]
    /\ UNCHANGED <<worldVars, maps>>

ProveGraydb ==
    /\ win.at = "proof"
    /\ win' = IF Visible(Graydb, win.target) THEN Answered(Graydb, win.scanned) ELSE NoAnswer
    /\ UNCHANGED <<worldVars, maps>>

QueryClickhouse ==
    /\ win.at = "query" /\ win.todo # <<>> /\ Head(win.todo) = Clickhouse
    /\ Reachable(Clickhouse)
    /\ win' = IF Visible(Clickhouse, win.target)
              THEN Answered(Clickhouse, Shown(Clickhouse, win.target)) ELSE NoAnswer
    /\ UNCHANGED <<worldVars, maps>>

\* A query's error is a failed sample, not an error of the window.
QueryFails ==
    /\ win.at = "query" /\ win.todo # <<>>
    /\ Reachable(Head(win.todo)) => faults < MaxFaults
    /\ faults' = IF Reachable(Head(win.todo)) THEN faults + 1 ELSE faults
    /\ win' = NoAnswer
    /\ UNCHANGED <<sourceVars, heldVars, maps>>

EndRound ==
    /\ win.at = "query" /\ win.todo = <<>>
    /\ LET held == IF mode = "Correctness" /\ ~win.proved THEN win.target ELSE None
           ended == [win EXCEPT !.pending = held, !.round = @ + 1] IN
       win' = IF mode = "Correctness" /\ Cardinality(win.digests) > 1
              THEN [win EXCEPT !.at = "persist", !.valid = FALSE]
              ELSE IF win.round + 1 >= ScheduledRounds /\ EnoughSamples
              THEN [ended EXCEPT !.at = "persist"]
              ELSE [ended EXCEPT !.at = "gates"]
    /\ UNCHANGED <<worldVars, maps>>

OutOfTime ==
    /\ win.at = "gates" /\ win.round = MaxRounds
    /\ win' = [win EXCEPT !.at = "persist", !.valid = EnoughSamples]
    /\ UNCHANGED <<worldVars, maps>>

\* persist_timed_evidence.
Persist ==
    /\ win.at = "persist"
    /\ win' = [win EXCEPT !.at = "stop"]
    /\ UNCHANGED <<worldVars, maps>>

\* disk_space, the ledger, rate_observation or the files.
WindowCallFails ==
    /\ win.at \in {"gates", "persist"} /\ faults < MaxFaults
    /\ win' = [win EXCEPT !.at = "stop", !.err = TRUE]
    /\ faults' = faults + 1
    /\ UNCHANGED <<sourceVars, heldVars, maps>>

\* Mutant of StopRate: an error leaves before the writer is stopped.
StopRateOnSuccess ==
    /\ win.at = "stop"
    /\ IF win.err THEN UNCHANGED <<writer, slots>> ELSE StopWriter
    /\ win' = [win EXCEPT !.at = "done", !.err = @ \/ StopErr]
    /\ UNCHANGED <<sourceVars, cdc, active, faults, maps>>

\* set_writer_rate(None) on every path.
StopRate ==
    /\ win.at = "stop"
    /\ StopWriter
    /\ win' = [win EXCEPT !.at = "done", !.err = @ \/ StopErr]
    /\ UNCHANGED <<sourceVars, cdc, active, faults, maps>>

WindowStep ==
    \/ SetRate \/ FreeSpaceTrips \/ ObserveRate \/ ObservationFails \/ RateStops \/ ChooseTarget \/ ScanGraydb \/ ProveGraydb \/ QueryClickhouse
    \/ QueryFails \/ EndRound \/ OutOfTime \/ Persist \/ WindowCallFails \/ StopRate
=============================================================================
