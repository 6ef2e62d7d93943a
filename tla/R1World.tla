------------------------------ MODULE R1World -------------------------------
(***************************************************************************)
(* What a benchmark run of graydb-r1 works on: the PostgreSQL source, the  *)
(* two engines that follow it, the committed ledger, and what the          *)
(* controller's process holds of them (the writer's task, the ClickHouse   *)
(* CDC task, the engine an isolated run has active).  The engines and      *)
(* PostgreSQL are services behind RuntimeEngines and the compose project;  *)
(* the writer's inner protocol is the Writer module.                       *)
(*                                                                         *)
(* The WAL of a source is a sequence with TRUE for a published commit and  *)
(* FALSE for any other record, so a position is an LSN and LSN 0 lies      *)
(* before the data set.  A correctness run has one source, "shared"; an    *)
(* isolated run restores one for each engine.                              *)
(***************************************************************************)
EXTENDS Naturals, Sequences, FiniteSets

CONSTANTS Graydb, Clickhouse, None,
          MaxWal,      \* bound on the records of a source
          MaxFaults,   \* bound on crashes, failing calls and lost commits
          Ledgers      \* the committed ledgers an isolated run may be given
ASSUME WorldAssumption ==
    /\ Graydb # Clickhouse
    /\ "shared" \notin {Graydb, Clickhouse} /\ None \notin {Graydb, Clickhouse}
    /\ Ledgers \subseteq Seq(Nat)

Engine == {Graydb, Clickhouse}
Source == Engine \union {"shared"}

VARIABLES
    mode,      \* the plan's RunMode
    wal,       \* source -> its WAL
    engine,    \* engine -> what it has of its source (EngineState)
    ledger,    \* workload-ledger.jsonl: the LSN of every committed transaction
    writer,    \* WriterCoordinator: active's rate (0: none) and its session
    slots,     \* the sources that have the control slot
    cdc,       \* services.clickhouse_cdc is there
    active,    \* services.active_isolated_engine
    faults

sourceVars == <<mode, wal, engine, ledger>>
heldVars == <<writer, slots, cdc, active>>
worldVars == <<sourceVars, heldVars, faults>>

\* The source the process is connected to, its WAL position and its commits.
Here == IF active = None THEN "shared" ELSE active
WalHead == Len(wal[Here])
Commits(source, lsn) == {p \in DOMAIN wal[source] : p <= lsn /\ wal[source][p]}

\* The seed ends at the first position of the shared source's WAL.
InitialLsn == 1

\* snap: the LSN its snapshot's rows carry, 0 before there is one; base: the
\* commits in them; from: where its change stream starts; applied: the position
\* it reports; lost: the commits it passed over by mistake; up: its container
\* runs; linked: it is on the compose network.
Unloaded == [snap |-> 0, base |-> {}, from |-> 0, applied |-> 0, lost |-> {},
             up |-> TRUE, linked |-> TRUE]

Streamed(e) == Commits(Here, engine[e].applied) \ (Commits(Here, engine[e].from) \union engine[e].lost)

\* The commits whose effect a query exact at lsn sees.  The rows of the initial
\* load carry its LSN: a query at an earlier target sees none of them.
Shown(e, lsn) ==
    IF engine[e].snap = 0 \/ lsn < engine[e].snap THEN {}
    ELSE engine[e].base \union {p \in Streamed(e) : p <= lsn}

\* In an isolated run the other engine is down.
Reachable(e) ==
    /\ engine[e].up /\ engine[e].linked /\ engine[e].snap # 0
    /\ mode = "Isolated" => active = e

\* wait_visible, and the proof of an answer.
Visible(e, lsn) == Reachable(e) /\ lsn <= engine[e].applied

\* A snapshot reads live data, whatever LSN it is labelled with, and the
\* change stream starts behind it.
Loaded(e, label) ==
    [Unloaded EXCEPT !.snap = label, !.applied = label, !.from = WalHead,
                     !.base = Commits(Here, WalHead)]

\* alive: its task has not ended by itself; session: what ensure_initialized
\* made, "none" before it, "lost" when its connection or control stream is dead.
NoWriter == [rate |-> 0, alive |-> FALSE, session |-> "none"]

WorldInit ==
    /\ mode \in {"Correctness", "Isolated"}
    /\ wal = [s \in Source |-> <<>>]
    /\ engine = [e \in Engine |-> Unloaded]
    /\ ledger \in Ledgers \union {<<>>}
    /\ mode = "Correctness" => ledger = <<>>
    /\ writer = NoWriter
    /\ slots = {}
    /\ cdc = FALSE
    /\ active = None
    /\ faults = 0

-----------------------------------------------------------------------------
(***************************************************************************)
(* WriterCoordinator.  A task that has ended by itself is still "active".  *)
(***************************************************************************)
StopErr == writer.rate # 0 /\ ~writer.alive

\* ensure_initialized, once in a process: the control stream creates its slot,
\* which nobody drops and which is there again after the process has gone.
InitErr == writer.session = "none" /\ Here \in slots

\* Mutant of InitErr: a slot that is there is used.
SlotIsReused == FALSE

\* start keeps a writer of the same rate, dead or alive, and stops another one.
StartErr(rate) == writer.rate # rate /\ (StopErr \/ InitErr)

\* stop: a task that has ended by itself has dropped the stop channel, and the
\* writer it would have given back is lost with it.
Parked == [rate |-> 0, alive |-> FALSE, session |-> IF StopErr THEN "none" ELSE writer.session]

\* run's first statement finds out whether the connection is alive.
StartWriter(rate) ==
    IF writer.rate = rate THEN UNCHANGED <<writer, slots>>
    ELSE IF StartErr(rate) THEN writer' = Parked /\ UNCHANGED slots
    ELSE LET session == IF writer.session = "none" THEN "live" ELSE writer.session IN
         /\ writer' = [rate |-> rate, alive |-> session = "live", session |-> session]
         /\ slots' = IF writer.session = "none" THEN slots \union {Here} ELSE slots

StopWriter == writer' = Parked /\ UNCHANGED slots

-----------------------------------------------------------------------------
(***************************************************************************)
(* The services, each at its own pace.                                     *)
(***************************************************************************)
Appended(published) == wal' = [wal EXCEPT ![Here] = Append(@, published)]

\* A commit and its ledger entry are one step: what lies between them, and what
\* a lost answer or a crash does to it, is the Writer module.
WriterCommits ==
    /\ writer.alive /\ WalHead < MaxWal
    /\ Appended(TRUE)
    /\ ledger' = Append(ledger, WalHead + 1)
    /\ UNCHANGED <<mode, engine, heldVars, faults>>

\* run returns an error and nobody notices before the next stop.
WriterDies ==
    /\ writer.alive /\ faults < MaxFaults
    /\ \E session \in {"live", "lost"} :
          writer' = [writer EXCEPT !.alive = FALSE, !.session = session]
    /\ faults' = faults + 1
    /\ UNCHANGED <<sourceVars, slots, cdc, active>>

\* A checkpoint, a vacuum, a standby snapshot.
OtherRecord ==
    /\ 0 < WalHead /\ WalHead < MaxWal
    /\ Appended(FALSE)
    /\ UNCHANGED <<mode, engine, ledger, heldVars, faults>>

\* ClickHouse only moves through the task in the controller's process.
Follows(e) ==
    /\ Reachable(e) /\ engine[e].applied < WalHead
    /\ e = Clickhouse => cdc

\* It catches up by as many records as it likes.
EngineApplies(e) ==
    /\ Follows(e)
    /\ \E lsn \in (engine[e].applied + 1)..WalHead :
          engine' = [engine EXCEPT ![e].applied = lsn]
    /\ UNCHANGED <<mode, wal, ledger, heldVars, faults>>

\* An engine that is wrong: it passes over a commit.
EngineLoses(e) ==
    /\ Follows(e) /\ faults < MaxFaults
    /\ \E p \in Commits(Here, WalHead) :
          /\ engine[e].applied < p
          /\ \E lsn \in p..WalHead :
                engine' = [engine EXCEPT ![e].applied = lsn, ![e].lost = @ \union {p}]
    /\ faults' = faults + 1
    /\ UNCHANGED <<mode, wal, ledger, heldVars>>

Services ==
    \/ WriterCommits
    \/ WriterDies
    \/ OtherRecord
    \/ \E e \in Engine : EngineApplies(e) \/ EngineLoses(e)
=============================================================================
