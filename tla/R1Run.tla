-------------------------------- MODULE R1Run ---------------------------------
(***************************************************************************)
(* A benchmark run: the controller, which takes the run through its stages *)
(* and keeps run-state.json, the runtime that executes each stage, and the *)
(* files the stages leave in the run directory.  The process that holds    *)
(* them may be killed anywhere; the operator resumes it from what is on    *)
(* disk.  Invalidation is final: what is left is to report and archive.    *)
(***************************************************************************)
EXTENDS R1Failure, R1Window, SequencesExt

CONSTANT SearchRates     \* search_rates(maximum_rate): every profile has some
ASSUME SearchRatesAssumption == SearchRates \in Seq(Nat) \ {<<>>}

VARIABLES
    state,     \* run-state.json
    disk,      \* the rest of the run directory
    proc       \* the controller's process: where it is, and run_to_terminal's locals

runVars == <<state, disk, proc>>
callVars == <<cp, win, fs>>
vars == <<worldVars, runVars, callVars, maps>>

Ordered == <<"Preflight", "Seed", "BaselineSnapshot", "Bootstrap", "InitialCheckpoint",
             "Warmup", "Quiet", "Cdc300", "Cdc1000", "RateSearch", "FailureSequence",
             "FinalCheckpoint", "Report", "Checksums", "Complete">>
Archival == <<"Report", "Checksums">>
Stage == Range(Ordered)
Timed == {"Warmup", "Quiet", "Cdc300", "Cdc1000", "RateSearch"}
Checks == {"InitialCheckpoint", "FinalCheckpoint"}

\* GrayDB first, then ClickHouse: the plan's engines.
Both == <<Graydb, Clickhouse>>

\* step: where the stage's body is; todo: engines it still has to visit;
\* replayed: the entries of the source at hand; rates: rates still to search;
\* ok: the outcome is valid; agree: an isolated checkpoint has found no
\* difference; reached: its first engine's sequence.
Down == [at |-> "down", stage |-> "none", step |-> "none", todo |-> <<>>, replayed |-> <<>>,
         rates |-> <<>>, ok |-> TRUE, agree |-> TRUE, reached |-> 0]
AtBoundary == [Down EXCEPT !.at = "next"]

NoState == [plan |-> "absent", done |-> [s \in Stage |-> "no"], invalid |-> FALSE]

EmptyDirectory == [manifest |-> FALSE, baseline |-> "none", restored |-> {},
                   check |-> [s \in Checks |-> "none"], sums |-> FALSE, result |-> "none"]

Init ==
    /\ WorldInit
    /\ state = NoState /\ disk = EmptyDirectory /\ proc = Down
    /\ maps = [e \in Engine |-> <<>>]
    /\ cp = NoCheckpoint /\ win = NoWindow /\ fs = NoFailure

-----------------------------------------------------------------------------
(***************************************************************************)
(* RunController.                                                          *)
(***************************************************************************)
\* The first of the stages that has no outcome yet.
FirstOpen(stages) ==
    LET open == {i \in DOMAIN stages : state.done[stages[i]] = "no"} IN
    IF open = {} THEN "none" ELSE stages[Min(open)]

\* Mutant of NextStage: it goes on with the benchmark's stages.
NextStageOfAny == FirstOpen(Ordered)

NextStage == FirstOpen(IF state.invalid THEN Archival ELSE Ordered)

\* Mutant of Exit: the checkpoint under way survives its process.
ExitKeepsCall ==
    /\ proc' = Down
    /\ writer' = NoWriter /\ cdc' = FALSE /\ active' = None /\ UNCHANGED slots
    /\ win' = NoWindow /\ fs' = NoFailure /\ UNCHANGED cp

\* The process ends: its tasks end with it, and nobody stops the engines.
Exit ==
    /\ proc' = Down
    /\ writer' = NoWriter /\ cdc' = FALSE /\ active' = None /\ UNCHANGED slots
    /\ cp' = NoCheckpoint /\ win' = NoWindow /\ fs' = NoFailure

\* A stage returned an error: the run is invalid, durably, and then r1ctl
\* exits.
Fail ==
    /\ state' = [state EXCEPT !.invalid = TRUE]
    /\ proc' = [Down EXCEPT !.at = "failed"]
    /\ UNCHANGED <<heldVars, callVars>>

ExitFailed ==
    /\ proc.at = "failed"
    /\ Exit
    /\ UNCHANGED <<sourceVars, faults, state, disk, maps>>

\* r1ctl run: create persists a state without a plan, set_plan adds it.
Create ==
    /\ proc.at = "down" /\ state.plan = "absent"
    /\ state' = [state EXCEPT !.plan = "missing"]
    /\ proc' = [Down EXCEPT !.at = "created"]
    /\ UNCHANGED <<worldVars, disk, maps, callVars>>

SetPlan ==
    /\ proc.at = "created"
    /\ state' = [state EXCEPT !.plan = "set"]
    /\ proc' = AtBoundary
    /\ UNCHANGED <<worldVars, disk, maps, callVars>>

ResumeRun ==
    /\ proc.at = "down" /\ state.plan # "absent"
    /\ proc' = AtBoundary
    /\ UNCHANGED <<worldVars, state, disk, maps, callVars>>

\* archive_unplanned.
ArchiveUnplanned ==
    /\ proc.at = "next" /\ state.plan = "missing" /\ ~state.invalid
    /\ state' = [state EXCEPT !.invalid = TRUE]
    /\ UNCHANGED <<worldVars, disk, proc, maps, callVars>>

Begin ==
    /\ proc.at = "next" /\ NextStage # "none"
    /\ state.plan = "missing" => state.invalid
    /\ proc' = [AtBoundary EXCEPT
                  !.at = "stage", !.stage = NextStage, !.step = "body",
                  !.todo = IF mode = "Isolated" THEN Both ELSE <<>>,
                  !.rates = CASE NextStage = "RateSearch" -> SearchRates
                              [] NextStage = "Cdc300" -> <<300>>
                              [] NextStage = "Cdc1000" -> <<1000>>
                              [] OTHER -> <<0>>]
    /\ UNCHANGED <<worldVars, state, disk, maps, callVars>>

End ==
    /\ proc.at = "next" /\ NextStage = "none"
    /\ proc' = [Down EXCEPT !.at = "ended"]
    /\ writer' = NoWriter /\ cdc' = FALSE /\ active' = None /\ UNCHANGED slots
    /\ UNCHANGED <<sourceVars, faults, state, disk, maps, callVars>>

\* complete_stage, after the policy on a timed stage's samples and duration;
\* the failure sequence then ends the process with exit code 75.
Complete(valid) ==
    /\ proc.at = "stage" /\ proc.step = "outcome"
    /\ valid => proc.ok
    /\ proc.stage \in Timed \/ valid = proc.ok
    /\ state' = [state EXCEPT !.done[proc.stage] = IF valid THEN "valid" ELSE "invalid",
                              !.invalid = @ \/ ~valid]
    /\ IF proc.stage = "FailureSequence" /\ mode = "Correctness" THEN Exit
       ELSE proc' = AtBoundary /\ UNCHANGED <<heldVars, callVars>>
    /\ UNCHANGED <<sourceVars, faults, disk, maps>>

-----------------------------------------------------------------------------
(***************************************************************************)
(* The stages' bodies.                                                     *)
(***************************************************************************)
Doing(stage, step) == proc.at = "stage" /\ proc.stage = stage /\ proc.step = step
Step(step) == proc' = [proc EXCEPT !.step = step]
Finish(ok) == proc' = [proc EXCEPT !.step = "outcome", !.ok = ok]

Preflight ==
    /\ Doing("Preflight", "body")
    /\ Finish(TRUE)
    /\ UNCHANGED <<worldVars, state, disk, maps, callVars>>

\* A manifest on disk is the data set; without one the seed starts over.
Seeded ==
    /\ Doing("Seed", "body") /\ disk.manifest
    /\ Finish(TRUE)
    /\ UNCHANGED <<worldVars, state, disk, maps, callVars>>

LoadSeed ==
    /\ Doing("Seed", "body") /\ ~disk.manifest
    /\ wal' = [wal EXCEPT !["shared"] = <<TRUE>>]
    /\ Step("loaded")
    /\ UNCHANGED <<mode, engine, ledger, heldVars, faults, state, disk, maps, callVars>>

WriteManifest ==
    /\ Doing("Seed", "loaded")
    /\ disk' = [disk EXCEPT !.manifest = TRUE]
    /\ Finish(TRUE)
    /\ UNCHANGED <<worldVars, state, maps, callVars>>

BackUp ==
    /\ Doing("BaselineSnapshot", "body") /\ disk.baseline = "none"
    /\ disk' = [disk EXCEPT !.baseline = "files"]
    /\ Step("copied")
    /\ UNCHANGED <<worldVars, state, maps, callVars>>

ChecksumBaseline ==
    /\ Doing("BaselineSnapshot", "copied")
    /\ disk' = [disk EXCEPT !.baseline = "checksummed"]
    /\ IF mode = "Isolated" THEN Step("prepare") ELSE Finish(TRUE)
    /\ UNCHANGED <<worldVars, state, maps, callVars>>

VerifyBaseline ==
    /\ Doing("BaselineSnapshot", "body") /\ disk.baseline = "checksummed"
    /\ IF mode = "Isolated" THEN Step("prepare") ELSE Finish(TRUE)
    /\ UNCHANGED <<worldVars, state, disk, maps, callVars>>

\* A backup without its checksums is never overwritten.
BaselineRefused ==
    /\ Doing("BaselineSnapshot", "body") /\ disk.baseline = "files"
    /\ Fail
    /\ UNCHANGED <<sourceVars, faults, disk, maps>>

\* prepare_isolated_replay: the baseline is restored for each engine, into a
\* directory that must be new, and then the ledger is replayed in each.
RestoreRefused ==
    /\ Doing("BaselineSnapshot", "prepare") /\ proc.todo # <<>>
    /\ ledger = <<>> \/ Head(proc.todo) \in disk.restored
    /\ Fail
    /\ UNCHANGED <<sourceVars, faults, disk, maps>>

Restore ==
    /\ Doing("BaselineSnapshot", "prepare") /\ proc.todo # <<>>
    /\ ledger # <<>> /\ Head(proc.todo) \notin disk.restored
    /\ wal' = [wal EXCEPT ![Head(proc.todo)] = <<TRUE>>]
    /\ disk' = [disk EXCEPT !.restored = @ \union {Head(proc.todo)}]
    /\ proc' = [proc EXCEPT !.todo = Tail(@)]
    /\ UNCHANGED <<mode, engine, ledger, heldVars, faults, state, maps, callVars>>

StartReplays ==
    /\ Doing("BaselineSnapshot", "prepare") /\ proc.todo = <<>>
    /\ proc' = [proc EXCEPT !.step = "replay", !.todo = Both]
    /\ UNCHANGED <<worldVars, state, disk, maps, callVars>>

\* The restored sources run one after the other.
Replaying(e) ==
    Doing("BaselineSnapshot", "replay") /\ proc.todo # <<>> /\ e = Head(proc.todo)

NextReplay(e) == ledger[Len(proc.replayed) + 1]

\* Mutant of ReplayTransaction: the LSN is read before the transaction commits.
ReplayReadsLsnFirst(e) ==
    /\ Replaying(e) /\ Len(proc.replayed) < Len(ledger)
    /\ \E others \in {<<>>, <<FALSE>>} : wal' = [wal EXCEPT ![e] = @ \o <<TRUE>> \o others]
    /\ proc' = [proc EXCEPT !.replayed =
                    Append(@, [original |-> NextReplay(e), lsn |-> Len(wal[e])])]
    /\ UNCHANGED <<mode, engine, ledger, heldVars, faults, state, disk, maps, callVars>>

\* The next committed plan, and then the LSN its source has reached, which may
\* lie past the commit.
ReplayTransaction(e) ==
    /\ Replaying(e) /\ Len(proc.replayed) < Len(ledger)
    /\ \E others \in {<<>>, <<FALSE>>} : wal' = [wal EXCEPT ![e] = @ \o <<TRUE>> \o others]
    /\ proc' = [proc EXCEPT !.replayed =
                    Append(@, [original |-> NextReplay(e), lsn |-> Len(wal'[e])])]
    /\ UNCHANGED <<mode, engine, ledger, heldVars, faults, state, disk, maps, callVars>>

\* WorkloadReplayer::replay, when the source has stopped: the entries are
\* pushed one by one, each where validate_next expects it.
PushReplayed(e) ==
    /\ Replaying(e) /\ Len(proc.replayed) = Len(ledger)
    /\ Len(maps[e]) < Len(proc.replayed)
    /\ maps' = [maps EXCEPT ![e] = Append(@, proc.replayed[Len(@) + 1])]
    /\ UNCHANGED <<worldVars, state, disk, proc, callVars>>

Replayed(e) ==
    /\ Replaying(e) /\ Len(proc.replayed) = Len(ledger) /\ Len(maps[e]) = Len(ledger)
    /\ proc' = [proc EXCEPT !.todo = Tail(@), !.replayed = <<>>]
    /\ UNCHANGED <<worldVars, state, disk, maps, callVars>>

\* IsolatedReplayEvidence::validate: both maps stand for the same ledger.
Originals(e) == [i \in DOMAIN maps[e] |-> maps[e][i].original]

ValidateReplays ==
    /\ Doing("BaselineSnapshot", "replay") /\ proc.todo = <<>>
    /\ IF maps[Graydb] # <<>> /\ Originals(Graydb) = Originals(Clickhouse)
       THEN Finish(TRUE) /\ UNCHANGED <<state, heldVars, callVars>>
       ELSE Fail
    /\ UNCHANGED <<sourceVars, faults, disk, maps>>

\* GrayDB attaches to its source once, and keeps what it has.
Attached(e) == IF engine[e].snap = 0 THEN Loaded(e, WalHead) ELSE engine[e]

\* An isolated run only records its configuration.
Bootstrap ==
    /\ Doing("Bootstrap", "body")
    /\ IF mode = "Isolated" THEN Finish(TRUE) /\ UNCHANGED engine
       ELSE /\ engine' = [engine EXCEPT ![Graydb] = Attached(Graydb),
                                        ![Clickhouse] = Loaded(Clickhouse, InitialLsn)]
            /\ Step("follow")
    /\ UNCHANGED <<mode, wal, ledger, heldVars, faults, state, disk, maps, callVars>>

\* The ClickHouse stream starts at the position after the snapshot.
StartCdc ==
    /\ Doing("Bootstrap", "follow")
    /\ cdc' = TRUE
    /\ engine' = [engine EXCEPT ![Clickhouse].from = WalHead]
    /\ Finish(TRUE)
    /\ UNCHANGED <<mode, wal, ledger, writer, slots, active, faults, state, disk, maps, callVars>>

\* activate_system_isolated_engine up to its wait: the previous engine goes
\* down with its source, and the writer's session with that; ClickHouse loads
\* the live data under the replay's last LSN.  The engine counts as active from here; if the wait fails the
\* process ends.
Activate(next) ==
    LET e == Head(proc.todo) IN
    IF active = e THEN Step(next) /\ UNCHANGED <<engine, writer, cdc, active>>
    ELSE /\ active' = e
         /\ cdc' = (e = Clickhouse)
         /\ writer' = [writer EXCEPT !.session = IF @ = "live" THEN "lost" ELSE @]
         /\ engine' = [engine EXCEPT ![e] =
                LET head == Len(wal[e])
                    fresh == [Unloaded EXCEPT !.from = head, !.base = Commits(e, head)] IN
                IF e = Clickhouse
                THEN [fresh EXCEPT !.snap = LastReplayed(e), !.applied = LastReplayed(e)]
                ELSE IF @.snap = 0 THEN [fresh EXCEPT !.snap = head, !.applied = head] ELSE @]
         /\ Step("activate")

ActivationWaits(next) ==
    /\ proc.at = "stage" /\ proc.step = "activate"
    /\ Visible(active, LastReplayed(active))
    /\ Step(next)

-----------------------------------------------------------------------------
\* The checkpoint stages.
NextCheck ==
    /\ proc.at = "stage" /\ proc.stage \in Checks
    /\ \/ /\ mode = "Isolated" /\ proc.step = "body" /\ proc.todo # <<>>
          /\ Activate("check") /\ UNCHANGED cp
       \/ /\ mode = "Isolated" /\ ActivationWaits("check")
          /\ UNCHANGED <<engine, writer, cdc, active, cp>>
       \/ /\ mode = "Isolated" /\ proc.step = "check"
          /\ CallCheckpoint(<<active>>) /\ Step("checking")
          /\ UNCHANGED <<engine, writer, cdc, active>>
       \/ /\ mode = "Correctness" /\ proc.step = "body"
          /\ CallCheckpoint(Both) /\ Step("checking")
          /\ UNCHANGED <<engine, writer, cdc, active>>
    /\ UNCHANGED <<mode, wal, ledger, slots, faults, state, disk, maps, win, fs>>

\* One engine's or both engines' comparison has ended.
Checked ==
    /\ proc.at = "stage" /\ proc.stage \in Checks /\ proc.step = "checking"
    /\ cp.at = "done"
    /\ IF cp.err THEN Fail
       ELSE /\ LET sequence == IF mode = "Isolated" THEN Len(maps[active]) ELSE 0
                   first == mode = "Isolated" /\ active = Graydb
                   agree == /\ proc.agree /\ cp.passed
                            /\ first \/ mode = "Correctness" \/ sequence = proc.reached IN
               proc' = [proc EXCEPT !.agree = agree,
                                    !.reached = IF first THEN sequence ELSE @,
                                    !.todo = IF @ = <<>> THEN @ ELSE Tail(@),
                                    !.step = IF Len(proc.todo) > 1 THEN "body" ELSE "record"]
            /\ cp' = NoCheckpoint
            /\ UNCHANGED <<state, heldVars, win, fs>>
    /\ UNCHANGED <<sourceVars, faults, disk, maps>>

\* Mutant of RecordCheck: the differences are not looked at.
RecordCheckPasses ==
    /\ proc.at = "stage" /\ proc.stage \in Checks /\ proc.step = "record"
    /\ disk' = [disk EXCEPT !.check[proc.stage] = "pass"]
    /\ Finish(TRUE)
    /\ UNCHANGED <<worldVars, state, maps, callVars>>

\* The record is written first, and then has to have passed.
RecordCheck ==
    /\ proc.at = "stage" /\ proc.stage \in Checks /\ proc.step = "record"
    /\ disk' = [disk EXCEPT !.check[proc.stage] = IF proc.agree THEN "pass" ELSE "fail"]
    /\ IF proc.agree THEN Finish(TRUE) /\ UNCHANGED <<state, heldVars, callVars>> ELSE Fail
    /\ UNCHANGED <<sourceVars, faults, maps>>

-----------------------------------------------------------------------------
\* The timed stages: one window for each rate, in an isolated run one for each
\* engine in turn.
NextWindow ==
    /\ proc.at = "stage" /\ proc.stage \in Timed
    /\ \/ /\ mode = "Isolated" /\ proc.step = "body"
          /\ Activate("window") /\ UNCHANGED win
       \/ /\ mode = "Isolated" /\ ActivationWaits("window")
          /\ UNCHANGED <<engine, writer, cdc, active, win>>
       \/ /\ mode = "Isolated" /\ proc.step = "window"
          /\ CallWindow(<<active>>, Head(proc.rates)) /\ Step("measuring")
          /\ UNCHANGED <<engine, writer, cdc, active>>
       \/ /\ mode = "Correctness" /\ proc.step = "body"
          /\ CallWindow(Both, Head(proc.rates)) /\ Step("measuring")
          /\ UNCHANGED <<engine, writer, cdc, active>>
    /\ UNCHANGED <<mode, wal, ledger, slots, faults, state, disk, maps, cp, fs>>

\* The first window that is not valid ends the stage.
Measured ==
    /\ proc.at = "stage" /\ proc.step = "measuring" /\ win.at = "done"
    /\ IF win.err THEN Fail
       ELSE /\ IF ~win.valid THEN Finish(FALSE)
               ELSE IF Len(proc.todo) > 1
               THEN proc' = [proc EXCEPT !.step = "body", !.todo = Tail(@)]
               ELSE IF Len(proc.rates) > 1
               THEN proc' = [proc EXCEPT !.step = "body", !.rates = Tail(@),
                                         !.todo = IF mode = "Isolated" THEN Both ELSE <<>>]
               ELSE Finish(TRUE)
            /\ win' = NoWindow
            /\ UNCHANGED <<state, heldVars, cp, fs>>
    /\ UNCHANGED <<sourceVars, faults, disk, maps>>

BreakThings ==
    /\ Doing("FailureSequence", "body")
    /\ IF mode = "Isolated" THEN Finish(TRUE) /\ UNCHANGED fs
       ELSE CallFailureSequence /\ Step("breaking")
    /\ UNCHANGED <<worldVars, state, disk, maps, cp, win>>

\* Mutant of Broken: the sequence's error is not looked at.
BrokenAnyway ==
    /\ Doing("FailureSequence", "breaking") /\ fs.at = "done"
    /\ Finish(TRUE) /\ fs' = NoFailure
    /\ UNCHANGED <<worldVars, state, disk, maps, cp, win>>

Broken ==
    /\ Doing("FailureSequence", "breaking") /\ fs.at = "done"
    /\ IF fs.err THEN Fail
       ELSE Finish(TRUE) /\ fs' = NoFailure /\ UNCHANGED <<state, heldVars, cp, win>>
    /\ UNCHANGED <<sourceVars, faults, disk, maps>>

BeforeReport == {Ordered[i] : i \in 1..12}

\* write_system_report; a run without a plan reports that it has none.  That
\* there are samples follows from the timed stages' validity.
Report ==
    /\ Doing("Report", "body")
    /\ LET valid == /\ ~state.invalid
                    /\ \A s \in BeforeReport : state.done[s] = "valid"
                    /\ disk.manifest /\ disk.check["FinalCheckpoint"] = "pass" IN
       disk' = [disk EXCEPT !.result = IF valid THEN "valid" ELSE "invalid"]
    /\ Finish(TRUE)
    /\ UNCHANGED <<worldVars, state, maps, callVars>>

Checksums ==
    /\ Doing("Checksums", "body")
    /\ disk' = [disk EXCEPT !.sums = TRUE]
    /\ Finish(TRUE)
    /\ UNCHANGED <<worldVars, state, maps, callVars>>

CompleteRun ==
    /\ Doing("Complete", "body")
    /\ Finish(TRUE)
    /\ UNCHANGED <<worldVars, state, disk, maps, callVars>>

-----------------------------------------------------------------------------
\* A command, a query or a file operation of a stage's own fails: preflight
\* finds too little disk, docker does not start a service, ...
StageFails ==
    /\ proc.at = "stage"
    /\ proc.step \notin {"checking", "measuring", "breaking", "outcome"}
    /\ faults < MaxFaults
    /\ Fail
    /\ faults' = faults + 1
    /\ UNCHANGED <<sourceVars, disk, maps>>

Crash ==
    /\ proc.at \in {"created", "next", "stage", "failed"} /\ faults < MaxFaults
    /\ Exit
    /\ faults' = faults + 1
    /\ UNCHANGED <<sourceVars, state, disk, maps>>

Controller ==
    \/ Create \/ SetPlan \/ ResumeRun \/ ArchiveUnplanned \/ Begin \/ End \/ ExitFailed
    \/ \E valid \in BOOLEAN : Complete(valid)

Stages ==
    \/ Preflight \/ Seeded \/ LoadSeed \/ WriteManifest
    \/ BackUp \/ ChecksumBaseline \/ VerifyBaseline \/ BaselineRefused
    \/ RestoreRefused \/ Restore \/ StartReplays
    \/ \E e \in Engine : ReplayTransaction(e) \/ PushReplayed(e) \/ Replayed(e)
    \/ ValidateReplays
    \/ Bootstrap \/ StartCdc
    \/ NextCheck \/ Checked \/ RecordCheck
    \/ NextWindow \/ Measured \/ BreakThings \/ Broken
    \/ Report \/ Checksums \/ CompleteRun
    \/ StageFails

\* What the process itself does; a call is made while its caller waits.
Process ==
    \/ Controller
    \/ Stages
    \/ proc.at = "stage" /\ CheckpointStep /\ UNCHANGED <<runVars, maps, win, fs>>
    \/ proc.at = "stage" /\ WindowStep /\ UNCHANGED <<runVars, cp, fs>>
    \/ proc.at = "stage" /\ FailureStep /\ UNCHANGED <<runVars, maps, win>>

Next ==
    \/ Process
    \/ Crash
    \/ Services /\ UNCHANGED <<runVars, maps, callVars>>

\* The process runs, and whoever started it resumes it when it has exited.
Spec == Init /\ [][Next]_vars /\ WF_vars(Process)

-----------------------------------------------------------------------------
\* Type invariant of the run, with its calls: at most one is under way, and
\* only while its caller waits for it.
RunTypeOK ==
    /\ mode \in {"Correctness", "Isolated"}
    /\ \A s \in Source : \A i \in DOMAIN wal[s] : wal[s][i] \in BOOLEAN
    /\ state \in [plan : {"absent", "missing", "set"}, done : [Stage -> {"no", "valid", "invalid"}],
                  invalid : BOOLEAN]
    /\ disk \in [manifest : BOOLEAN, baseline : {"none", "files", "checksummed"},
                 restored : SUBSET Engine, check : [Checks -> {"none", "pass", "fail"}],
                 sums : BOOLEAN, result : {"none", "valid", "invalid"}]
    /\ proc.at \in {"down", "created", "next", "stage", "failed", "ended"}
    /\ proc.at = "stage" => proc.stage \in Stage
    /\ active \in Engine \union {None}
    /\ cp.at # "idle" => proc.step \in {"checking", "breaking"} \/ proc.at = "failed"
    /\ win.at # "idle" => proc.step = "measuring" \/ proc.at = "failed"
    /\ fs.at # "idle" => proc.step = "breaking" \/ proc.at = "failed"

\* Between stages, and while no controller runs, no application writer is there:
\* every path out of a window, a checkpoint or the failure sequence has stopped
\* it (run_query_window, run_system_failure_sequence).
WriterParked ==
    proc.at # "stage" \/ proc.step = "outcome" => writer.rate = 0

\* What is compared is what the source held at the captured LSN, although the
\* LSN is not part of the snapshot (the writer is parked); and in a checkpoint
\* stage every engine that passed shows the source's commits up to the raised
\* LSN, all of them and no other (capture_runtime_checkpoint).
CheckpointIsSound ==
    /\ cp.at = "resume" /\ ~cp.err => cp.captured = Commits(Here, cp.lsn)
    /\ proc.stage \in Checks /\ cp.at \in {"compare", "done"} /\ ~cp.err /\ cp.passed =>
         \A e \in Range(cp.engines) \ Range(cp.todo) : Shown(e, cp.lsn) = Commits(Here, cp.lsn)

\* A run that reports itself valid passed both checkpoints, and in a correctness
\* run no engine has lost or still lacks a commit of the source, whatever was
\* killed, cut off or resumed on the way (write_system_report).
ReportIsTrue ==
    disk.result = "valid" =>
        /\ \A s \in Checks : disk.check[s] = "pass"
        /\ mode = "Correctness" => \A e \in Engine :
              LET head == Len(wal["shared"]) IN
              engine[e].lost = {} /\ Commits("shared", head) \subseteq Shown(e, head)

\* The replay maps an isolated run measures by both cover the ledger they were
\* made from, whatever failed or crashed between a commit and its line in the
\* map, and the i-th LSN of each lies at or after exactly the first i replayed
\* commits of its own source; that stays so when the run's own writer appends
\* to the ledger and to a source (prepare_system_isolated_replay).
MapsAgree ==
    mode = "Isolated" =>
        /\ Doing("BaselineSnapshot", "outcome") => \A e \in Engine : DOMAIN maps[e] = DOMAIN ledger
        /\ state.done["BaselineSnapshot"] = "valid" =>
             /\ maps[Graydb] # <<>> /\ Len(maps[Graydb]) = Len(maps[Clickhouse])
             /\ \A e \in Engine : \A i \in DOMAIN maps[e] :
                  /\ i \in DOMAIN ledger /\ maps[e][i].original = ledger[i]
                  /\ Cardinality(Commits(e, maps[e][i].lsn)) = i + 1

\* A failure sequence that counts as passed has left no engine stopped or cut
\* off.  (One that a crash interrupts with an engine broken does not get to
\* count: the resumed process starts it over and errs at the control slot, which
\* its first writer left behind.)
EnginesMended ==
    state.done["FailureSequence"] = "valid" => \A e \in Engine : engine[e].up /\ engine[e].linked

\* Once the run is invalid on disk no transaction is committed for it any more
\* (advance, run_to_terminal: what is left is report and checksums).
LedgerFrozen == [][state.invalid => ledger' = ledger]_vars

Promise == INSTANCE Lifecycle WITH
    done <- {s \in Stage : state.done[s] # "no"}, invalid <- state.invalid

\* The run implements Lifecycle: the stages complete in order, none twice, an
\* invalidation is final, and the run comes to its end if its process runs and
\* is resumed after it exits (run_to_terminal, next_stage, begin_stage).
ImplementsLifecycle == Promise!LifecycleSpec
=============================================================================
