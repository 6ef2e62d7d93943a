------------------------------ MODULE R1Proofs -------------------------------
(***************************************************************************)
(* What a benchmark run keeps, whatever fails, lags, is killed or resumed, *)
(* for every ledger, search ladder and bound: RunInv, its inductive        *)
(* invariant, and with it the run's properties and its refinement of       *)
(* Lifecycle.                                                              *)
(***************************************************************************)
EXTENDS R1Run, RunLemmas, FiniteSetTheorems, SequenceTheorems

WriterRecord == [rate : Nat, alive : BOOLEAN, session : {"none", "live", "lost"}]

EngineRecord == [snap : Nat, base : SUBSET Nat, from : Nat, applied : Nat, lost : SUBSET Nat,
                 up : BOOLEAN, linked : BOOLEAN]

StateRecord == [plan : {"absent", "missing", "set"}, done : [Stage -> {"no", "valid", "invalid"}],
                invalid : BOOLEAN]

DiskRecord == [manifest : BOOLEAN, baseline : {"none", "files", "checksummed"},
               restored : SUBSET Engine, check : [Checks -> {"none", "pass", "fail"}],
               sums : BOOLEAN, result : {"none", "valid", "invalid"}]

Entry == [original : Nat, lsn : Nat]

Where == {"down", "created", "next", "stage", "failed", "ended"}

Steps == {"none", "body", "loaded", "copied", "prepare", "replay", "follow", "activate", "check",
          "checking", "window", "measuring", "record", "breaking", "outcome"}

ProcRecord == [at : Where, stage : Stage \union {"none"}, step : Steps, todo : Seq(Engine),
               replayed : Seq(Entry), rates : Seq(Nat), ok : BOOLEAN, agree : BOOLEAN,
               reached : Nat]

CpRecord == [at : {"idle", "pause", "snapshot", "lsn", "resume", "raise", "compare", "done"},
             engines : Seq(Engine), todo : Seq(Engine), rate : Nat, lsn : Nat,
             captured : SUBSET Nat, passed : BOOLEAN, err : BOOLEAN]

WinAt == {"idle", "rate", "gates", "query", "proof", "persist", "stop", "done"}

\* Of a window only these two steer the rest of the run.
WinTyped(w) == {"at", "rate"} \subseteq DOMAIN w /\ w.at \in WinAt /\ w.rate \in Nat

FsRecord == [at : {"idle", "steady", "measure", "break", "mend", "aim", "await", "validate",
                   "stop", "done"},
             k : 1 .. 5, todo : Seq(Engine), aim : Nat, through : Nat, err : BOOLEAN]

\* The records, and the sequences whose head a step takes.
WorldTypes ==
    /\ mode \in {"Correctness", "Isolated"}
    /\ wal \in [Source -> Seq(BOOLEAN)]
    /\ engine \in [Engine -> EngineRecord]
    /\ ledger \in Seq(Nat)
    /\ writer \in WriterRecord
    /\ active \in Engine \union {None}

RunTypes ==
    /\ state \in StateRecord
    /\ disk \in DiskRecord
    /\ proc \in ProcRecord
    /\ maps \in [Engine -> Seq(Entry)]

CallTypes ==
    /\ cp \in CpRecord
    /\ WinTyped(win)
    /\ fs \in FsRecord
    /\ fs.at \in {"aim", "await", "validate"} /\ Kind = "writer" => fs.todo # <<>>

\* A stage under way is the next one; what is done was done in order, and
\* validly as long as the run is valid.
StageInv ==
    /\ proc.at = "stage" => proc.stage = NextStage /\ proc.stage # "none"
    /\ ~state.invalid => \A s \in Stage : state.done[s] # "invalid"
    /\ \A i \in 1 .. 12, j \in 1 .. 12 :
         j < i /\ state.done[Ordered[i]] # "no" => state.done[Ordered[j]] # "no"

\* Each step belongs to its stages and its mode.
StepInv ==
    /\ proc.at # "stage" <=> proc.step = "none"
    /\ proc.at = "stage" => proc.rates # <<>>
    /\ proc.step = "loaded" => proc.stage = "Seed"
    /\ proc.step \in {"copied", "prepare", "replay"} => proc.stage = "BaselineSnapshot"
    /\ proc.step = "follow" => proc.stage = "Bootstrap"
    /\ proc.step \in {"check", "checking", "record"} => proc.stage \in Checks
    /\ proc.step \in {"window", "measuring"} => proc.stage \in Timed
    /\ proc.step = "activate" => proc.stage \in Checks \union Timed
    /\ proc.step = "breaking" => proc.stage = "FailureSequence"
    /\ proc.step \in {"prepare", "replay", "activate", "check", "window"} => mode = "Isolated"
    /\ proc.step \in {"follow", "breaking"} => mode = "Correctness"

Turns == {"body", "activate", "check", "checking", "window", "measuring"}

\* In an isolated run the engines take turns; in a correctness run none is
\* active.
TurnInv ==
    /\ mode = "Correctness" => active = None
    /\ mode = "Isolated" /\ proc.step \in Turns \ {"body"} => active # None
    /\ mode = "Isolated" /\ proc.stage \in Checks \union Timed /\ proc.step \in Turns =>
         proc.todo # <<>>

\* At most one call is under way, and only while its caller waits for it, or has
\* just failed.
CallInv ==
    /\ cp.at # "idle" => \/ proc.at = "failed" \/ proc.step = "checking"
                         \/ (proc.step = "breaking" /\ fs.at = "validate")
    /\ win.at # "idle" => proc.at = "failed" \/ proc.step = "measuring"
    /\ fs.at # "idle" => proc.at = "failed" \/ proc.step = "breaking"

\* The writer has a rate only inside a window or the failure sequence, and
\* never while a checkpoint captures the source.
Writing ==
    \/ (proc.step = "measuring" /\ win.at \notin {"idle", "rate", "done"})
    \/ (proc.step = "breaking" /\ fs.at \notin {"idle", "done"})

WriterInv ==
    /\ writer.alive => writer.rate # 0
    /\ writer.rate # 0 => Writing /\ cp.at \notin {"snapshot", "lsn", "resume"}
    /\ proc.step = "checking" => cp.rate = 0

Published(source) == {p \in DOMAIN wal[source] : wal[source][p]}

\* The capture is what the source holds, at an LSN that covers it: until the
\* writer is resumed, and in a checkpoint stage to the end.
Captured == cp.captured = Published(Here) /\ \A p \in cp.captured : p <= cp.lsn

Matched(e) == engine[e].snap # 0 /\ cp.lsn <= engine[e].applied /\ Shown(e, cp.lsn) = cp.captured

CaptureInv ==
    /\ cp.at = "lsn" => cp.captured = Published(Here)
    /\ cp.at = "resume" /\ ~cp.err => Captured
    /\ proc.step = "checking" /\ cp.at \in {"raise", "compare", "done"} /\ ~cp.err => Captured
    /\ proc.step = "checking" /\ cp.at \in {"compare", "done"} /\ ~cp.err /\ cp.passed =>
         \A e \in Range(cp.engines) \ Range(cp.todo) : Matched(e)
    /\ cp.at = "done" /\ ~cp.err => cp.todo = <<>>
    /\ proc.step = "checking" /\ mode = "Correctness" /\ cp.at # "idle" => cp.engines = Both

\* What the j-th failure broke is whole again.
IsMended(j) ==
    CASE j = 1 -> engine[Graydb].up
      [] j = 2 -> engine[Clickhouse].up
      [] j = 3 -> engine[Graydb].linked
      [] OTHER -> engine[Clickhouse].linked

Past(j) == j < fs.k \/ (j = fs.k /\ fs.at \in {"aim", "await", "validate"})

AllMended == \A e \in Engine : engine[e].up /\ engine[e].linked

Unbroken ==
    \/ mode = "Isolated"
    \/ Doing("FailureSequence", "outcome")
    \/ state.done["FailureSequence"] = "valid"

\* A sequence that goes on has mended what it has passed; a sequence that is
\* over has passed everything; and after it nothing breaks an engine again.
MendInv ==
    /\ fs.at \notin {"idle", "stop", "done"} => ~fs.err
    /\ fs.at \in {"stop", "done"} /\ ~fs.err => fs.k = 5
    /\ fs.at # "idle" /\ ~fs.err => \A j \in 1 .. 4 : Past(j) => IsMended(j)
    /\ Unbroken => AllMended

\* The seed is the first commit of the shared source, the only one until the
\* engines are loaded; so it is what a correctness run's engines start from.
SeedInv ==
    /\ disk.manifest \/ proc.step = "loaded" => 1 \in Published("shared")
    /\ Doing("Seed", "outcome") \/ state.done["Seed"] # "no" => disk.manifest
    /\ mode = "Correctness" =>
         /\ state.done["Bootstrap"] = "no" => Published("shared") \subseteq {1}
         /\ \A e \in Engine : engine[e].snap # 0 =>
              /\ state.done["Seed"] # "no"
              /\ engine[e].base = {1} /\ 1 \notin engine[e].lost
              /\ 1 <= engine[e].applied /\ engine[e].snap <= Len(wal["shared"])
              /\ engine[e].lost \subseteq Published("shared")

\* e has every commit of the shared source, and has passed over none.
HoldsAll(e) ==
    /\ engine[e].snap # 0 /\ engine[e].lost = {}
    /\ \A p \in Published("shared") :
         p <= engine[e].applied /\ (p \in engine[e].base \/ engine[e].from < p)

FinalPassed ==
    \/ proc.stage = "FinalCheckpoint" /\ proc.step = "record" /\ proc.agree
    \/ Doing("FinalCheckpoint", "outcome")
    \/ state.done["FinalCheckpoint"] = "valid"

\* What the run's records say holds.
RecordInv ==
    /\ \A s \in Checks : Doing(s, "outcome") \/ state.done[s] = "valid" => disk.check[s] = "pass"
    /\ disk.result = "valid" => \A s \in BeforeReport : state.done[s] = "valid"
    /\ mode = "Correctness" /\ FinalPassed => \A e \in Engine : HoldsAll(e)

\* entries stand for the first transactions of the ledger, in a source of this
\* WAL.
CommitsOf(log, lsn) == {p \in DOMAIN log : p <= lsn /\ log[p]}

AllOf(log) == {p \in DOMAIN log : log[p]}

StandsFor(log, transactions, entries) ==
    \A i \in DOMAIN entries :
       /\ i \in DOMAIN transactions /\ entries[i].original = transactions[i]
       /\ entries[i].lsn <= Len(log)
       /\ Cardinality(CommitsOf(log, entries[i].lsn)) = i + 1

Fresh(e) == e \in disk.restored /\ wal[e] = <<TRUE>> /\ maps[e] = <<>>

Whole(e) == StandsFor(wal[e], ledger, maps[e]) /\ Len(maps[e]) = Len(ledger)

UnderReplay(e) ==
    /\ e \in disk.restored
    /\ StandsFor(wal[e], ledger, proc.replayed)
    /\ Cardinality(AllOf(wal[e])) = Len(proc.replayed) + 1
    /\ Len(proc.replayed) <= Len(ledger)
    /\ Len(maps[e]) <= Len(proc.replayed)
    /\ \A i \in DOMAIN maps[e] : maps[e][i] = proc.replayed[i]
    /\ maps[e] # <<>> => Len(proc.replayed) = Len(ledger)

\* An isolated run's sources are restored once, replayed one after the other,
\* and hold the ledger's transactions from then on.
Replays ==
    \A e \in Engine : IF e \notin Range(proc.todo) THEN Whole(e)
                      ELSE IF e = Head(proc.todo) THEN UnderReplay(e) ELSE Fresh(e)

Agreed ==
    /\ maps[Graydb] # <<>> /\ Len(maps[Graydb]) = Len(maps[Clickhouse])
    /\ \A e \in Engine : StandsFor(wal[e], ledger, maps[e])

MapInv ==
    /\ \A e \in Engine : e \notin disk.restored => maps[e] = <<>>
    /\ active # None => state.done["BaselineSnapshot"] # "no"
    /\ proc.step # "replay" \/ proc.todo = <<>> => proc.replayed = <<>>
    /\ mode = "Isolated" /\ proc.stage = "BaselineSnapshot" /\ proc.step \in {"body", "copied"} =>
         proc.todo = Both
    /\ proc.step \in {"prepare", "replay"} => proc.todo \in {Both, <<Clickhouse>>, <<>>}
    /\ proc.step = "prepare" => \A e \in Engine : e \notin Range(proc.todo) => Fresh(e)
    /\ proc.step = "replay" => Replays
    /\ mode = "Isolated" /\ Doing("BaselineSnapshot", "outcome") =>
         \A e \in Engine : Whole(e)
    /\ mode = "Isolated" /\ (Doing("BaselineSnapshot", "outcome") \/ state.done["BaselineSnapshot"] = "valid") =>
         Agreed

\* Outside a stage the process is in none.
PlaceInv == proc.at # "stage" => proc.stage = "none"

RunInv ==
    /\ WorldTypes /\ RunTypes /\ CallTypes
    /\ StageInv /\ StepInv /\ PlaceInv /\ TurnInv /\ CallInv /\ WriterInv
    /\ CaptureInv /\ MendInv /\ SeedInv /\ RecordInv /\ MapInv

-----------------------------------------------------------------------------
(***************************************************************************)
(* The order of the stages.                                                *)
(***************************************************************************)
LEMMA Engines ==
    /\ Graydb \in Engine /\ Clickhouse \in Engine /\ Graydb # Clickhouse
    /\ Both \in Seq(Engine) /\ Both # <<>> /\ Len(Both) = 2
    /\ Both[1] = Graydb /\ Both[2] = Clickhouse
    /\ Engine \subseteq Source /\ "shared" \in Source /\ "shared" \notin Engine
    /\ None \notin Engine
BY WorldAssumption DEF Engine, Source, Both

LEMMA OrderedIs ==
    /\ DOMAIN Ordered = 1 .. 15 /\ DOMAIN Archival = 1 .. 2
    /\ Ordered[1] = "Preflight" /\ Ordered[2] = "Seed" /\ Ordered[3] = "BaselineSnapshot"
    /\ Ordered[4] = "Bootstrap" /\ Ordered[5] = "InitialCheckpoint" /\ Ordered[6] = "Warmup"
    /\ Ordered[7] = "Quiet" /\ Ordered[8] = "Cdc300" /\ Ordered[9] = "Cdc1000"
    /\ Ordered[10] = "RateSearch" /\ Ordered[11] = "FailureSequence"
    /\ Ordered[12] = "FinalCheckpoint" /\ Ordered[13] = "Report" /\ Ordered[14] = "Checksums"
    /\ Ordered[15] = "Complete"
    /\ Archival[1] = "Report" /\ Archival[2] = "Checksums"
BY DEF Ordered, Archival

LEMMA StageIs ==
    /\ Stage = {"Preflight", "Seed", "BaselineSnapshot", "Bootstrap", "InitialCheckpoint",
                "Warmup", "Quiet", "Cdc300", "Cdc1000", "RateSearch", "FailureSequence",
                "FinalCheckpoint", "Report", "Checksums", "Complete"}
    /\ \A i \in 1 .. 15 : Ordered[i] \in Stage
<1>1. Stage = {Ordered[i] : i \in 1 .. 15}
  BY OrderedIs DEF Stage, Range
<1>2. 1 .. 15 = {1, 2, 3, 4, 5, 6, 7, 8, 9, 10, 11, 12, 13, 14, 15}
  OBVIOUS
<1> QED
  BY <1>1, <1>2, OrderedIs

\* A set of numbers has a least one (Min of FiniteSetsExt).
LEMMA LeastPlace ==
    ASSUME NEW S \in SUBSET Nat, S # {}
    PROVE  Min(S) \in S /\ \A y \in S : Min(S) <= y
<1>1. \E least \in S : \A y \in S : least <= y
  BY SmallestExists
<1> QED
  BY <1>1 DEF Min

LEMMA FirstOpenIs ==
    ASSUME NEW n \in Nat, NEW stages, DOMAIN stages = 1 .. n, FirstOpen(stages) # "none"
    PROVE  \E i \in 1 .. n : /\ FirstOpen(stages) = stages[i] /\ state.done[stages[i]] = "no"
                             /\ \A j \in 1 .. n : j < i => state.done[stages[j]] # "no"
<1> DEFINE open == {i \in DOMAIN stages : state.done[stages[i]] = "no"}
<1>1. open # {} /\ FirstOpen(stages) = stages[Min(open)]
  BY DEF FirstOpen
<1>2. open \subseteq Nat
  OBVIOUS
<1>3. Min(open) \in open /\ \A y \in open : Min(open) <= y
  <2> HIDE DEF open
  <2> QED
    BY <1>1, <1>2, LeastPlace
<1> DEFINE least == Min(open)
<1>4. least \in 1 .. n /\ state.done[stages[least]] = "no"
  BY <1>3
<1>5. \A j \in 1 .. n : j < least => state.done[stages[j]] # "no"
  <2> SUFFICES ASSUME NEW j \in 1 .. n, j < least, state.done[stages[j]] = "no" PROVE FALSE
    OBVIOUS
  <2>1. j \in open
    OBVIOUS
  <2>2. least <= j
    BY <1>3, <2>1
  <2> QED
    BY <1>4, <2>2
<1> HIDE DEF least, open
<1> QED
  BY <1>1, <1>4, <1>5 DEF least

\* The next stage has not been done; unless it is archival the run is valid so
\* far and everything before it has been done.
LEMMA NextStageIs ==
    ASSUME NextStage # "none"
    PROVE  /\ NextStage \in Stage /\ state.done[NextStage] = "no"
           /\ NextStage \notin {"Report", "Checksums"} =>
                /\ ~state.invalid
                /\ \E i \in 1 .. 15 : /\ NextStage = Ordered[i]
                                      /\ \A j \in 1 .. 15 : j < i => state.done[Ordered[j]] # "no"
<1>1. CASE state.invalid
  <2>1. PICK i \in 1 .. 2 : NextStage = Archival[i] /\ state.done[Archival[i]] = "no"
    <3>1. NextStage = FirstOpen(Archival)
      BY <1>1 DEF NextStage
    <3>2. DOMAIN Archival = 1 .. 2 /\ 2 \in Nat
      BY OrderedIs
    <3> QED
      BY <3>1, <3>2, FirstOpenIs
  <2>2. i = 1 \/ i = 2
    OBVIOUS
  <2> QED
    BY <2>1, <2>2, OrderedIs, StageIs
<1>2. CASE ~state.invalid
  <2>1. PICK i \in 1 .. 15 : /\ NextStage = Ordered[i] /\ state.done[Ordered[i]] = "no"
                             /\ \A j \in 1 .. 15 : j < i => state.done[Ordered[j]] # "no"
    <3>1. NextStage = FirstOpen(Ordered)
      BY <1>2 DEF NextStage
    <3>2. DOMAIN Ordered = 1 .. 15 /\ 15 \in Nat
      BY OrderedIs
    <3> QED
      BY <3>1, <3>2, FirstOpenIs
  <2> QED
    BY <1>2, <2>1, StageIs
<1> QED
  BY <1>1, <1>2

Writes == Timed \union {"FailureSequence"}

\* What has been done when a stage is under way, and what has not.
LEMMA UnderWay ==
    ASSUME StageInv, proc.at = "stage"
    PROVE  /\ proc.stage \in Stage /\ state.done[proc.stage] = "no"
           /\ proc.stage \notin {"Report", "Checksums"} =>
                /\ ~state.invalid
                /\ \E i \in 1 .. 15 :
                     /\ proc.stage = Ordered[i]
                     /\ \A j \in 1 .. 15 : j < i => state.done[Ordered[j]] # "no"
                     /\ \A j \in 1 .. 12 : i <= j => state.done[Ordered[j]] = "no"
<1>1. proc.stage = NextStage /\ NextStage # "none"
  BY DEF StageInv
<1>2. ASSUME NEW i \in 1 .. 15, state.done[Ordered[i]] = "no", NEW j \in 1 .. 12, i <= j
      PROVE  state.done[Ordered[j]] = "no"
  BY <1>2 DEF StageInv
<1> QED
  BY <1>1, <1>2, NextStageIs

LEMMA BeforeAndAfter ==
    ASSUME StageInv, proc.at = "stage"
    PROVE  /\ proc.stage \in {"Seed", "BaselineSnapshot", "Bootstrap"} =>
                state.done["Bootstrap"] = "no"
           /\ proc.stage = "Seed" => state.done["BaselineSnapshot"] = "no"
           /\ proc.stage \in {"Bootstrap"} \union Checks \union Writes =>
                state.done["Seed"] # "no" /\ state.done["BaselineSnapshot"] # "no"
           /\ proc.stage \in Checks \union Writes => state.done["Bootstrap"] # "no"
           /\ proc.stage \in {"Seed", "BaselineSnapshot", "Bootstrap"} \union Checks \union Writes =>
                ~state.invalid /\ state.done["FinalCheckpoint"] = "no"
<1>1. CASE proc.stage \in {"Report", "Checksums"}
  BY <1>1 DEF Checks, Writes, Timed
<1>2. CASE proc.stage \notin {"Report", "Checksums"}
  <2>1. PICK i \in 1 .. 15 :
              /\ proc.stage = Ordered[i]
              /\ \A j \in 1 .. 15 : j < i => state.done[Ordered[j]] # "no"
              /\ \A j \in 1 .. 12 : i <= j => state.done[Ordered[j]] = "no"
    BY <1>2, UnderWay
  <2>2. ~state.invalid
    BY <1>2, UnderWay
  <2>3. CASE i <= 3
    <3>1. i \in {1, 2, 3}
      BY <2>3
    <3> QED
      BY <2>1, <2>2, <3>1, OrderedIs DEF Checks, Writes, Timed
  <2>4. CASE i = 4
    BY <2>1, <2>2, <2>4, OrderedIs DEF Checks, Writes, Timed
  <2>5. CASE 4 < i /\ i <= 12
    BY <2>1, <2>2, <2>5, OrderedIs DEF Checks, Writes, Timed
  <2>6. CASE 12 < i
    <3>1. i \in {13, 14, 15}
      BY <2>6
    <3> QED
      BY <2>1, <3>1, OrderedIs DEF Checks, Writes, Timed
  <2> QED
    BY <2>3, <2>4, <2>5, <2>6
<1> QED
  BY <1>1, <1>2

-----------------------------------------------------------------------------
(***************************************************************************)
(* What the parts of a step leave alone.                                   *)
(***************************************************************************)
LEMMA CheckpointFrame ==
    ASSUME CheckpointStep
    PROVE  UNCHANGED <<mode, wal, engine, ledger, active>>

<1>1. CASE Pause
  BY <1>1 DEF Pause, worldVars, sourceVars, heldVars
<1>2. CASE Snapshot
  BY <1>2 DEF Snapshot, worldVars, sourceVars, heldVars
<1>3. CASE ReadLsn
  BY <1>3 DEF ReadLsn, worldVars, sourceVars, heldVars
<1>4. CASE Resume
  BY <1>4 DEF Resume, worldVars, sourceVars, heldVars
<1>5. CASE Raise
  BY <1>5 DEF Raise, worldVars, sourceVars, heldVars
<1>6. CASE Raised
  BY <1>6 DEF Raised, worldVars, sourceVars, heldVars
<1>7. CASE Compare
  BY <1>7 DEF Compare, worldVars, sourceVars, heldVars
<1>8. CASE WaitTimesOut
  BY <1>8 DEF WaitTimesOut, worldVars, sourceVars, heldVars
<1>9. CASE Compared
  BY <1>9 DEF Compared, worldVars, sourceVars, heldVars
<1>10. CASE CheckpointCallFails
  BY <1>10 DEF CheckpointCallFails, worldVars, sourceVars, heldVars
<1> QED
  BY <1>1, <1>2, <1>3, <1>4, <1>5, <1>6, <1>7, <1>8, <1>9, <1>10 DEF CheckpointStep

LEMMA WindowFrame ==
    ASSUME WindowStep
    PROVE  UNCHANGED <<mode, wal, engine, ledger, active, maps>>
<1>1. CASE SetRate
  BY <1>1 DEF SetRate, worldVars, sourceVars, heldVars
<1>2. CASE FreeSpaceTrips
  BY <1>2 DEF FreeSpaceTrips, worldVars, sourceVars, heldVars
<1>3. CASE ObserveRate
  BY <1>3 DEF ObserveRate, worldVars, sourceVars, heldVars
<1>4. CASE ObservationFails
  BY <1>4 DEF ObservationFails, worldVars, sourceVars, heldVars
<1>5. CASE RateStops
  BY <1>5 DEF RateStops, worldVars, sourceVars, heldVars
<1>6. CASE ChooseTarget
  BY <1>6 DEF ChooseTarget, worldVars, sourceVars, heldVars
<1>7. CASE ScanGraydb
  BY <1>7 DEF ScanGraydb, worldVars, sourceVars, heldVars
<1>8. CASE ProveGraydb
  BY <1>8 DEF ProveGraydb, worldVars, sourceVars, heldVars
<1>9. CASE QueryClickhouse
  BY <1>9 DEF QueryClickhouse, worldVars, sourceVars, heldVars
<1>10. CASE QueryFails
  BY <1>10 DEF QueryFails, worldVars, sourceVars, heldVars
<1>11. CASE EndRound
  BY <1>11 DEF EndRound, worldVars, sourceVars, heldVars
<1>12. CASE OutOfTime
  BY <1>12 DEF OutOfTime, worldVars, sourceVars, heldVars
<1>13. CASE Persist
  BY <1>13 DEF Persist, worldVars, sourceVars, heldVars
<1>14. CASE WindowCallFails
  BY <1>14 DEF WindowCallFails, worldVars, sourceVars, heldVars
<1>15. CASE StopRate
  BY <1>15 DEF StopRate, worldVars, sourceVars, heldVars
<1> QED
  BY <1>1, <1>2, <1>3, <1>4, <1>5, <1>6, <1>7, <1>8, <1>9, <1>10, <1>11, <1>12, <1>13, <1>14, <1>15 DEF WindowStep

\* Of an engine the failure sequence changes whether it runs and is linked.
SameData(e) ==
    /\ engine'[e].snap = engine[e].snap /\ engine'[e].base = engine[e].base
    /\ engine'[e].from = engine[e].from /\ engine'[e].applied = engine[e].applied
    /\ engine'[e].lost = engine[e].lost

LEMMA FailureFrame ==
    ASSUME FailureStep, WorldTypes
    PROVE  /\ UNCHANGED <<mode, wal, ledger, active>>
           /\ \A e \in Engine : SameData(e)
<1>1. CASE Steady
  BY <1>1 DEF Steady, SameData, worldVars, sourceVars, heldVars
<1>2. CASE RateHeld
  BY <1>2 DEF RateHeld, SameData, worldVars, sourceVars, heldVars
<1>3. CASE RateMissed
  BY <1>3 DEF RateMissed, SameData, worldVars, sourceVars, heldVars
<1>4. CASE StopEngine
  <2>1. UNCHANGED <<mode, wal, ledger, active>>
    BY <1>4 DEF StopEngine, worldVars, sourceVars, heldVars
  <2>2. \A e \in Engine : SameData(e)
    BY <1>4 DEF StopEngine, WorldTypes, EngineRecord, SameData
  <2> QED
    BY <2>1, <2>2
<1>5. CASE StartEngine
  <2>1. UNCHANGED <<mode, wal, ledger, active>>
    BY <1>5 DEF StartEngine, worldVars, sourceVars, heldVars
  <2>2. \A e \in Engine : SameData(e)
    BY <1>5 DEF StartEngine, WorldTypes, EngineRecord, SameData
  <2> QED
    BY <2>1, <2>2
<1>6. CASE Disconnect
  <2>1. UNCHANGED <<mode, wal, ledger, active>>
    BY <1>6 DEF Disconnect, worldVars, sourceVars, heldVars
  <2>2. \A e \in Engine : SameData(e)
    BY <1>6 DEF Disconnect, WorldTypes, EngineRecord, SameData
  <2> QED
    BY <2>1, <2>2
<1>7. CASE Reconnect
  <2>1. UNCHANGED <<mode, wal, ledger, active>>
    BY <1>7 DEF Reconnect, worldVars, sourceVars, heldVars
  <2>2. \A e \in Engine : SameData(e)
    BY <1>7 DEF Reconnect, WorldTypes, EngineRecord, SameData
  <2> QED
    BY <2>1, <2>2
<1>8. CASE HaltWriter
  BY <1>8 DEF HaltWriter, SameData, worldVars, sourceVars, heldVars
<1>9. CASE ResumeWriter
  BY <1>9 DEF ResumeWriter, SameData, worldVars, sourceVars, heldVars
<1>10. CASE Aim
  BY <1>10 DEF Aim, SameData, worldVars, sourceVars, heldVars
<1>11. CASE CaughtUp
  BY <1>11 DEF CaughtUp, SameData, worldVars, sourceVars, heldVars
<1>12. CASE NotCaughtUp
  BY <1>12 DEF NotCaughtUp, SameData, worldVars, sourceVars, heldVars
<1>13. CASE Validated
  BY <1>13 DEF Validated, SameData, worldVars, sourceVars, heldVars
<1>14. CASE FailureCallFails
  BY <1>14 DEF FailureCallFails, SameData, worldVars, sourceVars, heldVars
<1>15. CASE StopSequence
  BY <1>15 DEF StopSequence, SameData, worldVars, sourceVars, heldVars
<1> QED
  BY <1>1, <1>2, <1>3, <1>4, <1>5, <1>6, <1>7, <1>8, <1>9, <1>10, <1>11, <1>12, <1>13, <1>14, <1>15 DEF FailureStep

\* A stage's body leaves the record of the stages alone, or the stage fails.
LEMMA StagesFrame ==
    ASSUME Stages, RunTypes
    PROVE  /\ proc.at = "stage" /\ UNCHANGED <<mode, ledger>>
           /\ \/ UNCHANGED state /\ proc'.at = "stage" /\ proc'.stage = proc.stage
              \/ Fail
<1>1. CASE Preflight
  BY <1>1 DEF Preflight, Doing, Replaying, Step, Finish, Activate, ActivationWaits, RunTypes, ProcRecord, worldVars, sourceVars, heldVars
<1>2. CASE Seeded
  BY <1>2 DEF Seeded, Doing, Replaying, Step, Finish, Activate, ActivationWaits, RunTypes, ProcRecord, worldVars, sourceVars, heldVars
<1>3. CASE LoadSeed
  BY <1>3 DEF LoadSeed, Doing, Replaying, Step, Finish, Activate, ActivationWaits, RunTypes, ProcRecord, worldVars, sourceVars, heldVars
<1>4. CASE WriteManifest
  BY <1>4 DEF WriteManifest, Doing, Replaying, Step, Finish, Activate, ActivationWaits, RunTypes, ProcRecord, worldVars, sourceVars, heldVars
<1>5. CASE BackUp
  BY <1>5 DEF BackUp, Doing, Replaying, Step, Finish, Activate, ActivationWaits, RunTypes, ProcRecord, worldVars, sourceVars, heldVars
<1>6. CASE ChecksumBaseline
  BY <1>6 DEF ChecksumBaseline, Doing, Replaying, Step, Finish, Activate, ActivationWaits, RunTypes, ProcRecord, worldVars, sourceVars, heldVars
<1>7. CASE VerifyBaseline
  BY <1>7 DEF VerifyBaseline, Doing, Replaying, Step, Finish, Activate, ActivationWaits, RunTypes, ProcRecord, worldVars, sourceVars, heldVars
<1>8. CASE BaselineRefused
  BY <1>8 DEF BaselineRefused, Doing, Replaying, Step, Finish, Activate, ActivationWaits, RunTypes, ProcRecord, worldVars, sourceVars, heldVars
<1>9. CASE RestoreRefused
  BY <1>9 DEF RestoreRefused, Doing, Replaying, Step, Finish, Activate, ActivationWaits, RunTypes, ProcRecord, worldVars, sourceVars, heldVars
<1>10. CASE Restore
  BY <1>10 DEF Restore, Doing, Replaying, Step, Finish, Activate, ActivationWaits, RunTypes, ProcRecord, worldVars, sourceVars, heldVars
<1>11. CASE StartReplays
  BY <1>11 DEF StartReplays, Doing, Replaying, Step, Finish, Activate, ActivationWaits, RunTypes, ProcRecord, worldVars, sourceVars, heldVars
<1>12. ASSUME NEW e \in Engine, ReplayTransaction(e)
      PROVE  /\ proc.at = "stage" /\ UNCHANGED <<mode, ledger, state>>
             /\ proc'.at = "stage" /\ proc'.stage = proc.stage
  BY <1>12 DEF ReplayTransaction, Doing, Replaying, Step, Finish, Activate, ActivationWaits, RunTypes, ProcRecord, worldVars, sourceVars, heldVars
<1>13. ASSUME NEW e \in Engine, PushReplayed(e)
      PROVE  /\ proc.at = "stage" /\ UNCHANGED <<mode, ledger, state>>
             /\ proc'.at = "stage" /\ proc'.stage = proc.stage
  BY <1>13 DEF PushReplayed, Doing, Replaying, Step, Finish, Activate, ActivationWaits, RunTypes, ProcRecord, worldVars, sourceVars, heldVars
<1>14. ASSUME NEW e \in Engine, Replayed(e)
      PROVE  /\ proc.at = "stage" /\ UNCHANGED <<mode, ledger, state>>
             /\ proc'.at = "stage" /\ proc'.stage = proc.stage
  BY <1>14 DEF Replayed, Doing, Replaying, Step, Finish, Activate, ActivationWaits, RunTypes, ProcRecord, worldVars, sourceVars, heldVars
<1>15. CASE ValidateReplays
  BY <1>15 DEF ValidateReplays, Doing, Replaying, Step, Finish, Activate, ActivationWaits, RunTypes, ProcRecord, worldVars, sourceVars, heldVars
<1>16. CASE Bootstrap
  BY <1>16 DEF Bootstrap, Doing, Replaying, Step, Finish, Activate, ActivationWaits, RunTypes, ProcRecord, worldVars, sourceVars, heldVars
<1>17. CASE StartCdc
  BY <1>17 DEF StartCdc, Doing, Replaying, Step, Finish, Activate, ActivationWaits, RunTypes, ProcRecord, worldVars, sourceVars, heldVars
<1>18. CASE NextCheck
  BY <1>18 DEF NextCheck, Doing, Replaying, Step, Finish, Activate, ActivationWaits, RunTypes, ProcRecord, worldVars, sourceVars, heldVars
<1>19. CASE Checked
  BY <1>19 DEF Checked, Doing, Replaying, Step, Finish, Activate, ActivationWaits, RunTypes, ProcRecord, worldVars, sourceVars, heldVars
<1>20. CASE RecordCheck
  BY <1>20 DEF RecordCheck, Doing, Replaying, Step, Finish, Activate, ActivationWaits, RunTypes, ProcRecord, worldVars, sourceVars, heldVars
<1>21. CASE NextWindow
  BY <1>21 DEF NextWindow, Doing, Replaying, Step, Finish, Activate, ActivationWaits, RunTypes, ProcRecord, worldVars, sourceVars, heldVars
<1>22. CASE Measured
  BY <1>22 DEF Measured, Doing, Replaying, Step, Finish, Activate, ActivationWaits, RunTypes, ProcRecord, worldVars, sourceVars, heldVars
<1>23. CASE BreakThings
  BY <1>23 DEF BreakThings, Doing, Replaying, Step, Finish, Activate, ActivationWaits, RunTypes, ProcRecord, worldVars, sourceVars, heldVars
<1>24. CASE Broken
  BY <1>24 DEF Broken, Doing, Replaying, Step, Finish, Activate, ActivationWaits, RunTypes, ProcRecord, worldVars, sourceVars, heldVars
<1>25. CASE Report
  BY <1>25 DEF Report, Doing, Replaying, Step, Finish, Activate, ActivationWaits, RunTypes, ProcRecord, worldVars, sourceVars, heldVars
<1>26. CASE Checksums
  BY <1>26 DEF Checksums, Doing, Replaying, Step, Finish, Activate, ActivationWaits, RunTypes, ProcRecord, worldVars, sourceVars, heldVars
<1>27. CASE CompleteRun
  BY <1>27 DEF CompleteRun, Doing, Replaying, Step, Finish, Activate, ActivationWaits, RunTypes, ProcRecord, worldVars, sourceVars, heldVars
<1>28. CASE StageFails
  BY <1>28 DEF StageFails, Doing, Replaying, Step, Finish, Activate, ActivationWaits, RunTypes, ProcRecord, worldVars, sourceVars, heldVars
<1> QED
  BY <1>1, <1>2, <1>3, <1>4, <1>5, <1>6, <1>7, <1>8, <1>9, <1>10, <1>11, <1>12, <1>13, <1>14, <1>15, <1>16, <1>17, <1>18, <1>19, <1>20, <1>21, <1>22, <1>23, <1>24, <1>25, <1>26, <1>27, <1>28 DEF Stages

-----------------------------------------------------------------------------
(***************************************************************************)
(* The types.                                                              *)
(***************************************************************************)
LEMMA HereIs ==
    ASSUME WorldTypes
    PROVE  /\ Here \in Source /\ wal[Here] \in Seq(BOOLEAN) /\ WalHead \in Nat
           /\ DOMAIN wal[Here] = 1 .. WalHead
           /\ \A source, lsn : Commits(source, lsn) \subseteq DOMAIN wal[source]
           /\ \A lsn : Commits(Here, lsn) \in SUBSET Nat
<1>1. Here \in Source
  BY Engines DEF Here, WorldTypes
<1>2. wal[Here] \in Seq(BOOLEAN)
  BY <1>1 DEF WorldTypes
<1>3. WalHead \in Nat /\ DOMAIN wal[Here] = 1 .. WalHead
  BY <1>2 DEF WalHead
<1>4. \A source, lsn : Commits(source, lsn) \subseteq DOMAIN wal[source]
  BY DEF Commits
<1>5. 1 .. WalHead \in SUBSET Nat
  BY <1>3
<1>6. \A lsn : Commits(Here, lsn) \in SUBSET Nat
  BY <1>3, <1>4, <1>5
<1> QED
  BY <1>1, <1>2, <1>3, <1>4, <1>6

LEMMA ShownIs ==
    ASSUME WorldTypes, NEW e \in Engine, NEW lsn
    PROVE  Shown(e, lsn) \in SUBSET Nat
<1>1. engine[e].base \in SUBSET Nat
  BY DEF WorldTypes, EngineRecord
<1>2. Streamed(e) \subseteq Commits(Here, engine[e].applied)
  BY DEF Streamed
<1> QED
  BY <1>1, <1>2, HereIs DEF Shown

LEMMA FailuresAre ==
    /\ DOMAIN Failures = 1 .. 5 /\ Len(Failures) = 5
    /\ Failures[1].kind = "kill" /\ Failures[2].kind = "kill"
    /\ Failures[3].kind = "cut" /\ Failures[4].kind = "cut" /\ Failures[5].kind = "writer"
    /\ Failures[1].engines[1] = Graydb /\ Failures[2].engines[1] = Clickhouse
    /\ Failures[3].engines[1] = Graydb /\ Failures[4].engines[1] = Clickhouse
    /\ Failures[5].engines = Both
BY DEF Failures, Both

LEMMA KindIs ==
    ASSUME fs \in FsRecord
    PROVE  /\ Kind = "kill" <=> fs.k \in {1, 2}
           /\ Kind = "cut" <=> fs.k \in {3, 4}
           /\ Kind = "writer" <=> fs.k = 5
           /\ fs.k \in {1, 3} => FsEngine = Graydb
           /\ fs.k \in {2, 4} => FsEngine = Clickhouse
           /\ fs.k = 5 => FsEngine = Head(fs.todo)
<1>1. fs.k \in {1, 2, 3, 4, 5}
  BY DEF FsRecord
<1> QED
  BY <1>1, FailuresAre DEF Kind, FsEngine

LEMMA Starts ==
    /\ NoWriter \in WriterRecord /\ Unloaded \in EngineRecord
    /\ NoCheckpoint \in CpRecord /\ WinTyped(NoWindow) /\ NoFailure \in FsRecord
    /\ Down \in ProcRecord /\ AtBoundary \in ProcRecord
<1>1. NoWriter \in WriterRecord
  BY DEF NoWriter, WriterRecord
<1>2. Unloaded \in EngineRecord
  BY DEF Unloaded, EngineRecord
<1>3. NoCheckpoint \in CpRecord
  BY DEF NoCheckpoint, CpRecord
<1>4. WinTyped(NoWindow)
  BY DEF NoWindow, WinTyped, WinAt
<1>5. NoFailure \in FsRecord
  BY DEF NoFailure, FsRecord
<1>6. Down \in ProcRecord
  BY DEF Down, ProcRecord, Steps, Where
<1>7. AtBoundary \in ProcRecord
  BY <1>6 DEF AtBoundary, ProcRecord, Where
<1> QED
  BY <1>1, <1>2, <1>3, <1>4, <1>5, <1>6, <1>7

LEMMA WriterTypes ==
    ASSUME writer \in WriterRecord
    PROVE  /\ Parked \in WriterRecord /\ Parked.rate = 0 /\ ~Parked.alive
           /\ StopWriter => writer' = Parked
           /\ \A r \in Nat : StartWriter(r) => writer' \in WriterRecord
<1>1. Parked \in WriterRecord /\ Parked.rate = 0 /\ ~Parked.alive
  BY DEF Parked, WriterRecord
<1>2. StopWriter => writer' = Parked
  BY DEF StopWriter
<1>3. ASSUME NEW r \in Nat, StartWriter(r) PROVE writer' \in WriterRecord
  <2>1. CASE writer.rate = r
    BY <1>3, <2>1 DEF StartWriter
  <2>2. CASE writer.rate # r /\ StartErr(r)
    BY <1>1, <1>3, <2>2 DEF StartWriter
  <2>3. CASE writer.rate # r /\ ~StartErr(r)
    <3> DEFINE session == IF writer.session = "none" THEN "live" ELSE writer.session
    <3>1. session \in {"none", "live", "lost"}
      BY DEF WriterRecord
    <3>2. writer' = [rate |-> r, alive |-> session = "live", session |-> session]
      BY <1>3, <2>3 DEF StartWriter
    <3> HIDE DEF session
    <3> QED
      BY <3>1, <3>2 DEF WriterRecord
  <2> QED
    BY <2>1, <2>2, <2>3
<1> QED
  BY <1>1, <1>2, <1>3

LEMMA CheckpointTypes ==
    ASSUME WorldTypes, CallTypes, CheckpointStep, UNCHANGED <<win, fs>>
    PROVE  WorldTypes' /\ CallTypes'
<1>1. writer' \in WriterRecord /\ cp' \in CpRecord
  <2> USE DEF WorldTypes, CallTypes
  <2>0. CpFails \in CpRecord /\ writer \in WriterRecord /\ writer.rate \in Nat /\ cp.rate \in Nat
        /\ cp.todo \in Seq(Engine) /\ cp.engines \in Seq(Engine)
    BY DEF CpFails, CpRecord, WriterRecord
  <2>1. CASE Pause
    <3>1. writer' \in WriterRecord
      BY <2>1, WriterTypes DEF Pause
    <3>2. [cp EXCEPT !.at = "snapshot", !.rate = writer.rate] \in CpRecord
      BY <2>0 DEF CpRecord
    <3> QED
      BY <2>0, <2>1, <3>1, <3>2 DEF Pause
  <2>2. CASE Snapshot
    BY <2>0, <2>2, HereIs DEF Snapshot, CpRecord, worldVars, heldVars
  <2>3. CASE ReadLsn
    BY <2>0, <2>3, HereIs DEF ReadLsn, CpRecord, worldVars, heldVars
  <2>4. CASE Resume
    <3>1. writer' \in WriterRecord
      BY <2>0, <2>4, WriterTypes DEF Resume
    <3>2. [cp EXCEPT !.at = "raise", !.todo = cp.engines] \in CpRecord
      BY <2>0 DEF CpRecord
    <3> QED
      BY <2>0, <2>4, <3>1, <3>2 DEF Resume
  <2>5. CASE Raise
    <3>1. Head(cp.todo) \in Engine /\ Tail(cp.todo) \in Seq(Engine)
      BY <2>0, <2>5 DEF Raise
    <3>2. engine[Head(cp.todo)].applied \in Nat
      BY <3>1 DEF EngineRecord
    <3> DEFINE raised == IF Reachable(Head(cp.todo)) /\ cp.lsn < engine[Head(cp.todo)].applied
                         THEN engine[Head(cp.todo)].applied ELSE cp.lsn
    <3>3. cp' = [cp EXCEPT !.todo = Tail(cp.todo), !.lsn = raised] /\ UNCHANGED writer
      BY <2>5 DEF Raise, CpRecord, worldVars, heldVars
    <3>4. raised \in Nat
      BY <3>2 DEF CpRecord
    <3> HIDE DEF raised
    <3> QED
      BY <2>0, <3>1, <3>3, <3>4 DEF CpRecord
  <2>6. CASE Raised
    BY <2>0, <2>6 DEF Raised, CpRecord, worldVars, heldVars
  <2>7. CASE Compare
    <3>1. Tail(cp.todo) \in Seq(Engine)
      BY <2>0, <2>7 DEF Compare
    <3> DEFINE passed == cp.passed /\ Shown(Head(cp.todo), cp.lsn) = cp.captured
    <3>2. passed \in BOOLEAN
      OBVIOUS
    <3>3. cp' = [cp EXCEPT !.todo = Tail(cp.todo), !.passed = passed] /\ UNCHANGED writer
      BY <2>7 DEF Compare, CpRecord, worldVars, heldVars
    <3> HIDE DEF passed
    <3> QED
      BY <2>0, <3>1, <3>2, <3>3 DEF CpRecord
  <2>8. CASE WaitTimesOut
    BY <2>0, <2>8 DEF WaitTimesOut, CpRecord, worldVars, heldVars
  <2>9. CASE Compared
    BY <2>0, <2>9 DEF Compared, CpRecord, worldVars, heldVars
  <2>10. CASE CheckpointCallFails
    BY <2>0, <2>10 DEF CheckpointCallFails, CpRecord, worldVars, heldVars
  <2> QED
    BY <2>1, <2>2, <2>3, <2>4, <2>5, <2>6, <2>7, <2>8, <2>9, <2>10 DEF CheckpointStep
<1>2. WorldTypes'
  BY <1>1, CheckpointFrame DEF WorldTypes
<1>3. CallTypes'
  BY <1>1 DEF CallTypes, Kind
<1> QED
  BY <1>2, <1>3

LEMMA WindowTypes ==
    ASSUME WorldTypes, CallTypes, WindowStep, UNCHANGED <<cp, fs>>
    PROVE  WorldTypes' /\ CallTypes'
<1>1. writer' \in WriterRecord
  BY WriterTypes DEF WorldTypes, CallTypes, WinTyped, WindowStep, SetRate, FreeSpaceTrips,
     ObserveRate, ObservationFails, RateStops, ChooseTarget, ScanGraydb, ProveGraydb,
     QueryClickhouse, QueryFails, EndRound, OutOfTime, Persist, WindowCallFails, StopRate,
     worldVars, heldVars
<1>2. WinTyped(win')
  <2> USE DEF CallTypes, WinTyped, WinAt
  <2>1. CASE SetRate
    BY <2>1 DEF SetRate
  <2>2. CASE FreeSpaceTrips
    BY <2>2 DEF FreeSpaceTrips
  <2>3. CASE ObserveRate
    BY <2>3 DEF ObserveRate
  <2>4. CASE ObservationFails
    BY <2>4 DEF ObservationFails
  <2>5. CASE RateStops
    BY <2>5 DEF RateStops
  <2>6. CASE ChooseTarget
    BY <2>6 DEF ChooseTarget
  <2>7. CASE ScanGraydb
    BY <2>7 DEF ScanGraydb
  <2>8. CASE ProveGraydb
    BY <2>8 DEF ProveGraydb, Answered, NoAnswer
  <2>9. CASE QueryClickhouse
    BY <2>9 DEF QueryClickhouse, Answered, NoAnswer
  <2>10. CASE QueryFails
    BY <2>10 DEF QueryFails, Answered, NoAnswer
  <2>11. CASE EndRound
    BY <2>11 DEF EndRound
  <2>12. CASE OutOfTime
    BY <2>12 DEF OutOfTime
  <2>13. CASE Persist
    BY <2>13 DEF Persist
  <2>14. CASE WindowCallFails
    BY <2>14 DEF WindowCallFails
  <2>15. CASE StopRate
    BY <2>15 DEF StopRate
  <2> QED
    BY <2>1, <2>2, <2>3, <2>4, <2>5, <2>6, <2>7, <2>8, <2>9, <2>10, <2>11, <2>12, <2>13, <2>14, <2>15 DEF WindowStep
<1>3. WorldTypes'
  BY <1>1, WindowFrame DEF WorldTypes
<1>4. CallTypes'
  BY <1>2 DEF CallTypes, WinTyped, Kind
<1> QED
  BY <1>3, <1>4

LEMMA TailStays ==
    ASSUME NEW S, NEW s \in Seq(S), Len(s) > 1
    PROVE  Tail(s) \in Seq(S) /\ Tail(s) # <<>>
<1> DEFINE t == Tail(s)
<1>1. t \in Seq(S) /\ Len(t) = Len(s) - 1
  OBVIOUS
<1>2. Len(s) \in Nat
  OBVIOUS
<1> HIDE DEF t
<1>3. t # <<>>
  BY <1>1, <1>2
<1> QED
  BY <1>1, <1>3 DEF t

LEMMA FailureTypes ==
    ASSUME WorldTypes, CallTypes, FailureStep, UNCHANGED win
    PROVE  WorldTypes' /\ CallTypes'
<1>a. /\ fs \in FsRecord /\ cp \in CpRecord /\ writer \in WriterRecord
      /\ engine \in [Engine -> EngineRecord]
      /\ fs.at \in {"aim", "await", "validate"} /\ Kind = "writer" => fs.todo # <<>>
  BY DEF WorldTypes, CallTypes
<1>0. /\ FsFails \in FsRecord /\ NoCheckpoint \in CpRecord /\ fs.k \in 1 .. 5
      /\ FailureRate \in Nat /\ FsFails.at = "stop"
  <2>1. FsFails \in FsRecord /\ FsFails.at = "stop"
    BY <1>a DEF FsFails, FsRecord
  <2>2. NoCheckpoint \in CpRecord
    BY Starts
  <2> QED
    BY <1>a, <2>1, <2>2 DEF FsRecord, FailureRate
<1> DEFINE Sound == fs'.at \in {"aim", "await", "validate"} /\ fs'.k = 5 => fs'.todo # <<>>
<1>1. writer' \in WriterRecord /\ engine' \in [Engine -> EngineRecord]
      /\ cp' \in CpRecord /\ fs' \in FsRecord /\ Sound
  <2>1. CASE Steady
    <3>1. writer' \in WriterRecord
      BY <1>a, <1>0, <2>1, WriterTypes DEF Steady
    <3> QED
      BY <1>a, <1>0, <2>1, <3>1 DEF Steady, FsRecord, sourceVars
  <2>2. CASE RateHeld
    BY <1>a, <1>0, KindIs, <2>2 DEF RateHeld, FsRecord, worldVars, sourceVars, heldVars
  <2>3. CASE RateMissed
    BY <1>a, <1>0, KindIs, <2>3 DEF RateMissed, FsRecord, worldVars, sourceVars, heldVars
  <2>4. CASE StopEngine
    <3>1. fs.k \in {1, 2} /\ FsEngine \in Engine
      BY <1>a, <2>4, KindIs, Engines DEF StopEngine
    <3>2. engine' \in [Engine -> EngineRecord]
      BY <1>a, <2>4, <3>1 DEF StopEngine, EngineRecord
    <3>3. fs' \in FsRecord /\ fs'.k # 5
      BY <1>a, <2>4, <3>1 DEF StopEngine, FsRecord
    <3> QED
      BY <1>a, <2>4, <3>2, <3>3 DEF StopEngine, heldVars
  <2>5. CASE StartEngine
    <3>1. fs.k \in {1, 2} /\ FsEngine \in Engine
      BY <1>a, <2>5, KindIs, Engines DEF StartEngine
    <3>2. engine' \in [Engine -> EngineRecord]
      BY <1>a, <2>5, <3>1 DEF StartEngine, EngineRecord
    <3>3. fs' \in FsRecord /\ fs'.k # 5
      BY <1>a, <2>5, <3>1 DEF StartEngine, FsRecord
    <3> QED
      BY <1>a, <2>5, <3>2, <3>3 DEF StartEngine, heldVars
  <2>6. CASE Disconnect
    <3>1. fs.k \in {3, 4} /\ FsEngine \in Engine
      BY <1>a, <2>6, KindIs, Engines DEF Disconnect
    <3>2. engine' \in [Engine -> EngineRecord]
      BY <1>a, <2>6, <3>1 DEF Disconnect, EngineRecord
    <3>3. fs' \in FsRecord /\ fs'.k # 5
      <4>1. FsFails.k = fs.k
        BY <1>a DEF FsFails, FsRecord
      <4>2. fs' = FsFails \/ fs' = [fs EXCEPT !.at = "mend"] \/ fs' = [fs EXCEPT !.at = "aim", !.through = WalHead]
        BY <1>a, <2>6 DEF Disconnect
      <4>3. CASE fs' = FsFails
        BY <1>a, <1>0, <3>1, <4>1, <4>3
      <4>4. CASE fs' = [fs EXCEPT !.at = "mend"]
        BY <1>a, <3>1, <4>4 DEF FsRecord
      <4>5. CASE fs' = [fs EXCEPT !.at = "aim", !.through = WalHead]
        <5> DEFINE head == WalHead
        <5>1. head \in Nat
          BY HereIs
        <5>2. fs' = [fs EXCEPT !.at = "aim", !.through = head]
          BY <4>5
        <5> HIDE DEF head
        <5>3. fs' \in FsRecord
          BY <1>a, <5>1, <5>2 DEF FsRecord
        <5>4. fs'.k = fs.k
          BY <1>a, <5>2 DEF FsRecord
        <5> QED
          BY <3>1, <5>3, <5>4
      <4> QED
        BY <4>2, <4>3, <4>4, <4>5
    <3> QED
      BY <1>a, <2>6, <3>2, <3>3 DEF Disconnect, heldVars
  <2>7. CASE Reconnect
    <3>1. fs.k \in {3, 4} /\ FsEngine \in Engine
      BY <1>a, <2>7, KindIs, Engines DEF Reconnect
    <3>2. engine' \in [Engine -> EngineRecord]
      BY <1>a, <2>7, <3>1 DEF Reconnect, EngineRecord
    <3>3. fs' \in FsRecord /\ fs'.k # 5
      <4>1. FsFails.k = fs.k
        BY <1>a DEF FsFails, FsRecord
      <4>2. fs' = FsFails \/ fs' = [fs EXCEPT !.at = "mend"] \/ fs' = [fs EXCEPT !.at = "aim", !.through = WalHead]
        BY <1>a, <2>7 DEF Reconnect
      <4>3. CASE fs' = FsFails
        BY <1>a, <1>0, <3>1, <4>1, <4>3
      <4>4. CASE fs' = [fs EXCEPT !.at = "mend"]
        BY <1>a, <3>1, <4>4 DEF FsRecord
      <4>5. CASE fs' = [fs EXCEPT !.at = "aim", !.through = WalHead]
        <5> DEFINE head == WalHead
        <5>1. head \in Nat
          BY HereIs
        <5>2. fs' = [fs EXCEPT !.at = "aim", !.through = head]
          BY <4>5
        <5> HIDE DEF head
        <5>3. fs' \in FsRecord
          BY <1>a, <5>1, <5>2 DEF FsRecord
        <5>4. fs'.k = fs.k
          BY <1>a, <5>2 DEF FsRecord
        <5> QED
          BY <3>1, <5>3, <5>4
      <4> QED
        BY <4>2, <4>3, <4>4, <4>5
    <3> QED
      BY <1>a, <2>7, <3>2, <3>3 DEF Reconnect, heldVars
  <2>8. CASE HaltWriter
    <3>1. writer' \in WriterRecord
      BY <1>a, <1>0, <2>8, WriterTypes DEF HaltWriter
    <3> QED
      BY <1>a, <1>0, <2>8, <3>1 DEF HaltWriter, FsRecord, sourceVars
  <2>9. CASE ResumeWriter
    <3>1. writer' \in WriterRecord
      BY <1>a, <1>0, <2>9, WriterTypes DEF ResumeWriter
    <3>2. Failures[fs.k].engines = Both
      BY <1>a, <2>9, KindIs, FailuresAre DEF ResumeWriter
    <3>3. fs' = [fs EXCEPT !.at = "aim", !.through = WalHead, !.todo = Both]
      BY <1>a, <2>9, <3>2 DEF ResumeWriter
    <3> QED
      BY <1>a, <2>9, <3>1, <3>3, Engines, HereIs DEF ResumeWriter, FsRecord, sourceVars
  <2>10. CASE Aim
    BY <1>a, <1>0, KindIs, <2>10, HereIs DEF Aim, FsRecord, worldVars, sourceVars, heldVars
  <2>11. CASE CaughtUp
    <3>1. FsEngine \in Engine
      <4>1. CASE fs.k = 5
        <5>1. fs.todo \in Seq(Engine) /\ fs.todo # <<>>
          BY <1>a, <2>11, <4>1, KindIs DEF CaughtUp, FsRecord
        <5> QED
          BY <1>a, <4>1, <5>1, KindIs
      <4>2. CASE fs.k # 5
        BY <1>a, <1>0, <4>2, KindIs, Engines
      <4> QED
        BY <4>1, <4>2
    <3>2. cp' \in CpRecord
      <4>1. <<FsEngine>> \in Seq(Engine)
        BY <3>1
      <4>2. cp' = [NoCheckpoint EXCEPT !.at = "pause", !.engines = <<FsEngine>>]
        BY <1>a, <2>11 DEF CaughtUp, CallCheckpoint
      <4> HIDE DEF FsEngine
      <4> QED
        BY <1>a, <1>0, <4>1, <4>2 DEF CpRecord
    <3>3. fs' \in FsRecord /\ Sound
      <4> DEFINE through == IF Kind = "kill" THEN WalHead ELSE fs.through
      <4>1. through \in Nat
        BY <1>a, HereIs DEF FsRecord
      <4>2. fs' = [fs EXCEPT !.at = "validate", !.through = through]
        BY <1>a, <2>11 DEF CaughtUp, FsRecord
      <4>3. fs.at = "await" /\ (fs.k = 5 => fs.todo # <<>>)
        BY <1>a, <2>11, KindIs DEF CaughtUp
      <4> HIDE DEF through
      <4> QED
        BY <1>a, <4>1, <4>2, <4>3 DEF FsRecord
    <3> QED
      BY <1>a, <2>11, <3>2, <3>3 DEF CaughtUp, worldVars, sourceVars, heldVars
  <2>12. CASE NotCaughtUp
    BY <1>a, <1>0, KindIs, <2>12 DEF NotCaughtUp, FsRecord, worldVars, sourceVars, heldVars
  <2>13. CASE Validated
    <3>1. FsNext \in FsRecord /\ (FsNext.at \in {"aim", "await", "validate"} /\ FsNext.k = 5 => FsNext.todo # <<>>)
      <4>1. CASE Kind = "writer" /\ Len(fs.todo) > 1
        <5>1. fs.todo \in Seq(Engine)
          BY <1>a DEF FsRecord
        <5>2. Tail(fs.todo) \in Seq(Engine) /\ Tail(fs.todo) # <<>>
          BY <4>1, <5>1, TailStays
        <5>3. FsNext = [fs EXCEPT !.at = "aim", !.todo = Tail(fs.todo)]
          BY <4>1 DEF FsNext, FsRecord
        <5> QED
          BY <1>a, <5>2, <5>3 DEF FsRecord
      <4>2. CASE ~(Kind = "writer" /\ Len(fs.todo) > 1) /\ fs.k < Len(Failures)
        <5>1. FsNext = [NoFailure EXCEPT !.at = "steady", !.k = fs.k + 1]
          BY <4>2 DEF FsNext
        <5>2. fs.k + 1 \in 1 .. 5
          BY <1>a, <1>0, <4>2, FailuresAre
        <5> QED
          BY <5>1, <5>2, Starts DEF FsRecord
      <4>3. CASE ~(Kind = "writer" /\ Len(fs.todo) > 1) /\ ~(fs.k < Len(Failures))
        <5>1. FsNext = [fs EXCEPT !.at = "stop"]
          BY <4>3 DEF FsNext
        <5> QED
          BY <1>a, <5>1 DEF FsRecord
      <4> QED
        BY <4>1, <4>2, <4>3
    <3> QED
      BY <1>a, <1>0, <2>13, <3>1 DEF Validated, worldVars, sourceVars, heldVars
  <2>14. CASE FailureCallFails
    BY <1>a, <1>0, KindIs, <2>14 DEF FailureCallFails, FsRecord, worldVars, sourceVars, heldVars
  <2>15. CASE StopSequence
    <3>1. writer' \in WriterRecord
      BY <1>a, <2>15, WriterTypes DEF StopSequence
    <3> QED
      BY <1>a, <1>0, <2>15, <3>1 DEF StopSequence, FsRecord, sourceVars
  <2> QED
    BY <2>1, <2>2, <2>3, <2>4, <2>5, <2>6, <2>7, <2>8, <2>9, <2>10, <2>11, <2>12, <2>13, <2>14, <2>15 DEF FailureStep
<1>2. WorldTypes'
  BY <1>1, FailureFrame DEF WorldTypes
<1>3. Kind' = "writer" => fs'.k = 5
  <2>1. fs'.k \in {1, 2, 3, 4, 5}
    BY <1>1 DEF FsRecord
  <2> QED
    BY <2>1, FailuresAre DEF Kind
<1> QED
  BY <1>1, <1>2, <1>3 DEF CallTypes, WinTyped

LEMMA ServicesTypes ==
    ASSUME WorldTypes, Services
    PROVE  WorldTypes'
<1> USE DEF WorldTypes
<1>1. CASE WriterCommits
  <2>1. wal' \in [Source -> Seq(BOOLEAN)]
    BY <1>1, HereIs DEF WriterCommits, Appended
  <2>2. ledger' \in Seq(Nat)
    BY <1>1, HereIs DEF WriterCommits
  <2> QED
    BY <1>1, <2>1, <2>2 DEF WriterCommits, heldVars
<1>2. CASE WriterDies
  BY <1>2 DEF WriterDies, WriterRecord, sourceVars
<1>3. CASE OtherRecord
  <2>1. wal' \in [Source -> Seq(BOOLEAN)]
    BY <1>3, HereIs DEF OtherRecord, Appended
  <2> QED
    BY <1>3, <2>1 DEF OtherRecord, heldVars
<1>4. ASSUME NEW e \in Engine, EngineApplies(e) PROVE WorldTypes'
  <2>1. engine' \in [Engine -> EngineRecord]
    <3>1. PICK lsn \in (engine[e].applied + 1)..WalHead : engine' = [engine EXCEPT ![e].applied = lsn]
      BY <1>4 DEF EngineApplies
    <3>2. engine \in [Engine -> EngineRecord] /\ engine[e].applied \in Nat
      BY DEF WorldTypes, EngineRecord
    <3>3. lsn \in Nat
      BY <3>2, HereIs
    <3> QED
      BY <3>1, <3>2, <3>3 DEF EngineRecord
  <2> QED
    BY <1>4, <2>1 DEF EngineApplies, heldVars
<1>5. ASSUME NEW e \in Engine, EngineLoses(e) PROVE WorldTypes'
  <2>1. PICK p \in Commits(Here, WalHead) :
             \E lsn \in p..WalHead :
                engine' = [engine EXCEPT ![e].applied = lsn, ![e].lost = @ \union {p}]
    BY <1>5 DEF EngineLoses
  <2>2. PICK lsn \in p..WalHead : engine' = [engine EXCEPT ![e].applied = lsn, ![e].lost = @ \union {p}]
    BY <2>1
  <2>3. engine' \in [Engine -> EngineRecord]
    <3>1. p \in Nat /\ WalHead \in Nat /\ engine \in [Engine -> EngineRecord]
      BY HereIs DEF WorldTypes
    <3>2. lsn \in Nat
      BY <3>1
    <3>3. engine[e] \in EngineRecord /\ engine[e].lost \union {p} \in SUBSET Nat
      BY <3>1 DEF EngineRecord
    <3>4. [engine[e] EXCEPT !.applied = lsn, !.lost = @ \union {p}] \in EngineRecord
      BY <3>2, <3>3 DEF EngineRecord
    <3> QED
      BY <2>2, <3>1, <3>4
  <2> QED
    BY <1>5, <2>3 DEF EngineLoses, heldVars
<1> QED
  BY <1>1, <1>2, <1>3, <1>4, <1>5 DEF Services

LEMMA ExitIs ==
    ASSUME Exit
    PROVE  /\ proc' = Down /\ writer' = NoWriter /\ active' = None
           /\ cp' = NoCheckpoint /\ win' = NoWindow /\ fs' = NoFailure
BY DEF Exit

LEMMA FailIs ==
    ASSUME RunTypes, Fail
    PROVE  /\ state' \in StateRecord /\ state'.invalid /\ state'.done = state.done
           /\ proc' \in ProcRecord /\ proc' = [Down EXCEPT !.at = "failed"]
           /\ proc'.at = "failed" /\ proc'.stage = "none" /\ proc'.step = "none"
           /\ UNCHANGED <<writer, active, cp, win, fs>>
<1>1. state' \in StateRecord /\ state'.invalid /\ state'.done = state.done
  BY DEF Fail, RunTypes, StateRecord
<1>2. proc' = [Down EXCEPT !.at = "failed"] /\ UNCHANGED <<writer, active, cp, win, fs>>
  BY DEF Fail, heldVars, callVars
<1>3. proc' \in ProcRecord /\ proc'.at = "failed"
  BY <1>2, Starts DEF ProcRecord, Where
<1>4. proc'.stage = "none" /\ proc'.step = "none"
  BY <1>2 DEF Down
<1> QED
  BY <1>1, <1>2, <1>3, <1>4

LEMMA ProcSteps ==
    ASSUME proc \in ProcRecord
    PROVE  /\ \A step \in Steps : Step(step) => proc' \in ProcRecord /\ proc'.step = step
           /\ \A ok \in BOOLEAN : Finish(ok) => proc' \in ProcRecord /\ proc'.step = "outcome"
           /\ \A step \in Steps : Step(step) =>
                /\ proc'.at = proc.at /\ proc'.stage = proc.stage /\ proc'.rates = proc.rates
                /\ proc'.todo = proc.todo /\ proc'.replayed = proc.replayed
                /\ proc'.agree = proc.agree
           /\ \A ok : Finish(ok) =>
                proc'.at = proc.at /\ proc'.stage = proc.stage /\ proc'.rates = proc.rates
<1>1. \A step \in Steps : Step(step) => proc' \in ProcRecord /\ proc'.step = step
  BY DEF Step, ProcRecord
<1>2. \A ok \in BOOLEAN : Finish(ok) => proc' \in ProcRecord /\ proc'.step = "outcome"
  BY DEF Finish, ProcRecord, Steps
<1>3. \A step \in Steps : Step(step) =>
                /\ proc'.at = proc.at /\ proc'.stage = proc.stage /\ proc'.rates = proc.rates
                /\ proc'.todo = proc.todo /\ proc'.replayed = proc.replayed
                /\ proc'.agree = proc.agree
  BY DEF Step, ProcRecord
<1>4. \A ok : Finish(ok) =>
                proc'.at = proc.at /\ proc'.stage = proc.stage /\ proc'.rates = proc.rates
  BY DEF Finish, ProcRecord
<1> QED
  BY <1>1, <1>2, <1>3, <1>4

LEMMA ControllerTypes ==
    ASSUME WorldTypes, RunTypes, CallTypes, Controller
    PROVE  WorldTypes' /\ RunTypes' /\ CallTypes'
<1>1. /\ UNCHANGED <<mode, wal, engine, ledger, disk, maps>>
      /\ \/ UNCHANGED <<writer, active>>
         \/ writer' = NoWriter /\ active' = None
      /\ \/ UNCHANGED <<cp, win, fs>>
         \/ cp' = NoCheckpoint /\ win' = NoWindow /\ fs' = NoFailure
  <2>1. CASE ExitFailed
    BY <2>1 DEF ExitFailed, Exit, sourceVars
  <2>2. CASE Create \/ SetPlan \/ ResumeRun \/ ArchiveUnplanned \/ Begin
    BY <2>2 DEF Create, SetPlan, ResumeRun, ArchiveUnplanned, Begin, worldVars, sourceVars,
       heldVars, callVars
  <2>3. CASE End
    BY <2>3 DEF End, sourceVars, callVars
  <2>4. ASSUME NEW valid \in BOOLEAN, Complete(valid)
        PROVE  /\ UNCHANGED <<mode, wal, engine, ledger, disk, maps>>
               /\ \/ UNCHANGED <<writer, active>>
                  \/ writer' = NoWriter /\ active' = None
               /\ \/ UNCHANGED <<cp, win, fs>>
                  \/ cp' = NoCheckpoint /\ win' = NoWindow /\ fs' = NoFailure
    BY <2>4 DEF Complete, Exit, sourceVars, heldVars, callVars
  <2> QED
    BY <2>1, <2>2, <2>3, <2>4 DEF Controller
<1>2. WorldTypes'
  BY <1>1, Starts DEF WorldTypes
<1>3. CallTypes'
  <2>1. CASE UNCHANGED <<cp, win, fs>>
    BY <2>1 DEF CallTypes, WinTyped, Kind
  <2>2. CASE cp' = NoCheckpoint /\ win' = NoWindow /\ fs' = NoFailure
    BY <2>2, Starts DEF CallTypes, WinTyped, Kind, NoFailure
  <2> QED
    BY <1>1, <2>1, <2>2
<1>4. state' \in StateRecord /\ proc' \in ProcRecord
  <2> USE DEF RunTypes
  <2>1. CASE ExitFailed
    BY <2>1, ExitIs, Starts DEF ExitFailed
  <2>2. CASE Create
    <3>1. state' \in StateRecord
      BY <2>2 DEF Create, StateRecord
    <3> QED
      BY <2>2, <3>1, Starts DEF Create, ProcRecord, Where
  <2>3. CASE SetPlan
    BY <2>3, Starts DEF SetPlan, StateRecord
  <2>4. CASE ResumeRun
    BY <2>4, Starts DEF ResumeRun
  <2>5. CASE ArchiveUnplanned
    BY <2>5 DEF ArchiveUnplanned, StateRecord
  <2>6. CASE Begin
    <3>1. NextStage \in Stage
      BY <2>6, NextStageIs DEF Begin
    <3> DEFINE todo == IF mode = "Isolated" THEN Both ELSE <<>>
               rates == CASE NextStage = "RateSearch" -> SearchRates
                          [] NextStage = "Cdc300" -> <<300>>
                          [] NextStage = "Cdc1000" -> <<1000>>
                          [] OTHER -> <<0>>
    <3>2. todo \in Seq(Engine)
      BY Engines
    <3>3. rates \in Seq(Nat)
      BY SearchRatesAssumption
    <3>4. proc' = [AtBoundary EXCEPT !.at = "stage", !.stage = NextStage, !.step = "body",
                                     !.todo = todo, !.rates = rates]
      BY <2>6 DEF Begin
    <3> HIDE DEF todo, rates
    <3>5. proc' \in ProcRecord
      BY <3>1, <3>2, <3>3, <3>4, Starts DEF ProcRecord, Where, Steps
    <3> QED
      BY <2>6, <3>5 DEF Begin
  <2>7. CASE End
    BY <2>7, Starts DEF End, ProcRecord, Where
  <2>8. ASSUME NEW valid \in BOOLEAN, Complete(valid)
        PROVE  state' \in StateRecord /\ proc' \in ProcRecord
    <3>1. proc' \in ProcRecord
      BY <2>8, ExitIs, Starts DEF Complete
    <3>2. state' \in StateRecord
      BY <2>8 DEF Complete, StateRecord
    <3> QED
      BY <3>1, <3>2
  <2> QED
    BY <2>1, <2>2, <2>3, <2>4, <2>5, <2>6, <2>7, <2>8 DEF Controller
<1>5. RunTypes'
  BY <1>1, <1>4 DEF RunTypes
<1> QED
  BY <1>2, <1>3, <1>5

LEMMA LastReplayedIs ==
    ASSUME RunTypes, NEW e \in Engine
    PROVE  LastReplayed(e) \in Nat
<1>1. maps[e] \in Seq(Entry)
  BY DEF RunTypes
<1>2. CASE maps[e] = <<>>
  BY <1>2 DEF LastReplayed
<1>3. CASE maps[e] # <<>>
  <2>1. maps[e][Len(maps[e])] \in Entry
    BY <1>1, <1>3
  <2> QED
    BY <1>3, <2>1 DEF LastReplayed, Entry
<1> QED
  BY <1>2, <1>3

\* What an activation does: nothing, or the next engine is the active one.
LEMMA ActivateIs ==
    ASSUME WorldTypes, RunTypes, proc.todo # <<>>, NEW next \in Steps, Activate(next)
    PROVE  /\ Head(proc.todo) \in Engine /\ active' = Head(proc.todo)
           /\ writer' \in WriterRecord /\ writer'.rate = writer.rate /\ writer'.alive = writer.alive
           /\ engine' \in [Engine -> EngineRecord]
           /\ \A e \in Engine : engine'[e] = engine[e] \/ (engine'[e].up /\ engine'[e].linked)
           /\ Step(next) \/ Step("activate")
<1> DEFINE e == Head(proc.todo)
<1>1. e \in Engine
  BY DEF RunTypes, ProcRecord
<1>2. CASE active = e
  BY <1>1, <1>2 DEF Activate, WorldTypes
<1>3. CASE active # e
  <2> DEFINE head == Len(wal[e])
             fresh == [Unloaded EXCEPT !.from = head, !.base = Commits(e, head)]
             loaded == [fresh EXCEPT !.snap = head, !.applied = head]
             copied == [fresh EXCEPT !.snap = LastReplayed(e), !.applied = LastReplayed(e)]
  <2>1. head \in Nat /\ Commits(e, head) \in SUBSET Nat
    <3>1. wal[e] \in Seq(BOOLEAN)
      BY <1>1, Engines DEF WorldTypes
    <3>2. DOMAIN wal[e] \in SUBSET Nat
      BY <3>1
    <3> QED
      BY <3>1, <3>2 DEF Commits
  <2>2. LastReplayed(e) \in Nat
    BY <1>1, LastReplayedIs
  <2>3. /\ writer' = [writer EXCEPT !.session = IF @ = "live" THEN "lost" ELSE @]
        /\ active' = e /\ Step("activate")
        /\ \/ engine' = [engine EXCEPT ![e] = copied]
           \/ engine' = [engine EXCEPT ![e] = loaded]
           \/ engine' = engine
    <3>1. engine \in [Engine -> EngineRecord]
      BY DEF WorldTypes
    <3>2. CASE e = Clickhouse
      BY <1>3, <3>2 DEF Activate
    <3>3. CASE e # Clickhouse /\ engine[e].snap = 0
      BY <1>3, <3>3 DEF Activate
    <3>4. CASE e # Clickhouse /\ engine[e].snap # 0
      <4>1. engine' = [engine EXCEPT ![e] = engine[e]]
        BY <1>3, <3>4 DEF Activate
      <4>2. engine' = engine
        BY <1>1, <3>1, <4>1
      <4> QED
        BY <1>3, <3>4, <4>2 DEF Activate
    <3> QED
      BY <3>2, <3>3, <3>4
  <2> HIDE DEF head
  <2>4. fresh \in EngineRecord /\ fresh.up /\ fresh.linked
    BY <2>1 DEF Unloaded, EngineRecord
  <2> HIDE DEF fresh
  <2>5. /\ loaded \in EngineRecord /\ loaded.up /\ loaded.linked
        /\ copied \in EngineRecord /\ copied.up /\ copied.linked
    BY <2>1, <2>2, <2>4 DEF EngineRecord
  <2> HIDE DEF loaded, copied
  <2>6. writer' \in WriterRecord /\ writer'.rate = writer.rate /\ writer'.alive = writer.alive
    BY <2>3 DEF WorldTypes, WriterRecord
  <2>7. engine \in [Engine -> EngineRecord]
    BY DEF WorldTypes
  <2>8. engine' \in [Engine -> EngineRecord]
    BY <2>3, <2>5, <2>7
  <2>9. \A d \in Engine : engine'[d] = engine[d] \/ (engine'[d].up /\ engine'[d].linked)
    BY <2>3, <2>5, <2>7
  <2> QED
    BY <1>1, <2>3, <2>6, <2>8, <2>9
<1> QED
  BY <1>2, <1>3

LEMMA StagesTypes ==
    ASSUME WorldTypes, RunTypes, CallTypes, StepInv, TurnInv, Stages
    PROVE  WorldTypes' /\ RunTypes' /\ CallTypes'
<1>a. /\ proc \in ProcRecord /\ disk \in DiskRecord /\ state \in StateRecord
      /\ maps \in [Engine -> Seq(Entry)] /\ proc.todo \in Seq(Engine)
      /\ proc.replayed \in Seq(Entry) /\ wal \in [Source -> Seq(BOOLEAN)]
      /\ engine \in [Engine -> EngineRecord] /\ writer \in WriterRecord /\ ledger \in Seq(Nat)
  BY DEF RunTypes, WorldTypes, ProcRecord
<1>b. mode' = mode /\ ledger' = ledger
  BY StagesFrame
<1>c. Fail => state' \in StateRecord /\ proc' \in ProcRecord /\ UNCHANGED <<writer, active, cp, win, fs>>
  BY FailIs
<1> DEFINE Worlds == /\ wal' \in [Source -> Seq(BOOLEAN)] /\ engine' \in [Engine -> EngineRecord]
                     /\ writer' \in WriterRecord /\ active' \in Engine \union {None}
           Runs == state' \in StateRecord /\ disk' \in DiskRecord /\ proc' \in ProcRecord
                   /\ maps' \in [Engine -> Seq(Entry)]
           Calls == /\ cp' \in CpRecord /\ WinTyped(win')
                    /\ fs' = fs \/ fs' = NoFailure \/ fs' = [NoFailure EXCEPT !.at = "steady"]
           SameWorld == UNCHANGED <<wal, engine, writer, active>>
           SameCalls == UNCHANGED <<cp, win, fs>>
<1>d. SameWorld => Worlds
  BY <1>a DEF WorldTypes
<1>e. SameCalls => Calls
  BY DEF CallTypes, WinTyped
<1>f. Worlds /\ Runs /\ Calls => WorldTypes' /\ RunTypes' /\ CallTypes'
  <2>1. fs' = fs \/ fs' = NoFailure \/ fs' = [NoFailure EXCEPT !.at = "steady"] =>
          fs' \in FsRecord /\ (fs'.at \in {"aim", "await", "validate"} /\ Kind' = "writer" => fs'.todo # <<>>)
    <3>1. NoFailure.at = "idle" /\ [NoFailure EXCEPT !.at = "steady"] \in FsRecord
          /\ [NoFailure EXCEPT !.at = "steady"].at = "steady" /\ NoFailure \in FsRecord
      BY Starts DEF NoFailure, FsRecord
    <3> QED
      BY <3>1 DEF CallTypes, Kind
  <2> QED
    BY <1>b, <2>1 DEF WorldTypes, RunTypes, CallTypes
<1> HIDE DEF Worlds, Runs, Calls

<1>1. CASE Preflight
  <2>1. SameWorld /\ SameCalls
    BY <1>1 DEF Preflight, worldVars, sourceVars, heldVars, callVars
  <2>2. Runs
    BY <1>a, <1>1, ProcSteps DEF Preflight, Runs
  <2> QED
    BY <1>d, <1>e, <1>f, <2>1, <2>2
<1>2. CASE Seeded
  <2>1. SameWorld /\ SameCalls
    BY <1>2 DEF Seeded, worldVars, sourceVars, heldVars, callVars
  <2>2. Runs
    BY <1>a, <1>2, ProcSteps DEF Seeded, Runs
  <2> QED
    BY <1>d, <1>e, <1>f, <2>1, <2>2
<1>3. CASE LoadSeed
  <2>1. Worlds
    BY <1>a, <1>3, Engines DEF LoadSeed, Worlds, WorldTypes, heldVars
  <2>2. Runs
    BY <1>a, <1>3, ProcSteps DEF LoadSeed, Runs, Steps
  <2>3. SameCalls
    BY <1>3 DEF LoadSeed, callVars
  <2> QED
    BY <1>e, <1>f, <2>1, <2>2, <2>3
<1>4. CASE WriteManifest
  <2>1. SameWorld /\ SameCalls
    BY <1>4 DEF WriteManifest, worldVars, sourceVars, heldVars, callVars
  <2>2. Runs
    <3>1. disk' \in DiskRecord
      BY <1>a, <1>4 DEF WriteManifest, DiskRecord
    <3>2. proc' \in ProcRecord
      BY <1>a, <1>4, ProcSteps DEF WriteManifest, Steps
    <3> QED
      BY <1>a, <1>4, <3>1, <3>2 DEF WriteManifest, Runs
  <2> QED
    BY <1>d, <1>e, <1>f, <2>1, <2>2
<1>5. CASE BackUp
  <2>1. SameWorld /\ SameCalls
    BY <1>5 DEF BackUp, worldVars, sourceVars, heldVars, callVars
  <2>2. Runs
    <3>1. disk' \in DiskRecord
      BY <1>a, <1>5 DEF BackUp, DiskRecord
    <3>2. proc' \in ProcRecord
      BY <1>a, <1>5, ProcSteps DEF BackUp, Steps
    <3> QED
      BY <1>a, <1>5, <3>1, <3>2 DEF BackUp, Runs
  <2> QED
    BY <1>d, <1>e, <1>f, <2>1, <2>2
<1>6. CASE ChecksumBaseline
  <2>1. SameWorld /\ SameCalls
    BY <1>6 DEF ChecksumBaseline, worldVars, sourceVars, heldVars, callVars
  <2>2. Runs
    <3>1. disk' \in DiskRecord
      BY <1>a, <1>6 DEF ChecksumBaseline, DiskRecord
    <3>2. proc' \in ProcRecord
      BY <1>a, <1>6, ProcSteps DEF ChecksumBaseline, Steps
    <3> QED
      BY <1>a, <1>6, <3>1, <3>2 DEF ChecksumBaseline, Runs
  <2> QED
    BY <1>d, <1>e, <1>f, <2>1, <2>2
<1>7. CASE VerifyBaseline
  <2>1. SameWorld /\ SameCalls
    BY <1>7 DEF VerifyBaseline, worldVars, sourceVars, heldVars, callVars
  <2>2. Runs
    BY <1>a, <1>7, ProcSteps DEF VerifyBaseline, Runs, Steps
  <2> QED
    BY <1>d, <1>e, <1>f, <2>1, <2>2
<1>8. CASE BaselineRefused
  <2>1. SameWorld /\ SameCalls
    BY <1>8 DEF BaselineRefused, worldVars, sourceVars, heldVars, callVars, Fail
  <2>2. Runs
    BY <1>a, <1>c, <1>8 DEF BaselineRefused, Runs
  <2> QED
    BY <1>d, <1>e, <1>f, <2>1, <2>2
<1>9. CASE RestoreRefused
  <2>1. SameWorld /\ SameCalls
    BY <1>9 DEF RestoreRefused, worldVars, sourceVars, heldVars, callVars, Fail
  <2>2. Runs
    BY <1>a, <1>c, <1>9 DEF RestoreRefused, Runs
  <2> QED
    BY <1>d, <1>e, <1>f, <2>1, <2>2
<1>10. CASE Restore
  <2>0. Head(proc.todo) \in Engine /\ Tail(proc.todo) \in Seq(Engine)
    BY <1>a, <1>10 DEF Restore
  <2>1. Worlds
    <3>1. <<TRUE>> \in Seq(BOOLEAN) /\ Head(proc.todo) \in Source
      BY <2>0, Engines
    <3> DEFINE w == <<TRUE>>
    <3>2. w \in Seq(BOOLEAN)
      BY <3>1
    <3>3. wal' = [wal EXCEPT ![Head(proc.todo)] = w]
      BY <1>10 DEF Restore
    <3> HIDE DEF w
    <3>4. wal' \in [Source -> Seq(BOOLEAN)]
      BY <1>a, <3>2, <3>3
    <3>5. UNCHANGED <<engine, writer, active>>
      BY <1>10 DEF Restore, heldVars
    <3> QED
      BY <1>a, <3>4, <3>5 DEF Worlds, WorldTypes
  <2>2. Runs
    <3>1. proc' \in ProcRecord
      <4>1. proc' = [proc EXCEPT !.todo = Tail(proc.todo)]
        BY <1>a, <1>10 DEF Restore, ProcRecord
      <4> QED
        BY <1>a, <2>0, <4>1 DEF ProcRecord
    <3>2. disk' \in DiskRecord
      BY <1>a, <1>10, <2>0 DEF Restore, DiskRecord
    <3> QED
      BY <1>a, <1>10, <3>1, <3>2 DEF Restore, Runs
  <2>3. SameCalls
    BY <1>10 DEF Restore, callVars
  <2> QED
    BY <1>e, <1>f, <2>1, <2>2, <2>3
<1>11. CASE StartReplays
  <2>1. SameWorld /\ SameCalls
    BY <1>11 DEF StartReplays, worldVars, sourceVars, heldVars, callVars
  <2>2. Runs
    <3>1. proc' \in ProcRecord
      BY <1>a, <1>11, Engines DEF StartReplays, ProcRecord, Steps
    <3> QED
      BY <1>a, <1>11, <3>1 DEF StartReplays, Runs
  <2> QED
    BY <1>d, <1>e, <1>f, <2>1, <2>2
<1>12. ASSUME NEW e \in Engine, ReplayTransaction(e) PROVE WorldTypes' /\ RunTypes' /\ CallTypes'
  <2>1. PICK others \in {<<>>, <<FALSE>>} : wal' = [wal EXCEPT ![e] = @ \o <<TRUE>> \o others]
    BY <1>12 DEF ReplayTransaction
  <2>2. wal' \in [Source -> Seq(BOOLEAN)] /\ e \in Source
    <3>1. e \in Source /\ wal[e] \in Seq(BOOLEAN)
      BY <1>a, Engines
    <3> DEFINE w == wal[e] \o <<TRUE>> \o others
    <3>2. others \in Seq(BOOLEAN) /\ <<TRUE>> \in Seq(BOOLEAN)
      <4>1. <<>> \in Seq(BOOLEAN) /\ <<FALSE>> \in Seq(BOOLEAN) /\ <<TRUE>> \in Seq(BOOLEAN)
        OBVIOUS
      <4>2. others = <<>> \/ others = <<FALSE>>
        OBVIOUS
      <4> QED
        BY <4>1, <4>2
    <3>3. w \in Seq(BOOLEAN)
      BY <3>1, <3>2
    <3>4. wal' = [wal EXCEPT ![e] = w]
      BY <2>1
    <3> HIDE DEF w
    <3> QED
      BY <1>a, <3>1, <3>3, <3>4
  <2>3. Worlds
    BY <1>a, <1>12, <2>2 DEF ReplayTransaction, Worlds, WorldTypes, heldVars
  <2>4. Runs
    <3>1. NextReplay(e) \in Nat
      <4>1. Len(proc.replayed) + 1 \in 1 .. Len(ledger)
        BY <1>a, <1>12 DEF ReplayTransaction
      <4> QED
        BY <1>a, <4>1 DEF NextReplay
    <3> DEFINE entry == [original |-> NextReplay(e), lsn |-> Len(wal'[e])]
    <3>2. entry \in Entry
      BY <2>2, <3>1 DEF Entry
    <3>3. proc' = [proc EXCEPT !.replayed = Append(proc.replayed, entry)]
      BY <1>a, <1>12 DEF ReplayTransaction, ProcRecord
    <3> HIDE DEF entry
    <3> DEFINE more == Append(proc.replayed, entry)
    <3>5. more \in Seq(Entry)
      BY <1>a, <3>2
    <3>6. proc' = [proc EXCEPT !.replayed = more]
      BY <3>3
    <3> HIDE DEF more
    <3>4. proc' \in ProcRecord
      BY <1>a, <3>5, <3>6 DEF ProcRecord
    <3> QED
      BY <1>a, <1>12, <3>4 DEF ReplayTransaction, Runs
  <2>5. SameCalls
    BY <1>12 DEF ReplayTransaction, callVars
  <2> QED
    BY <1>e, <1>f, <2>3, <2>4, <2>5
<1>13. ASSUME NEW e \in Engine, PushReplayed(e) PROVE WorldTypes' /\ RunTypes' /\ CallTypes'
  <2>1. SameWorld /\ SameCalls
    BY <1>13 DEF PushReplayed, worldVars, sourceVars, heldVars, callVars
  <2>2. Runs
    <3>1. Len(maps[e]) + 1 \in 1 .. Len(proc.replayed)
      BY <1>a, <1>13 DEF PushReplayed
    <3>2. proc.replayed[Len(maps[e]) + 1] \in Entry
      BY <1>a, <3>1
    <3>3. maps' \in [Engine -> Seq(Entry)]
      BY <1>a, <1>13, <3>2 DEF PushReplayed
    <3> QED
      BY <1>a, <1>13, <3>3 DEF PushReplayed, Runs
  <2> QED
    BY <1>d, <1>e, <1>f, <2>1, <2>2
<1>14. ASSUME NEW e \in Engine, Replayed(e) PROVE WorldTypes' /\ RunTypes' /\ CallTypes'
  <2>1. SameWorld /\ SameCalls
    BY <1>14 DEF Replayed, worldVars, sourceVars, heldVars, callVars
  <2>2. Runs
    <3>1. Tail(proc.todo) \in Seq(Engine)
      BY <1>a, <1>14 DEF Replayed, Replaying
    <3>2. proc' = [proc EXCEPT !.todo = Tail(proc.todo), !.replayed = <<>>]
      BY <1>a, <1>14 DEF Replayed, ProcRecord
    <3> DEFINE rest == Tail(proc.todo)
               none == <<>>
    <3>4. rest \in Seq(Engine) /\ none \in Seq(Entry)
      BY <3>1
    <3>5. proc' = [proc EXCEPT !.todo = rest, !.replayed = none]
      BY <3>2
    <3> HIDE DEF rest, none
    <3>3. proc' \in ProcRecord
      BY <1>a, <3>4, <3>5 DEF ProcRecord
    <3> QED
      BY <1>a, <1>14, <3>3 DEF Replayed, Runs
  <2> QED
    BY <1>d, <1>e, <1>f, <2>1, <2>2
<1>15. CASE ValidateReplays
  <2>1. SameWorld /\ SameCalls
    BY <1>15 DEF ValidateReplays, worldVars, sourceVars, heldVars, callVars, Fail
  <2>2. Runs
    BY <1>a, <1>c, <1>15, ProcSteps DEF ValidateReplays, Runs
  <2> QED
    BY <1>d, <1>e, <1>f, <2>1, <2>2
<1>16. CASE Bootstrap
  <2>1. engine' \in [Engine -> EngineRecord]
    <3>1. CASE mode = "Isolated"
      BY <1>a, <1>16, <3>1 DEF Bootstrap
    <3>2. CASE mode # "Isolated"
      <4>1. Loaded(Graydb, WalHead) \in EngineRecord /\ Loaded(Clickhouse, InitialLsn) \in EngineRecord
        BY HereIs DEF Loaded, InitialLsn, Unloaded, EngineRecord
      <4>2. Attached(Graydb) \in EngineRecord
        BY <1>a, <4>1, Engines DEF Attached
      <4>3. engine' = [engine EXCEPT ![Graydb] = Attached(Graydb),
                                     ![Clickhouse] = Loaded(Clickhouse, InitialLsn)]
        BY <1>16, <3>2 DEF Bootstrap
      <4> QED
        BY <1>a, <4>1, <4>2, <4>3, Engines
    <3> QED
      BY <3>1, <3>2
  <2>2. Worlds
    BY <1>a, <1>16, <2>1 DEF Bootstrap, Worlds, WorldTypes, heldVars
  <2>3. Runs
    BY <1>a, <1>16, ProcSteps DEF Bootstrap, Runs, Steps
  <2>4. SameCalls
    BY <1>16 DEF Bootstrap, callVars
  <2> QED
    BY <1>e, <1>f, <2>2, <2>3, <2>4
<1>17. CASE StartCdc
  <2>1. engine' \in [Engine -> EngineRecord]
    <3> DEFINE head == WalHead
    <3>1. head \in Nat
      BY HereIs
    <3>2. engine' = [engine EXCEPT ![Clickhouse].from = head]
      BY <1>17 DEF StartCdc
    <3> HIDE DEF head
    <3> QED
      BY <1>a, <3>1, <3>2, Engines DEF EngineRecord
  <2>2. Worlds
    BY <1>a, <1>17, <2>1 DEF StartCdc, Worlds, WorldTypes, heldVars
  <2>3. Runs
    BY <1>a, <1>17, ProcSteps DEF StartCdc, Runs, Steps
  <2>4. SameCalls
    BY <1>17 DEF StartCdc, callVars
  <2> QED
    BY <1>e, <1>f, <2>2, <2>3, <2>4
<1>18. CASE NextCheck
  <2>0. UNCHANGED <<wal, state, disk, maps, win, fs>> /\ proc.at = "stage" /\ proc.stage \in Checks
    BY <1>18 DEF NextCheck
  <2>1. CASE mode = "Isolated" /\ proc.step = "body" /\ Activate("check") /\ UNCHANGED cp
    <3>1. proc.todo # <<>>
      BY <2>0, <2>1 DEF TurnInv, Turns
    <3>2. Worlds /\ proc' \in ProcRecord
      BY <1>a, <2>0, <2>1, <3>1, ActivateIs, ProcSteps DEF Worlds, Steps
    <3> QED
      BY <1>a, <1>e, <1>f, <2>0, <2>1, <3>2 DEF Runs
  <2>2. CASE mode = "Isolated" /\ ActivationWaits("check") /\ UNCHANGED <<engine, writer, cdc, active, cp>>
    <3>1. proc' \in ProcRecord
      BY <1>a, <2>2, ProcSteps DEF ActivationWaits, Steps
    <3> QED
      BY <1>a, <1>d, <1>e, <1>f, <2>0, <2>2, <3>1 DEF Runs
  <2>3. CASE /\ \/ mode = "Isolated" /\ proc.step = "check" /\ CallCheckpoint(<<active>>)
                \/ CallCheckpoint(Both)
             /\ Step("checking") /\ UNCHANGED <<engine, writer, cdc, active>>
    <3>1. proc' \in ProcRecord
      BY <1>a, <2>3, ProcSteps DEF Steps
    <3>2. ASSUME NEW engines \in Seq(Engine), CallCheckpoint(engines) PROVE cp' \in CpRecord
      BY <3>2, Starts DEF CallCheckpoint, CpRecord
    <3>3. mode = "Isolated" /\ proc.step = "check" => <<active>> \in Seq(Engine)
      BY DEF TurnInv, Turns, WorldTypes
    <3>4. cp' \in CpRecord
      BY <2>3, <3>2, <3>3, Engines
    <3>5. Calls
      BY <2>0, <3>4 DEF Calls, CallTypes, WinTyped
    <3> QED
      BY <1>a, <1>d, <1>f, <2>0, <2>3, <3>1, <3>5 DEF Runs
  <2> QED
    BY <1>18, <2>1, <2>2, <2>3 DEF NextCheck
<1>19. CASE Checked
  <2>0. UNCHANGED <<wal, engine, disk, maps>>
    BY <1>19 DEF Checked, sourceVars
  <2>1. CASE Fail
    BY <1>a, <1>c, <1>d, <1>e, <1>f, <2>0, <2>1 DEF Runs
  <2>2. CASE ~cp.err
    <3> DEFINE sequence == IF mode = "Isolated" THEN Len(maps[active]) ELSE 0
               first == mode = "Isolated" /\ active = Graydb
               agree == /\ proc.agree /\ cp.passed
                        /\ first \/ mode = "Correctness" \/ sequence = proc.reached
               reached == IF first THEN sequence ELSE proc.reached
               todo == IF proc.todo = <<>> THEN proc.todo ELSE Tail(proc.todo)
               step == IF Len(proc.todo) > 1 THEN "body" ELSE "record"
    <3>1. /\ proc' = [proc EXCEPT !.agree = agree, !.reached = reached, !.todo = todo, !.step = step]
          /\ cp' = NoCheckpoint /\ UNCHANGED <<state, writer, active, win, fs>>
      BY <1>a, <1>19, <2>2 DEF Checked, ProcRecord, heldVars
    <3>2. agree \in BOOLEAN /\ step \in Steps /\ todo \in Seq(Engine)
      BY <1>a DEF Steps
    <3>3. sequence \in Nat
      <4>1. mode = "Isolated" => active \in Engine
        BY <1>19 DEF TurnInv, Turns, WorldTypes, Checked
      <4> QED
        BY <1>a, <4>1
    <3>4. reached \in Nat
      BY <1>a, <3>3 DEF ProcRecord
    <3> HIDE DEF sequence, agree, reached, todo, step
    <3>5. proc' \in ProcRecord
      BY <1>a, <3>1, <3>2, <3>4 DEF ProcRecord
    <3>6. Calls
      BY <3>1, Starts DEF Calls, CallTypes, WinTyped
    <3> QED
      BY <1>a, <1>d, <1>f, <2>0, <3>1, <3>5, <3>6 DEF Runs
  <2> QED
    BY <1>19, <2>1, <2>2 DEF Checked
<1>20. CASE RecordCheck
  <2>1. SameWorld /\ SameCalls
    BY <1>20 DEF RecordCheck, worldVars, sourceVars, heldVars, callVars, Fail
  <2>2. Runs
    <3>1. disk' \in DiskRecord
      BY <1>a, <1>20 DEF RecordCheck, DiskRecord
    <3> QED
      BY <1>a, <1>c, <1>20, <3>1, ProcSteps DEF RecordCheck, Runs
  <2> QED
    BY <1>d, <1>e, <1>f, <2>1, <2>2
<1>21. CASE NextWindow
  <2>0. UNCHANGED <<wal, state, disk, maps, cp, fs>> /\ proc.at = "stage" /\ proc.stage \in Timed
    BY <1>21 DEF NextWindow
  <2>1. CASE mode = "Isolated" /\ proc.step = "body" /\ Activate("window") /\ UNCHANGED win
    <3>1. proc.todo # <<>>
      BY <2>0, <2>1 DEF TurnInv, Turns
    <3>2. Worlds /\ proc' \in ProcRecord
      BY <1>a, <2>0, <2>1, <3>1, ActivateIs, ProcSteps DEF Worlds, Steps
    <3> QED
      BY <1>a, <1>e, <1>f, <2>0, <2>1, <3>2 DEF Runs
  <2>2. CASE mode = "Isolated" /\ ActivationWaits("window") /\ UNCHANGED <<engine, writer, cdc, active, win>>
    <3>1. proc' \in ProcRecord
      BY <1>a, <2>2, ProcSteps DEF ActivationWaits, Steps
    <3> QED
      BY <1>a, <1>d, <1>e, <1>f, <2>0, <2>2, <3>1 DEF Runs
  <2>3. CASE /\ CallWindow(<<active>>, Head(proc.rates)) \/ CallWindow(Both, Head(proc.rates))
             /\ Step("measuring") /\ UNCHANGED <<engine, writer, cdc, active>>
    <3>1. proc' \in ProcRecord
      BY <1>a, <2>3, ProcSteps DEF Steps
    <3>2. Head(proc.rates) \in Nat
      BY <1>a, <2>0 DEF StepInv, ProcRecord
    <3>3. ASSUME NEW engines, NEW rate \in Nat, CallWindow(engines, rate) PROVE WinTyped(win')
      BY <3>3 DEF CallWindow, WinTyped, WinAt, NoWindow
    <3>4. WinTyped(win')
      BY <2>3, <3>2, <3>3
    <3>5. Calls
      BY <2>0, <3>4 DEF Calls, CallTypes
    <3> QED
      BY <1>a, <1>d, <1>f, <2>0, <2>3, <3>1, <3>5 DEF Runs
  <2> QED
    BY <1>21, <2>1, <2>2, <2>3 DEF NextWindow
<1>22. CASE Measured
  <2>0. UNCHANGED <<wal, engine, disk, maps>>
    BY <1>22 DEF Measured, sourceVars
  <2>1. CASE Fail
    BY <1>a, <1>c, <1>d, <1>e, <1>f, <2>0, <2>1 DEF Runs
  <2>2. CASE ~win.err
    <3>1. win' = NoWindow /\ UNCHANGED <<state, writer, active, cp, fs>>
      BY <1>22, <2>2 DEF Measured, heldVars
    <3>2. Calls
      BY <3>1, Starts DEF Calls, CallTypes
    <3>3. proc' \in ProcRecord
      <4>1. CASE Finish(FALSE) \/ Finish(TRUE)
        BY <1>a, <4>1, ProcSteps
      <4>2. CASE Len(proc.todo) > 1 /\ proc' = [proc EXCEPT !.step = "body", !.todo = Tail(@)]
        <5>1. Tail(proc.todo) \in Seq(Engine)
          BY <1>a, <4>2, TailStays
        <5>2. proc' = [proc EXCEPT !.step = "body", !.todo = Tail(proc.todo)]
          BY <1>a, <4>2 DEF ProcRecord
        <5> QED
          BY <1>a, <5>1, <5>2 DEF ProcRecord, Steps
      <4>3. CASE /\ Len(proc.rates) > 1
                 /\ proc' = [proc EXCEPT !.step = "body", !.rates = Tail(@),
                                         !.todo = IF mode = "Isolated" THEN Both ELSE <<>>]
        <5> DEFINE todo == IF mode = "Isolated" THEN Both ELSE <<>>
        <5>1. proc.rates \in Seq(Nat) /\ todo \in Seq(Engine)
          BY <1>a, Engines DEF ProcRecord
        <5>2. Tail(proc.rates) \in Seq(Nat)
          BY <4>3, <5>1, TailStays
        <5>3. proc' = [proc EXCEPT !.step = "body", !.rates = Tail(proc.rates), !.todo = todo]
          BY <1>a, <4>3 DEF ProcRecord
        <5> HIDE DEF todo
        <5> QED
          BY <1>a, <5>1, <5>2, <5>3 DEF ProcRecord, Steps
      <4> QED
        BY <1>22, <2>2, <4>1, <4>2, <4>3 DEF Measured
    <3> QED
      BY <1>a, <1>d, <1>f, <2>0, <3>1, <3>2, <3>3 DEF Runs
  <2> QED
    BY <1>22, <2>1, <2>2 DEF Measured
<1>23. CASE BreakThings
  <2>1. SameWorld /\ UNCHANGED <<state, disk, maps, cp, win>>
    BY <1>23 DEF BreakThings, worldVars, sourceVars, heldVars
  <2>2. Runs
    BY <1>a, <1>23, <2>1, ProcSteps DEF BreakThings, Runs, Steps
  <2>3. Calls
    BY <1>23, <2>1 DEF BreakThings, CallFailureSequence, Calls, CallTypes, WinTyped
  <2> QED
    BY <1>d, <1>f, <2>1, <2>2, <2>3
<1>24. CASE Broken
  <2>0. UNCHANGED <<wal, engine, disk, maps>>
    BY <1>24 DEF Broken, sourceVars
  <2>1. CASE Fail
    BY <1>a, <1>c, <1>d, <1>e, <1>f, <2>0, <2>1 DEF Runs
  <2>2. CASE Finish(TRUE) /\ fs' = NoFailure /\ UNCHANGED <<state, heldVars, cp, win>>
    <3>1. Calls
      BY <2>2 DEF Calls, CallTypes, WinTyped
    <3> QED
      BY <1>a, <1>d, <1>f, <2>0, <2>2, <3>1, ProcSteps DEF Runs, heldVars
  <2> QED
    BY <1>24, <2>1, <2>2 DEF Broken
<1>25. CASE Report
  <2>1. SameWorld /\ SameCalls
    BY <1>25 DEF Report, worldVars, sourceVars, heldVars, callVars
  <2>2. Runs
    <3>1. disk' \in DiskRecord
      BY <1>a, <1>25 DEF Report, DiskRecord
    <3>2. proc' \in ProcRecord
      BY <1>a, <1>25, ProcSteps DEF Report, Steps
    <3> QED
      BY <1>a, <1>25, <3>1, <3>2 DEF Report, Runs
  <2> QED
    BY <1>d, <1>e, <1>f, <2>1, <2>2
<1>26. CASE Checksums
  <2>1. SameWorld /\ SameCalls
    BY <1>26 DEF Checksums, worldVars, sourceVars, heldVars, callVars
  <2>2. Runs
    <3>1. disk' \in DiskRecord
      BY <1>a, <1>26 DEF Checksums, DiskRecord
    <3>2. proc' \in ProcRecord
      BY <1>a, <1>26, ProcSteps DEF Checksums, Steps
    <3> QED
      BY <1>a, <1>26, <3>1, <3>2 DEF Checksums, Runs
  <2> QED
    BY <1>d, <1>e, <1>f, <2>1, <2>2
<1>27. CASE CompleteRun
  <2>1. SameWorld /\ SameCalls
    BY <1>27 DEF CompleteRun, worldVars, sourceVars, heldVars, callVars
  <2>2. Runs
    BY <1>a, <1>27, ProcSteps DEF CompleteRun, Runs
  <2> QED
    BY <1>d, <1>e, <1>f, <2>1, <2>2
<1>28. CASE StageFails
  <2>1. SameWorld /\ SameCalls
    BY <1>28 DEF StageFails, worldVars, sourceVars, heldVars, callVars, Fail
  <2>2. Runs
    BY <1>a, <1>c, <1>28 DEF StageFails, Runs
  <2> QED
    BY <1>d, <1>e, <1>f, <2>1, <2>2
<1> QED
  BY <1>1, <1>2, <1>3, <1>4, <1>5, <1>6, <1>7, <1>8, <1>9, <1>10, <1>11, <1>12, <1>13, <1>14, <1>15, <1>16, <1>17, <1>18, <1>19, <1>20, <1>21, <1>22, <1>23, <1>24, <1>25, <1>26, <1>27, <1>28 DEF Stages

LEMMA TypesStay ==
    ASSUME RunInv, [Next]_vars
    PROVE  WorldTypes' /\ RunTypes' /\ CallTypes'
<1> USE DEF RunInv
<1>1. CASE Controller
  BY <1>1, ControllerTypes
<1>2. CASE Stages
  BY <1>2, StagesTypes
<1>3. CASE CheckpointStep /\ UNCHANGED <<runVars, maps, win, fs>>
  BY <1>3, CheckpointTypes DEF RunTypes, runVars
<1>4. CASE WindowStep /\ UNCHANGED <<runVars, cp, fs>>
  BY <1>4, WindowTypes, WindowFrame DEF RunTypes, runVars
<1>5. CASE FailureStep /\ UNCHANGED <<runVars, maps, win>>
  BY <1>5, FailureTypes DEF RunTypes, runVars
<1>6. CASE Crash
  <2>1. WorldTypes' /\ RunTypes'
    BY <1>6, ExitIs, Starts DEF Crash, WorldTypes, RunTypes, sourceVars
  <2>2. CallTypes'
    <3>1. cp' = NoCheckpoint /\ win' = NoWindow /\ fs' = NoFailure
      BY <1>6, ExitIs DEF Crash
    <3> QED
      BY <3>1, Starts DEF CallTypes, WinTyped, Kind, NoFailure
  <2> QED
    BY <2>1, <2>2
<1>7. CASE Services /\ UNCHANGED <<runVars, maps, callVars>>
  BY <1>7, ServicesTypes DEF RunTypes, CallTypes, WinTyped, Kind, runVars, callVars
<1>8. CASE UNCHANGED vars
  BY <1>8 DEF vars, worldVars, sourceVars, heldVars, runVars, callVars, WorldTypes, RunTypes,
     CallTypes, WinTyped, Kind
<1> QED
  BY <1>1, <1>2, <1>3, <1>4, <1>5, <1>6, <1>7, <1>8 DEF Next, Process

-----------------------------------------------------------------------------
(***************************************************************************)
(* The controller's place in the run.                                      *)
(***************************************************************************)
\* A step is one of these.
Checkpointing ==
    /\ proc.at = "stage" /\ CheckpointStep
    /\ UNCHANGED <<mode, wal, engine, ledger, active, state, disk, proc, maps, win, fs>>

Measuring ==
    /\ proc.at = "stage" /\ WindowStep
    /\ UNCHANGED <<mode, wal, engine, ledger, active, state, disk, proc, maps, cp, fs>>

Breaking ==
    /\ proc.at = "stage" /\ FailureStep
    /\ UNCHANGED <<mode, wal, ledger, active, state, disk, proc, maps, win>>
    /\ \A e \in Engine : SameData(e)

Serving ==
    Services /\ UNCHANGED <<mode, active, state, disk, proc, maps, cp, win, fs>>

Resting ==
    UNCHANGED <<mode, wal, engine, ledger, writer, active, state, disk, proc, maps, cp, win, fs>>

LEMMA ServicesFrame ==
    ASSUME Services
    PROVE  UNCHANGED <<mode, active>>
BY DEF Services, WriterCommits, WriterDies, OtherRecord, EngineApplies, EngineLoses, heldVars,
   sourceVars

LEMMA NextIs ==
    ASSUME WorldTypes, [Next]_vars
    PROVE  \/ Controller \/ Stages \/ Checkpointing \/ Measuring \/ Breaking \/ Crash \/ Serving
           \/ Resting
<1>1. CASE UNCHANGED vars
  BY <1>1 DEF vars, worldVars, sourceVars, heldVars, runVars, callVars, Resting
<1>2. CASE proc.at = "stage" /\ CheckpointStep /\ UNCHANGED <<runVars, maps, win, fs>>
  BY <1>2, CheckpointFrame DEF Checkpointing, runVars
<1>3. CASE proc.at = "stage" /\ WindowStep /\ UNCHANGED <<runVars, cp, fs>>
  BY <1>3, WindowFrame DEF Measuring, runVars
<1>4. CASE proc.at = "stage" /\ FailureStep /\ UNCHANGED <<runVars, maps, win>>
  BY <1>4, FailureFrame DEF Breaking, runVars
<1>5. CASE Services /\ UNCHANGED <<runVars, maps, callVars>>
  BY <1>5, ServicesFrame DEF Serving, runVars, callVars
<1> QED
  BY <1>1, <1>2, <1>3, <1>4, <1>5 DEF Next, Process

LEMMA Distinct ==
    \A i, j \in 1 .. 15 : Ordered[i] = Ordered[j] => i = j
BY DEF Ordered

LEMMA StageStays ==
    ASSUME RunInv, WorldTypes', RunTypes', CallTypes', [Next]_vars
    PROVE  StageInv'
<1>a. /\ StageInv /\ RunTypes /\ WorldTypes /\ state \in StateRecord /\ proc \in ProcRecord
  BY DEF RunInv, RunTypes
<1>1. ASSUME UNCHANGED state, \/ proc'.at # "stage"
                              \/ proc'.stage = NextStage /\ NextStage # "none"
      PROVE  StageInv'
  BY <1>a, <1>1 DEF StageInv, NextStage, FirstOpen
<1>2. ASSUME state'.done = state.done, state'.invalid = state.invalid \/ state'.invalid,
             proc'.at # "stage"
      PROVE  StageInv'
  BY <1>a, <1>2 DEF StageInv
<1>3. ASSUME UNCHANGED <<state, proc>> PROVE StageInv'
  BY <1>a, <1>1, <1>3 DEF StageInv
<1>4. CASE Controller
  <2>1. CASE Create
    BY <1>a, <1>2, <2>1 DEF Create, StateRecord, Down
  <2>2. CASE SetPlan
    BY <1>a, <1>2, <2>2 DEF SetPlan, StateRecord, AtBoundary, Down
  <2>3. CASE ResumeRun
    BY <1>1, <2>3 DEF ResumeRun, AtBoundary, Down
  <2>4. CASE ArchiveUnplanned
    BY <1>a, <1>2, <2>4 DEF ArchiveUnplanned, StateRecord
  <2>5. CASE Begin
    <3>1. proc'.stage = NextStage
      BY <2>5 DEF Begin, AtBoundary, Down
    <3> QED
      BY <1>1, <2>5, <3>1 DEF Begin
  <2>6. CASE End
    BY <1>1, <2>6 DEF End, Down
  <2>7. CASE ExitFailed
    BY <1>1, <2>7, ExitIs DEF ExitFailed, Down
  <2>8. ASSUME NEW valid \in BOOLEAN, Complete(valid) PROVE StageInv'
    <3>1. proc'.at # "stage"
      BY <2>8, ExitIs DEF Complete, AtBoundary, Down
    <3>2. /\ proc.at = "stage" /\ proc.stage \in Stage
          /\ state'.invalid = (state.invalid \/ ~valid)
          /\ state'.done = [state.done EXCEPT ![proc.stage] = IF valid THEN "valid" ELSE "invalid"]
      BY <1>a, <2>8, UnderWay DEF Complete, StateRecord
    <3>3. state.done \in [Stage -> {"no", "valid", "invalid"}]
      BY <1>a DEF StateRecord
    <3>4. ~state'.invalid => \A s \in Stage : state'.done[s] # "invalid"
      BY <1>a, <3>2, <3>3 DEF StageInv
    <3>5. ASSUME NEW i \in 1 .. 12, NEW j \in 1 .. 12, j < i, state'.done[Ordered[i]] # "no"
          PROVE  state'.done[Ordered[j]] # "no"
      <4>1. Ordered[i] \in Stage /\ Ordered[j] \in Stage
        BY StageIs
      <4>2. CASE state.done[Ordered[i]] # "no"
        <5>1. state.done[Ordered[j]] # "no"
          BY <1>a, <3>5, <4>2 DEF StageInv
        <5> QED
          BY <3>2, <3>3, <4>1, <5>1
      <4>3. CASE Ordered[i] = proc.stage
        <5>1. proc.stage \notin {"Report", "Checksums"}
          <6>1. i # 13 /\ i # 14 /\ i \in 1 .. 15 /\ 13 \in 1 .. 15 /\ 14 \in 1 .. 15
            OBVIOUS
          <6> QED
            BY <4>3, <6>1, Distinct, OrderedIs
        <5>2. PICK k \in 1 .. 15 : /\ proc.stage = Ordered[k]
                                   /\ \A m \in 1 .. 15 : m < k => state.done[Ordered[m]] # "no"
          BY <1>a, <3>2, <5>1, UnderWay
        <5>3. k = i
          BY <4>3, <5>2, Distinct
        <5>4. state.done[Ordered[j]] # "no"
          BY <3>5, <5>2, <5>3
        <5> QED
          BY <3>2, <3>3, <4>1, <5>4
      <4> QED
        BY <3>2, <3>3, <3>5, <4>1, <4>2, <4>3
    <3> QED
      BY <3>1, <3>4, <3>5 DEF StageInv
  <2> QED
    BY <1>4, <2>1, <2>2, <2>3, <2>4, <2>5, <2>6, <2>7, <2>8 DEF Controller
<1>5. CASE Stages
  <2>1. CASE UNCHANGED state /\ proc'.at = "stage" /\ proc'.stage = proc.stage
    <3>1. proc.at = "stage"
      BY <1>a, <1>5, StagesFrame
    <3> QED
      BY <1>a, <1>1, <2>1, <3>1 DEF StageInv
  <2>2. CASE Fail
    BY <1>a, <1>2, <2>2, FailIs
  <2> QED
    BY <1>a, <1>5, <2>1, <2>2, StagesFrame
<1>6. CASE Crash
  BY <1>1, <1>6, ExitIs DEF Crash, Down
<1>7. CASE Checkpointing \/ Measuring \/ Breaking \/ Serving \/ Resting
  BY <1>3, <1>7 DEF Checkpointing, Measuring, Breaking, Serving, Resting
<1> QED
  BY <1>a, <1>4, <1>5, <1>6, <1>7, NextIs

LEMMA ActivateSteps ==
    ASSUME NEW next, Activate(next) \/ ActivationWaits(next)
    PROVE  Step(next) \/ Step("activate")
BY DEF Activate, ActivationWaits

LEMMA StepStays ==
    ASSUME RunInv, WorldTypes', RunTypes', CallTypes', [Next]_vars
    PROVE  StepInv'
<1>a. /\ StepInv /\ RunTypes /\ WorldTypes /\ proc \in ProcRecord /\ proc' \in ProcRecord
  BY DEF RunInv, RunTypes
<1>b. mode' \in {"Correctness", "Isolated"}
  BY DEF WorldTypes
<1>1. ASSUME proc'.at # "stage", proc'.step = "none" PROVE StepInv'
  BY <1>1 DEF StepInv
<1>2. ASSUME UNCHANGED <<mode, proc>> PROVE StepInv'
  BY <1>a, <1>2 DEF StepInv
<1>3. CASE Controller
  <2>1. CASE Create \/ SetPlan \/ ResumeRun \/ End
    BY <1>1, <2>1 DEF Create, SetPlan, ResumeRun, End, AtBoundary, Down
  <2>2. CASE ArchiveUnplanned
    BY <1>2, <2>2 DEF ArchiveUnplanned, worldVars, sourceVars
  <2>3. CASE Begin
    <3>1. proc'.at = "stage" /\ proc'.step = "body" /\ proc'.rates # <<>>
      <4> DEFINE rates == CASE NextStage = "RateSearch" -> SearchRates
                            [] NextStage = "Cdc300" -> <<300>>
                            [] NextStage = "Cdc1000" -> <<1000>>
                            [] OTHER -> <<0>>
      <4>1. rates # <<>>
        BY SearchRatesAssumption
      <4>2. proc'.at = "stage" /\ proc'.step = "body" /\ proc'.rates = rates
        BY <2>3 DEF Begin, AtBoundary, Down
      <4> QED
        BY <4>1, <4>2
    <3> QED
      BY <3>1 DEF StepInv
  <2>4. CASE ExitFailed
    BY <1>1, <2>4, ExitIs DEF ExitFailed, Down
  <2>5. ASSUME NEW valid \in BOOLEAN, Complete(valid) PROVE StepInv'
    BY <1>1, <2>5, ExitIs DEF Complete, AtBoundary, Down
  <2> QED
    BY <1>3, <2>1, <2>2, <2>3, <2>4, <2>5 DEF Controller
<1>4. CASE Stages
  <2>a. /\ proc.at = "stage" /\ mode' = mode
        /\ \/ proc'.at = "stage" /\ proc'.stage = proc.stage
           \/ Fail
    BY <1>a, <1>4, StagesFrame
  <2>b. CASE Fail
    BY <1>a, <1>1, <2>b, FailIs
  <2>1. CASE Preflight
    BY <1>a, <2>a, <2>b, <2>1 DEF Preflight, Doing, Replaying, Step, Finish, StepInv, ProcRecord
  <2>2. CASE Seeded
    BY <1>a, <2>a, <2>b, <2>2 DEF Seeded, Doing, Replaying, Step, Finish, StepInv, ProcRecord
  <2>3. CASE LoadSeed
    BY <1>a, <2>a, <2>b, <2>3 DEF LoadSeed, Doing, Replaying, Step, Finish, StepInv, ProcRecord
  <2>4. CASE WriteManifest
    BY <1>a, <2>a, <2>b, <2>4 DEF WriteManifest, Doing, Replaying, Step, Finish, StepInv, ProcRecord
  <2>5. CASE BackUp
    BY <1>a, <2>a, <2>b, <2>5 DEF BackUp, Doing, Replaying, Step, Finish, StepInv, ProcRecord
  <2>6. CASE ChecksumBaseline
    BY <1>a, <2>a, <2>b, <2>6 DEF ChecksumBaseline, Doing, Replaying, Step, Finish, StepInv, ProcRecord
  <2>7. CASE VerifyBaseline
    BY <1>a, <2>a, <2>b, <2>7 DEF VerifyBaseline, Doing, Replaying, Step, Finish, StepInv, ProcRecord
  <2>8. CASE BaselineRefused
    BY <1>a, <2>a, <2>b, <2>8 DEF BaselineRefused, Doing, Replaying, Step, Finish, StepInv, ProcRecord
  <2>9. CASE RestoreRefused
    BY <1>a, <2>a, <2>b, <2>9 DEF RestoreRefused, Doing, Replaying, Step, Finish, StepInv, ProcRecord
  <2>10. CASE Restore
    BY <1>a, <2>a, <2>b, <2>10 DEF Restore, Doing, Replaying, Step, Finish, StepInv, ProcRecord
  <2>11. CASE StartReplays
    BY <1>a, <2>a, <2>b, <2>11 DEF StartReplays, Doing, Replaying, Step, Finish, StepInv, ProcRecord
  <2>12. ASSUME NEW e \in Engine, ReplayTransaction(e) PROVE StepInv'
    BY <1>a, <2>a, <2>b, <2>12 DEF ReplayTransaction, Doing, Replaying, Step, Finish, StepInv, ProcRecord
  <2>13. ASSUME NEW e \in Engine, PushReplayed(e) PROVE StepInv'
    BY <1>a, <2>a, <2>b, <2>13 DEF PushReplayed, Doing, Replaying, Step, Finish, StepInv, ProcRecord
  <2>14. ASSUME NEW e \in Engine, Replayed(e) PROVE StepInv'
    BY <1>a, <2>a, <2>b, <2>14 DEF Replayed, Doing, Replaying, Step, Finish, StepInv, ProcRecord
  <2>15. CASE ValidateReplays
    BY <1>a, <2>a, <2>b, <2>15 DEF ValidateReplays, Doing, Replaying, Step, Finish, StepInv, ProcRecord
  <2>16. CASE Bootstrap
    <3>1. /\ proc.stage = "Bootstrap"
          /\ \/ Finish(TRUE)
             \/ Step("follow") /\ mode = "Correctness"
      BY <1>b, <2>a, <2>16 DEF Bootstrap, Doing
    <3> QED
      BY <1>a, <2>a, <2>b, <3>1 DEF Finish, Step, StepInv, ProcRecord
  <2>17. CASE StartCdc
    BY <1>a, <2>a, <2>b, <2>17 DEF StartCdc, Doing, Replaying, Step, Finish, StepInv, ProcRecord
  <2>18. CASE NextCheck
    <3>1. /\ proc.stage \in Checks
          /\ \/ Step("check") /\ mode = "Isolated"
             \/ Step("activate") /\ mode = "Isolated"
             \/ Step("checking")
      BY <2>18, ActivateSteps DEF NextCheck
    <3> QED
      BY <1>a, <2>a, <2>b, <3>1 DEF Step, StepInv, ProcRecord
  <2>19. CASE Checked
    BY <1>a, <2>a, <2>b, <2>19 DEF Checked, Doing, Replaying, Step, Finish, StepInv, ProcRecord
  <2>20. CASE RecordCheck
    BY <1>a, <2>a, <2>b, <2>20 DEF RecordCheck, Doing, Replaying, Step, Finish, StepInv, ProcRecord
  <2>21. CASE NextWindow
    <3>1. /\ proc.stage \in Timed
          /\ \/ Step("window") /\ mode = "Isolated"
             \/ Step("activate") /\ mode = "Isolated"
             \/ Step("measuring")
      BY <2>21, ActivateSteps DEF NextWindow
    <3> QED
      BY <1>a, <2>a, <2>b, <3>1 DEF Step, StepInv, ProcRecord
  <2>22. CASE Measured
    <3>1. \/ Fail
          \/ Finish(FALSE) \/ Finish(TRUE)
          \/ proc' = [proc EXCEPT !.step = "body", !.todo = Tail(@)]
          \/ /\ Len(proc.rates) > 1
             /\ proc' = [proc EXCEPT !.step = "body", !.rates = Tail(@),
                                     !.todo = IF mode = "Isolated" THEN Both ELSE <<>>]
      BY <2>22 DEF Measured
    <3>2. CASE Finish(FALSE) \/ Finish(TRUE)
      BY <1>a, <2>a, <2>b, <3>2 DEF Finish, StepInv, ProcRecord
    <3>3. CASE proc' = [proc EXCEPT !.step = "body", !.todo = Tail(@)]
      BY <1>a, <2>a, <2>b, <3>3 DEF StepInv, ProcRecord
    <3>4. CASE /\ Len(proc.rates) > 1
               /\ proc' = [proc EXCEPT !.step = "body", !.rates = Tail(@),
                                       !.todo = IF mode = "Isolated" THEN Both ELSE <<>>]
      <4>1. proc.rates \in Seq(Nat)
        BY <1>a DEF ProcRecord
      <4>2. Tail(proc.rates) # <<>>
        BY <3>4, <4>1, TailStays
      <4>3. proc'.rates = Tail(proc.rates) /\ proc'.step = "body"
        BY <1>a, <3>4 DEF ProcRecord
      <4> QED
        BY <1>a, <2>a, <2>b, <4>2, <4>3 DEF StepInv
    <3> QED
      BY <2>b, <3>1, <3>2, <3>3, <3>4
  <2>23. CASE BreakThings
    <3>1. /\ proc.stage = "FailureSequence"
          /\ \/ Finish(TRUE)
             \/ Step("breaking") /\ mode = "Correctness"
      BY <1>b, <2>a, <2>23 DEF BreakThings, Doing
    <3> QED
      BY <1>a, <2>a, <2>b, <3>1 DEF Finish, Step, StepInv, ProcRecord
  <2>24. CASE Broken
    BY <1>a, <2>a, <2>b, <2>24 DEF Broken, Doing, Replaying, Step, Finish, StepInv, ProcRecord
  <2>25. CASE Report
    BY <1>a, <2>a, <2>b, <2>25 DEF Report, Doing, Replaying, Step, Finish, StepInv, ProcRecord
  <2>26. CASE Checksums
    BY <1>a, <2>a, <2>b, <2>26 DEF Checksums, Doing, Replaying, Step, Finish, StepInv, ProcRecord
  <2>27. CASE CompleteRun
    BY <1>a, <2>a, <2>b, <2>27 DEF CompleteRun, Doing, Replaying, Step, Finish, StepInv, ProcRecord
  <2>28. CASE StageFails
    BY <1>a, <2>a, <2>b, <2>28 DEF StageFails, Doing, Replaying, Step, Finish, StepInv, ProcRecord
  <2> QED
    BY <1>4, <2>1, <2>2, <2>3, <2>4, <2>5, <2>6, <2>7, <2>8, <2>9, <2>10, <2>11, <2>12, <2>13, <2>14, <2>15, <2>16, <2>17, <2>18, <2>19, <2>20, <2>21, <2>22, <2>23, <2>24, <2>25, <2>26, <2>27, <2>28 DEF Stages
<1>5. CASE Crash
  BY <1>1, <1>5, ExitIs DEF Crash, Down
<1>6. CASE Checkpointing \/ Measuring \/ Breaking \/ Serving \/ Resting
  BY <1>2, <1>6 DEF Checkpointing, Measuring, Breaking, Serving, Resting
<1> QED
  BY <1>a, <1>3, <1>4, <1>5, <1>6, NextIs

LEMMA TurnStays ==
    ASSUME RunInv, WorldTypes', RunTypes', CallTypes', [Next]_vars
    PROVE  TurnInv'
<1>a. /\ StepInv /\ TurnInv /\ RunTypes /\ WorldTypes /\ proc \in ProcRecord /\ proc' \in ProcRecord
      /\ proc.todo \in Seq(Engine)
  BY DEF RunInv, RunTypes, ProcRecord
<1>1. ASSUME mode' = mode, active' = active \/ active' = None, proc'.step \notin Turns
      PROVE  TurnInv'
  BY <1>a, <1>1 DEF TurnInv
<1>2. ASSUME UNCHANGED <<mode, active, proc>> PROVE TurnInv'
  BY <1>a, <1>2 DEF TurnInv
<1>3. CASE Controller
  <2>1. CASE Create \/ SetPlan \/ ResumeRun \/ End
    BY <1>1, <2>1 DEF Create, SetPlan, ResumeRun, End, AtBoundary, Down, Turns, worldVars,
       sourceVars, heldVars
  <2>2. CASE ArchiveUnplanned
    BY <1>2, <2>2 DEF ArchiveUnplanned, worldVars, sourceVars, heldVars
  <2>3. CASE Begin
    <3>1. UNCHANGED <<mode, active>>
      BY <2>3 DEF Begin, worldVars, sourceVars, heldVars
    <3>2. proc'.step = "body" /\ (mode = "Isolated" => proc'.todo = Both)
      BY <2>3 DEF Begin, AtBoundary, Down
    <3> QED
      BY <1>a, <3>1, <3>2, Engines DEF TurnInv
  <2>4. CASE ExitFailed
    BY <1>1, <2>4, ExitIs DEF ExitFailed, Down, Turns, sourceVars
  <2>5. ASSUME NEW valid \in BOOLEAN, Complete(valid) PROVE TurnInv'
    BY <1>1, <2>5, ExitIs DEF Complete, AtBoundary, Down, Turns, sourceVars, heldVars
  <2> QED
    BY <1>3, <2>1, <2>2, <2>3, <2>4, <2>5 DEF Controller
<1>4. CASE Stages
  <2>a. /\ proc.at = "stage" /\ mode' = mode
        /\ \/ proc'.at = "stage" /\ proc'.stage = proc.stage
           \/ Fail
    BY <1>a, <1>4, StagesFrame
  <2>b. CASE Fail
    BY <1>a, <1>1, <2>a, <2>b, FailIs DEF Turns
  <2>c. ASSUME active' = active, proc'.step \notin Turns PROVE TurnInv'
    BY <1>1, <2>a, <2>c
  <2>1. CASE Preflight
    BY <1>a, <2>a, <2>b, <2>c, <2>1 DEF Preflight, Doing, Replaying, Step, Finish, ProcRecord, Turns, worldVars, heldVars
  <2>2. CASE Seeded
    BY <1>a, <2>a, <2>b, <2>c, <2>2 DEF Seeded, Doing, Replaying, Step, Finish, ProcRecord, Turns, worldVars, heldVars
  <2>3. CASE LoadSeed
    BY <1>a, <2>a, <2>b, <2>c, <2>3 DEF LoadSeed, Doing, Replaying, Step, Finish, ProcRecord, Turns, worldVars, heldVars
  <2>4. CASE WriteManifest
    BY <1>a, <2>a, <2>b, <2>c, <2>4 DEF WriteManifest, Doing, Replaying, Step, Finish, ProcRecord, Turns, worldVars, heldVars
  <2>5. CASE BackUp
    BY <1>a, <2>a, <2>b, <2>c, <2>5 DEF BackUp, Doing, Replaying, Step, Finish, ProcRecord, Turns, worldVars, heldVars
  <2>6. CASE ChecksumBaseline
    BY <1>a, <2>a, <2>b, <2>c, <2>6 DEF ChecksumBaseline, Doing, Replaying, Step, Finish, ProcRecord, Turns, worldVars, heldVars
  <2>7. CASE VerifyBaseline
    BY <1>a, <2>a, <2>b, <2>c, <2>7 DEF VerifyBaseline, Doing, Replaying, Step, Finish, ProcRecord, Turns, worldVars, heldVars
  <2>8. CASE BaselineRefused
    BY <1>a, <2>a, <2>b, <2>c, <2>8 DEF BaselineRefused, Doing, Replaying, Step, Finish, ProcRecord, Turns, worldVars, heldVars
  <2>9. CASE RestoreRefused
    BY <1>a, <2>a, <2>b, <2>c, <2>9 DEF RestoreRefused, Doing, Replaying, Step, Finish, ProcRecord, Turns, worldVars, heldVars
  <2>10. CASE Restore
    BY <1>a, <2>a, <2>b, <2>c, <2>10 DEF Restore, Doing, Replaying, Step, Finish, ProcRecord, Turns, worldVars, heldVars
  <2>11. CASE StartReplays
    BY <1>a, <2>a, <2>b, <2>c, <2>11 DEF StartReplays, Doing, Replaying, Step, Finish, ProcRecord, Turns, worldVars, heldVars
  <2>12. ASSUME NEW e \in Engine, ReplayTransaction(e) PROVE TurnInv'
    BY <1>a, <2>a, <2>b, <2>c, <2>12 DEF ReplayTransaction, Doing, Replaying, Step, Finish, ProcRecord, Turns, worldVars, heldVars
  <2>13. ASSUME NEW e \in Engine, PushReplayed(e) PROVE TurnInv'
    BY <1>a, <2>a, <2>b, <2>c, <2>13 DEF PushReplayed, Doing, Replaying, Step, Finish, ProcRecord, Turns, worldVars, heldVars
  <2>14. ASSUME NEW e \in Engine, Replayed(e) PROVE TurnInv'
    BY <1>a, <2>a, <2>b, <2>c, <2>14 DEF Replayed, Doing, Replaying, Step, Finish, ProcRecord, Turns, worldVars, heldVars
  <2>15. CASE ValidateReplays
    BY <1>a, <2>a, <2>b, <2>c, <2>15 DEF ValidateReplays, Doing, Replaying, Step, Finish, ProcRecord, Turns, worldVars, heldVars
  <2>16. CASE Bootstrap
    BY <1>a, <2>a, <2>b, <2>c, <2>16 DEF Bootstrap, Doing, Replaying, Step, Finish, ProcRecord, Turns, worldVars, heldVars
  <2>17. CASE StartCdc
    BY <1>a, <2>a, <2>b, <2>c, <2>17 DEF StartCdc, Doing, Replaying, Step, Finish, ProcRecord, Turns, worldVars, heldVars
  <2>18. CASE NextCheck
    <3>0. proc.stage \in Checks
      BY <2>18 DEF NextCheck
    <3>1. CASE mode = "Isolated" /\ proc.step = "body" /\ Activate("check")
      <4>1. proc.todo # <<>> /\ "check" \in Steps
        BY <1>a, <3>0, <3>1 DEF TurnInv, Turns, Steps
      <4>2. active' \in Engine /\ (Step("check") \/ Step("activate"))
        BY <1>a, <3>1, <4>1, ActivateIs
      <4>3. proc'.todo = proc.todo
        BY <1>a, <4>2 DEF Step, ProcRecord
      <4> QED
        BY <2>a, <3>1, <4>1, <4>2, <4>3, Engines DEF TurnInv
    <3>2. CASE active' = active /\ mode = "Isolated" /\ ActivationWaits("check")
      <4>1. proc'.todo = proc.todo /\ proc'.step = "check" /\ proc.step = "activate"
        BY <1>a, <3>2 DEF ActivationWaits, Step, ProcRecord
      <4> QED
        BY <1>a, <2>a, <2>b, <3>2, <4>1 DEF TurnInv, Turns
    <3>3. CASE /\ active' = active
               /\ \/ mode = "Isolated" /\ proc.step = "check" /\ Step("checking")
                  \/ mode = "Correctness" /\ Step("checking")
      <4>1. proc'.todo = proc.todo /\ proc'.step = "checking"
        BY <1>a, <3>3 DEF Step, ProcRecord
      <4> QED
        BY <1>a, <2>a, <2>b, <3>3, <4>1 DEF TurnInv, Turns
    <3> QED
      BY <2>18, <3>1, <3>2, <3>3 DEF NextCheck
  <2>19. CASE Checked
    <3>1. CASE ~cp.err
      <4>1. /\ active' = active
            /\ proc'.step = IF Len(proc.todo) > 1 THEN "body" ELSE "record"
            /\ proc'.todo = IF proc.todo = <<>> THEN proc.todo ELSE Tail(proc.todo)
        BY <1>a, <2>19, <3>1 DEF Checked, ProcRecord, heldVars
      <4>2. CASE Len(proc.todo) > 1
        <5>1. proc'.step = "body" /\ proc'.todo = Tail(proc.todo)
          BY <1>a, <4>1, <4>2
        <5>2. Tail(proc.todo) # <<>>
          BY <1>a, <4>2, TailStays
        <5> QED
          BY <1>a, <2>a, <4>1, <5>1, <5>2 DEF TurnInv
      <4>3. CASE ~(Len(proc.todo) > 1)
        BY <2>c, <4>1, <4>3 DEF Turns
      <4> QED
        BY <4>2, <4>3
    <3> QED
      BY <2>b, <2>19, <3>1 DEF Checked
  <2>20. CASE RecordCheck
    BY <1>a, <2>a, <2>b, <2>c, <2>20 DEF RecordCheck, Doing, Replaying, Step, Finish, ProcRecord, Turns, worldVars, heldVars
  <2>21. CASE NextWindow
    <3>0. proc.stage \in Timed
      BY <2>21 DEF NextWindow
    <3>1. CASE mode = "Isolated" /\ proc.step = "body" /\ Activate("window")
      <4>1. proc.todo # <<>> /\ "window" \in Steps
        BY <1>a, <3>0, <3>1 DEF TurnInv, Turns, Steps
      <4>2. active' \in Engine /\ (Step("window") \/ Step("activate"))
        BY <1>a, <3>1, <4>1, ActivateIs
      <4>3. proc'.todo = proc.todo
        BY <1>a, <4>2 DEF Step, ProcRecord
      <4> QED
        BY <2>a, <3>1, <4>1, <4>2, <4>3, Engines DEF TurnInv
    <3>2. CASE active' = active /\ mode = "Isolated" /\ ActivationWaits("window")
      <4>1. proc'.todo = proc.todo /\ proc'.step = "window" /\ proc.step = "activate"
        BY <1>a, <3>2 DEF ActivationWaits, Step, ProcRecord
      <4> QED
        BY <1>a, <2>a, <2>b, <3>2, <4>1 DEF TurnInv, Turns
    <3>3. CASE /\ active' = active
               /\ \/ mode = "Isolated" /\ proc.step = "window" /\ Step("measuring")
                  \/ mode = "Correctness" /\ Step("measuring")
      <4>1. proc'.todo = proc.todo /\ proc'.step = "measuring"
        BY <1>a, <3>3 DEF Step, ProcRecord
      <4> QED
        BY <1>a, <2>a, <2>b, <3>3, <4>1 DEF TurnInv, Turns
    <3> QED
      BY <2>21, <3>1, <3>2, <3>3 DEF NextWindow
  <2>22. CASE Measured
    <3>1. CASE ~win.err
      <4>0. active' = active
        BY <2>22, <3>1 DEF Measured, heldVars
      <4>1. CASE Finish(FALSE) \/ Finish(TRUE)
        BY <1>a, <2>c, <4>0, <4>1 DEF Finish, ProcRecord, Turns
      <4>2. CASE Len(proc.todo) > 1 /\ proc' = [proc EXCEPT !.step = "body", !.todo = Tail(@)]
        <5>1. proc'.step = "body" /\ proc'.todo = Tail(proc.todo)
          BY <1>a, <4>2 DEF ProcRecord
        <5>2. Tail(proc.todo) # <<>>
          BY <1>a, <4>2, TailStays
        <5> QED
          BY <1>a, <2>a, <4>0, <5>1, <5>2 DEF TurnInv
      <4>3. CASE proc' = [proc EXCEPT !.step = "body", !.rates = Tail(@),
                                      !.todo = IF mode = "Isolated" THEN Both ELSE <<>>]
        <5>1. proc'.step = "body" /\ (mode = "Isolated" => proc'.todo = Both)
          BY <1>a, <4>3 DEF ProcRecord
        <5> QED
          BY <1>a, <2>a, <4>0, <5>1, Engines DEF TurnInv
      <4> QED
        BY <2>22, <3>1, <4>1, <4>2, <4>3 DEF Measured
    <3> QED
      BY <2>b, <2>22, <3>1 DEF Measured
  <2>23. CASE BreakThings
    BY <1>a, <2>a, <2>b, <2>c, <2>23 DEF BreakThings, Doing, Replaying, Step, Finish, ProcRecord, Turns, worldVars, heldVars
  <2>24. CASE Broken
    BY <1>a, <2>a, <2>b, <2>c, <2>24 DEF Broken, Doing, Replaying, Step, Finish, ProcRecord, Turns, worldVars, heldVars
  <2>25. CASE Report
    BY <1>a, <2>a, <2>b, <2>c, <2>25 DEF Report, Doing, Replaying, Step, Finish, ProcRecord, Turns, worldVars, heldVars
  <2>26. CASE Checksums
    BY <1>a, <2>a, <2>b, <2>c, <2>26 DEF Checksums, Doing, Replaying, Step, Finish, ProcRecord, Turns, worldVars, heldVars
  <2>27. CASE CompleteRun
    BY <1>a, <2>a, <2>b, <2>c, <2>27 DEF CompleteRun, Doing, Replaying, Step, Finish, ProcRecord, Turns, worldVars, heldVars
  <2>28. CASE StageFails
    BY <1>a, <2>a, <2>b, <2>c, <2>28 DEF StageFails, Doing, Replaying, Step, Finish, ProcRecord, Turns, worldVars, heldVars
  <2> QED
    BY <1>4, <2>1, <2>2, <2>3, <2>4, <2>5, <2>6, <2>7, <2>8, <2>9, <2>10, <2>11, <2>12, <2>13, <2>14, <2>15, <2>16, <2>17, <2>18, <2>19, <2>20, <2>21, <2>22, <2>23, <2>24, <2>25, <2>26, <2>27, <2>28 DEF Stages
<1>5. CASE Crash
  BY <1>1, <1>5, ExitIs DEF Crash, Down, Turns, sourceVars
<1>6. CASE Checkpointing \/ Measuring \/ Breaking \/ Serving \/ Resting
  BY <1>2, <1>6 DEF Checkpointing, Measuring, Breaking, Serving, Resting
<1> QED
  BY <1>a, <1>3, <1>4, <1>5, <1>6, NextIs

LEMMA CallStays ==
    ASSUME RunInv, WorldTypes', RunTypes', CallTypes', [Next]_vars
    PROVE  CallInv'
<1>a. /\ CallInv /\ StepInv /\ RunTypes /\ WorldTypes /\ proc \in ProcRecord
      /\ proc' \in ProcRecord /\ fs \in FsRecord
  BY DEF RunInv, RunTypes, CallTypes
<1>b. NoCheckpoint.at = "idle" /\ NoWindow.at = "idle" /\ NoFailure.at = "idle"
  BY DEF NoCheckpoint, NoWindow, NoFailure
<1>1. ASSUME cp'.at = "idle", win'.at = "idle", fs'.at = "idle" PROVE CallInv'
  BY <1>1 DEF CallInv
<1>2. ASSUME UNCHANGED <<proc, cp, win, fs>> PROVE CallInv'
  BY <1>a, <1>2 DEF CallInv
<1>c. proc.step \notin {"checking", "measuring", "breaking"} /\ proc.at # "failed" =>
        cp.at = "idle" /\ win.at = "idle" /\ fs.at = "idle"
  BY <1>a DEF CallInv
<1>3. CASE Controller
  <2>1. CASE Create \/ SetPlan \/ ResumeRun \/ End \/ ArchiveUnplanned \/ Begin
    <3>1. proc.at \in {"down", "created", "next"} /\ UNCHANGED <<cp, win, fs>>
      BY <2>1 DEF Create, SetPlan, ResumeRun, End, ArchiveUnplanned, Begin, callVars
    <3>2. proc.step = "none"
      BY <1>a, <3>1 DEF StepInv
    <3> QED
      BY <1>1, <1>c, <3>1, <3>2
  <2>2. CASE ExitFailed
    BY <1>1, <1>b, <2>2, ExitIs DEF ExitFailed
  <2>3. ASSUME NEW valid \in BOOLEAN, Complete(valid) PROVE CallInv'
    BY <1>1, <1>b, <1>c, <2>3, ExitIs DEF Complete, callVars
  <2> QED
    BY <1>3, <2>1, <2>2, <2>3 DEF Controller
<1>4. CASE Stages
  <2>a. proc.at = "stage"
    BY <1>a, <1>4, StagesFrame
  <2>b. CASE Fail
    BY <1>a, <2>b, FailIs DEF CallInv
  <2>1. CASE Preflight
    BY <1>1, <1>c, <2>a, <2>b, <2>1 DEF Preflight, Doing, Replaying, callVars
  <2>2. CASE Seeded
    BY <1>1, <1>c, <2>a, <2>b, <2>2 DEF Seeded, Doing, Replaying, callVars
  <2>3. CASE LoadSeed
    BY <1>1, <1>c, <2>a, <2>b, <2>3 DEF LoadSeed, Doing, Replaying, callVars
  <2>4. CASE WriteManifest
    BY <1>1, <1>c, <2>a, <2>b, <2>4 DEF WriteManifest, Doing, Replaying, callVars
  <2>5. CASE BackUp
    BY <1>1, <1>c, <2>a, <2>b, <2>5 DEF BackUp, Doing, Replaying, callVars
  <2>6. CASE ChecksumBaseline
    BY <1>1, <1>c, <2>a, <2>b, <2>6 DEF ChecksumBaseline, Doing, Replaying, callVars
  <2>7. CASE VerifyBaseline
    BY <1>1, <1>c, <2>a, <2>b, <2>7 DEF VerifyBaseline, Doing, Replaying, callVars
  <2>8. CASE BaselineRefused
    BY <1>1, <1>c, <2>a, <2>b, <2>8 DEF BaselineRefused, Doing, Replaying, callVars
  <2>9. CASE RestoreRefused
    BY <1>1, <1>c, <2>a, <2>b, <2>9 DEF RestoreRefused, Doing, Replaying, callVars
  <2>10. CASE Restore
    BY <1>1, <1>c, <2>a, <2>b, <2>10 DEF Restore, Doing, Replaying, callVars
  <2>11. CASE StartReplays
    BY <1>1, <1>c, <2>a, <2>b, <2>11 DEF StartReplays, Doing, Replaying, callVars
  <2>12. ASSUME NEW e \in Engine, ReplayTransaction(e) PROVE CallInv'
    BY <1>1, <1>c, <2>a, <2>b, <2>12 DEF ReplayTransaction, Doing, Replaying, callVars
  <2>13. ASSUME NEW e \in Engine, PushReplayed(e) PROVE CallInv'
    BY <1>1, <1>c, <2>a, <2>b, <2>13 DEF PushReplayed, Doing, Replaying, callVars
  <2>14. ASSUME NEW e \in Engine, Replayed(e) PROVE CallInv'
    BY <1>1, <1>c, <2>a, <2>b, <2>14 DEF Replayed, Doing, Replaying, callVars
  <2>15. CASE ValidateReplays
    BY <1>1, <1>c, <2>a, <2>b, <2>15 DEF ValidateReplays, Doing, Replaying, callVars
  <2>16. CASE Bootstrap
    BY <1>1, <1>c, <2>a, <2>b, <2>16 DEF Bootstrap, Doing, Replaying, callVars
  <2>17. CASE StartCdc
    BY <1>1, <1>c, <2>a, <2>b, <2>17 DEF StartCdc, Doing, Replaying, callVars
  <2>18. CASE NextCheck
    <3>1. CASE UNCHANGED cp
      BY <1>1, <1>c, <2>a, <2>18, <3>1 DEF NextCheck, ActivationWaits
    <3>2. CASE Step("checking") /\ proc.step \in {"check", "body"}
      <4>1. win'.at = "idle" /\ fs'.at = "idle" /\ proc'.step = "checking"
        BY <1>a, <1>c, <2>a, <2>18, <3>2 DEF NextCheck, Step, ProcRecord
      <4> QED
        BY <4>1 DEF CallInv
    <3> QED
      BY <2>18, <3>1, <3>2 DEF NextCheck
  <2>19. CASE Checked
    <3>1. CASE ~cp.err
      <4>1. cp' = NoCheckpoint /\ UNCHANGED <<win, fs>> /\ proc.step = "checking"
        BY <2>19, <3>1 DEF Checked
      <4> QED
        BY <1>1, <1>a, <1>b, <2>a, <4>1 DEF CallInv
    <3> QED
      BY <2>b, <2>19, <3>1 DEF Checked
  <2>20. CASE RecordCheck
    BY <1>1, <1>c, <2>a, <2>b, <2>20 DEF RecordCheck, Doing, Replaying, callVars
  <2>21. CASE NextWindow
    <3>1. CASE UNCHANGED win
      BY <1>1, <1>c, <2>a, <2>21, <3>1 DEF NextWindow, ActivationWaits
    <3>2. CASE Step("measuring") /\ proc.step \in {"window", "body"}
      <4>1. cp'.at = "idle" /\ fs'.at = "idle" /\ proc'.step = "measuring"
        BY <1>a, <1>c, <2>a, <2>21, <3>2 DEF NextWindow, Step, ProcRecord
      <4> QED
        BY <4>1 DEF CallInv
    <3> QED
      BY <2>21, <3>1, <3>2 DEF NextWindow
  <2>22. CASE Measured
    <3>1. CASE ~win.err
      <4>1. win' = NoWindow /\ UNCHANGED <<cp, fs>> /\ proc.step = "measuring"
        BY <2>22, <3>1 DEF Measured
      <4> QED
        BY <1>1, <1>a, <1>b, <2>a, <4>1 DEF CallInv
    <3> QED
      BY <2>b, <2>22, <3>1 DEF Measured
  <2>23. CASE BreakThings
    <3>1. CASE UNCHANGED fs
      BY <1>1, <1>c, <2>a, <2>23, <3>1 DEF BreakThings, Doing
    <3>2. CASE Step("breaking")
      <4>1. cp'.at = "idle" /\ win'.at = "idle" /\ proc'.step = "breaking"
        BY <1>a, <1>c, <2>a, <2>23, <3>2 DEF BreakThings, Doing, Step, ProcRecord
      <4> QED
        BY <4>1 DEF CallInv
    <3> QED
      BY <2>23, <3>1, <3>2 DEF BreakThings
  <2>24. CASE Broken
    <3>1. CASE fs' = NoFailure /\ UNCHANGED <<cp, win>>
      BY <1>1, <1>a, <1>b, <2>a, <2>24, <3>1 DEF CallInv, Broken, Doing
    <3> QED
      BY <2>b, <2>24, <3>1 DEF Broken
  <2>25. CASE Report
    BY <1>1, <1>c, <2>a, <2>b, <2>25 DEF Report, Doing, Replaying, callVars
  <2>26. CASE Checksums
    BY <1>1, <1>c, <2>a, <2>b, <2>26 DEF Checksums, Doing, Replaying, callVars
  <2>27. CASE CompleteRun
    BY <1>1, <1>c, <2>a, <2>b, <2>27 DEF CompleteRun, Doing, Replaying, callVars
  <2>28. CASE StageFails
    BY <1>1, <1>c, <2>a, <2>b, <2>28 DEF StageFails, Doing, Replaying, callVars
  <2> QED
    BY <1>4, <2>1, <2>2, <2>3, <2>4, <2>5, <2>6, <2>7, <2>8, <2>9, <2>10, <2>11, <2>12, <2>13, <2>14, <2>15, <2>16, <2>17, <2>18, <2>19, <2>20, <2>21, <2>22, <2>23, <2>24, <2>25, <2>26, <2>27, <2>28 DEF Stages
<1>5. CASE Crash
  BY <1>1, <1>b, <1>5, ExitIs DEF Crash
<1>6. CASE Checkpointing
  <2>1. cp.at # "idle"
    BY <1>6 DEF Checkpointing, CheckpointStep, Pause, Snapshot, ReadLsn, Resume, Raise, Raised,
       Compare, WaitTimesOut, Compared, CheckpointCallFails
  <2> QED
    BY <1>a, <1>6, <2>1 DEF Checkpointing, CallInv
<1>7. CASE Measuring
  <2>1. win.at # "idle"
    BY <1>7 DEF Measuring, WindowStep, SetRate, FreeSpaceTrips, ObserveRate, ObservationFails,
       RateStops, ChooseTarget, ScanGraydb, ProveGraydb, QueryClickhouse, QueryFails, EndRound,
       OutOfTime, Persist, WindowCallFails, StopRate, SampleDue
  <2> QED
    BY <1>a, <1>7, <2>1 DEF Measuring, CallInv
<1>8. CASE Breaking
  <2>1. fs.at # "idle"
    BY <1>8 DEF Breaking, FailureStep, Steady, RateHeld, RateMissed, StopEngine, StartEngine,
       Disconnect, Reconnect, HaltWriter, ResumeWriter, Aim, CaughtUp, NotCaughtUp, Validated,
       FailureCallFails, StopSequence
  <2>2. proc.step = "breaking" /\ proc'.step = "breaking" /\ win'.at = "idle"
    BY <1>a, <1>8, <2>1 DEF Breaking, CallInv
  <2>3. cp'.at # "idle" => fs'.at = "validate"
    <3>1. CASE CaughtUp
      BY <1>a, <3>1 DEF CaughtUp, FsRecord
    <3>2. CASE Validated
      BY <1>b, <3>2 DEF Validated
    <3>3. CASE ~CaughtUp /\ ~Validated
      <4>1. cp' = cp /\ fs.at # "validate"
        BY <1>8, <3>3 DEF Breaking, FailureStep, Steady, RateHeld, RateMissed, StopEngine,
           StartEngine, Disconnect, Reconnect, HaltWriter, ResumeWriter, Aim, NotCaughtUp,
           FailureCallFails, StopSequence
      <4> QED
        BY <1>a, <1>8, <2>2, <4>1 DEF Breaking, CallInv
    <3> QED
      BY <3>1, <3>2, <3>3
  <2> QED
    BY <2>2, <2>3 DEF CallInv
<1>9. CASE Serving \/ Resting
  BY <1>2, <1>9 DEF Serving, Resting
<1> QED
  BY <1>a, <1>3, <1>4, <1>5, <1>6, <1>7, <1>8, <1>9, NextIs

-----------------------------------------------------------------------------
(***************************************************************************)
(* The writer.                                                             *)
(***************************************************************************)
LEMMA StopIs ==
    ASSUME writer \in WriterRecord, StopWriter
    PROVE  writer'.rate = 0 /\ ~writer'.alive
BY DEF StopWriter, Parked, WriterRecord

LEMMA StartIs ==
    ASSUME writer \in WriterRecord, writer.alive => writer.rate # 0, NEW rate \in Nat \ {0},
           StartWriter(rate)
    PROVE  /\ writer'.alive => writer'.rate # 0
           /\ StartErr(rate) => writer'.rate = 0
<1>1. CASE writer.rate = rate
  BY <1>1 DEF StartWriter, StartErr
<1>2. CASE writer.rate # rate /\ StartErr(rate)
  BY <1>2 DEF StartWriter, Parked, WriterRecord
<1>3. CASE writer.rate # rate /\ ~StartErr(rate)
  BY <1>3 DEF StartWriter
<1> QED
  BY <1>1, <1>2, <1>3

\* Outside a call a stage's body leaves the writer's rate alone, and there is
\* no writer then.
LEMMA StagesWriter ==
    ASSUME WorldTypes, RunTypes, CallTypes, TurnInv, Stages
    PROVE  /\ writer'.rate = writer.rate /\ writer'.alive = writer.alive
           /\ proc.step = "measuring" => win.at = "done"
           /\ proc.step = "breaking" => fs.at = "done"
           /\ proc.step = "checking" => cp.at = "done"
           /\ proc.at = "stage" /\ proc.step # "outcome"
           /\ proc'.step = "checking" => cp'.rate = 0
<1> DEFINE Kept == /\ writer'.rate = writer.rate /\ writer'.alive = writer.alive
                   /\ proc.step = "measuring" => win.at = "done"
                   /\ proc.step = "breaking" => fs.at = "done"
                   /\ proc.step = "checking" => cp.at = "done"
                   /\ proc.at = "stage" /\ proc.step # "outcome"
                   /\ proc'.step = "checking" => cp'.rate = 0
<1>a. proc \in ProcRecord
  BY DEF RunTypes
<1>c. Fail => proc'.step = "none" /\ writer' = writer
  BY FailIs
<1>1. CASE Preflight
  BY <1>a, <1>c, <1>1 DEF Preflight, Doing, Replaying, Step, Finish, ProcRecord, worldVars, heldVars
<1>2. CASE Seeded
  BY <1>a, <1>c, <1>2 DEF Seeded, Doing, Replaying, Step, Finish, ProcRecord, worldVars, heldVars
<1>3. CASE LoadSeed
  BY <1>a, <1>c, <1>3 DEF LoadSeed, Doing, Replaying, Step, Finish, ProcRecord, worldVars, heldVars
<1>4. CASE WriteManifest
  BY <1>a, <1>c, <1>4 DEF WriteManifest, Doing, Replaying, Step, Finish, ProcRecord, worldVars, heldVars
<1>5. CASE BackUp
  BY <1>a, <1>c, <1>5 DEF BackUp, Doing, Replaying, Step, Finish, ProcRecord, worldVars, heldVars
<1>6. CASE ChecksumBaseline
  BY <1>a, <1>c, <1>6 DEF ChecksumBaseline, Doing, Replaying, Step, Finish, ProcRecord, worldVars, heldVars
<1>7. CASE VerifyBaseline
  BY <1>a, <1>c, <1>7 DEF VerifyBaseline, Doing, Replaying, Step, Finish, ProcRecord, worldVars, heldVars
<1>8. CASE BaselineRefused
  BY <1>a, <1>c, <1>8 DEF BaselineRefused, Doing, Replaying, Step, Finish, ProcRecord, worldVars, heldVars
<1>9. CASE RestoreRefused
  BY <1>a, <1>c, <1>9 DEF RestoreRefused, Doing, Replaying, Step, Finish, ProcRecord, worldVars, heldVars
<1>10. CASE Restore
  BY <1>a, <1>c, <1>10 DEF Restore, Doing, Replaying, Step, Finish, ProcRecord, worldVars, heldVars
<1>11. CASE StartReplays
  BY <1>a, <1>c, <1>11 DEF StartReplays, Doing, Replaying, Step, Finish, ProcRecord, worldVars, heldVars
<1>12. ASSUME NEW e \in Engine, ReplayTransaction(e) PROVE Kept
  BY <1>a, <1>c, <1>12 DEF ReplayTransaction, Doing, Replaying, Step, Finish, ProcRecord, worldVars, heldVars
<1>13. ASSUME NEW e \in Engine, PushReplayed(e) PROVE Kept
  BY <1>a, <1>c, <1>13 DEF PushReplayed, Doing, Replaying, Step, Finish, ProcRecord, worldVars, heldVars
<1>14. ASSUME NEW e \in Engine, Replayed(e) PROVE Kept
  BY <1>a, <1>c, <1>14 DEF Replayed, Doing, Replaying, Step, Finish, ProcRecord, worldVars, heldVars
<1>15. CASE ValidateReplays
  BY <1>a, <1>c, <1>15 DEF ValidateReplays, Doing, Replaying, Step, Finish, ProcRecord, worldVars, heldVars
<1>16. CASE Bootstrap
  BY <1>a, <1>c, <1>16 DEF Bootstrap, Doing, Replaying, Step, Finish, ProcRecord, worldVars, heldVars
<1>17. CASE StartCdc
  BY <1>a, <1>c, <1>17 DEF StartCdc, Doing, Replaying, Step, Finish, ProcRecord, worldVars, heldVars
<1>18. CASE NextCheck
  <2>0. proc.at = "stage" /\ proc.stage \in Checks
    BY <1>18 DEF NextCheck
  <2>1. CASE mode = "Isolated" /\ proc.step = "body" /\ Activate("check")
    <3>1. proc.todo # <<>> /\ "check" \in Steps
      BY <2>0, <2>1 DEF TurnInv, Turns, Steps
    <3>2. writer'.rate = writer.rate /\ writer'.alive = writer.alive /\ (Step("check") \/ Step("activate"))
      BY <2>1, <3>1, ActivateIs
    <3>3. proc'.step # "checking"
      BY <1>a, <3>2 DEF Step, ProcRecord
    <3> QED
      BY <2>0, <2>1, <3>2, <3>3
  <2>2. CASE UNCHANGED writer /\ ActivationWaits("check")
    BY <1>a, <2>0, <2>2 DEF ActivationWaits, Step, ProcRecord
  <2>3. CASE UNCHANGED writer /\ proc.step \in {"check", "body"} /\ Step("checking") /\ (CallCheckpoint(<<active>>) \/ CallCheckpoint(Both))
    BY <1>a, <2>0, <2>3 DEF Step, ProcRecord, CallCheckpoint, NoCheckpoint
  <2> QED
    BY <1>18, <2>1, <2>2, <2>3 DEF NextCheck
<1>19. CASE Checked
  <2>1. CASE ~cp.err
    <3>1. proc'.step = IF Len(proc.todo) > 1 THEN "body" ELSE "record"
      BY <1>a, <1>19, <2>1 DEF Checked, ProcRecord
    <3>2. proc'.step # "checking"
      BY <3>1
    <3> QED
      BY <1>19, <2>1, <3>2 DEF Checked, heldVars
  <2> QED
    BY <1>c, <1>19, <2>1 DEF Checked
<1>20. CASE RecordCheck
  BY <1>a, <1>c, <1>20 DEF RecordCheck, Doing, Replaying, Step, Finish, ProcRecord, worldVars, heldVars
<1>21. CASE NextWindow
  <2>0. proc.at = "stage" /\ proc.stage \in Timed
    BY <1>21 DEF NextWindow
  <2>1. CASE mode = "Isolated" /\ proc.step = "body" /\ Activate("window")
    <3>1. proc.todo # <<>> /\ "window" \in Steps
      BY <2>0, <2>1 DEF TurnInv, Turns, Steps
    <3>2. writer'.rate = writer.rate /\ writer'.alive = writer.alive /\ (Step("window") \/ Step("activate"))
      BY <2>1, <3>1, ActivateIs
    <3>3. proc'.step # "checking"
      BY <1>a, <3>2 DEF Step, ProcRecord
    <3> QED
      BY <2>0, <2>1, <3>2, <3>3
  <2>2. CASE UNCHANGED writer /\ ActivationWaits("window")
    BY <1>a, <2>0, <2>2 DEF ActivationWaits, Step, ProcRecord
  <2>3. CASE UNCHANGED writer /\ proc.step \in {"window", "body"} /\ Step("measuring")
    BY <1>a, <2>0, <2>3 DEF Step, ProcRecord
  <2> QED
    BY <1>21, <2>1, <2>2, <2>3 DEF NextWindow
<1>22. CASE Measured
  <2>1. CASE ~win.err
    <3>1. \/ Finish(FALSE) \/ Finish(TRUE)
          \/ proc' = [proc EXCEPT !.step = "body", !.todo = Tail(@)]
          \/ proc' = [proc EXCEPT !.step = "body", !.rates = Tail(@),
                                  !.todo = IF mode = "Isolated" THEN Both ELSE <<>>]
      BY <1>22, <2>1 DEF Measured
    <3>2. proc'.step # "checking"
      BY <1>a, <3>1 DEF Finish, ProcRecord
    <3> QED
      BY <1>22, <2>1, <3>2 DEF Measured, heldVars
  <2> QED
    BY <1>c, <1>22, <2>1 DEF Measured
<1>23. CASE BreakThings
  BY <1>a, <1>c, <1>23 DEF BreakThings, Doing, Replaying, Step, Finish, ProcRecord, worldVars, heldVars
<1>24. CASE Broken
  BY <1>a, <1>c, <1>24 DEF Broken, Doing, Replaying, Step, Finish, ProcRecord, worldVars, heldVars
<1>25. CASE Report
  BY <1>a, <1>c, <1>25 DEF Report, Doing, Replaying, Step, Finish, ProcRecord, worldVars, heldVars
<1>26. CASE Checksums
  BY <1>a, <1>c, <1>26 DEF Checksums, Doing, Replaying, Step, Finish, ProcRecord, worldVars, heldVars
<1>27. CASE CompleteRun
  BY <1>a, <1>c, <1>27 DEF CompleteRun, Doing, Replaying, Step, Finish, ProcRecord, worldVars, heldVars
<1>28. CASE StageFails
  BY <1>a, <1>c, <1>28 DEF StageFails, Doing, Replaying, Step, Finish, ProcRecord, worldVars, heldVars
<1> QED
  BY <1>1, <1>2, <1>3, <1>4, <1>5, <1>6, <1>7, <1>8, <1>9, <1>10, <1>11, <1>12, <1>13, <1>14, <1>15, <1>16, <1>17, <1>18, <1>19, <1>20, <1>21, <1>22, <1>23, <1>24, <1>25, <1>26, <1>27, <1>28 DEF Stages

LEMMA WriterStays ==
    ASSUME RunInv, WorldTypes', RunTypes', CallTypes', [Next]_vars
    PROVE  WriterInv'
<1>a. /\ WriterInv /\ CallInv /\ StepInv /\ TurnInv /\ RunTypes /\ WorldTypes /\ CallTypes
      /\ proc \in ProcRecord /\ proc' \in ProcRecord
      /\ writer \in WriterRecord /\ cp \in CpRecord /\ fs \in FsRecord /\ WinTyped(win)
  BY DEF RunInv, RunTypes, WorldTypes, CallTypes
<1>1. ASSUME writer'.rate = 0, ~writer'.alive, proc'.step # "checking" PROVE WriterInv'
  BY <1>1 DEF WriterInv
<1>2. ASSUME UNCHANGED <<writer, proc, cp, win, fs>> PROVE WriterInv'
  BY <1>a, <1>2 DEF WriterInv, Writing
<1>3. ~Writing => writer.rate = 0 /\ ~writer.alive
  BY <1>a DEF WriterInv
<1>n. NoWriter.rate = 0 /\ ~NoWriter.alive
  BY DEF NoWriter
<1>4. CASE Controller
  <2>1. CASE Create \/ SetPlan \/ ResumeRun \/ Begin
    <3>1. proc.at # "stage" /\ UNCHANGED writer /\ proc'.step \in {"none", "body"}
      BY <2>1 DEF Create, SetPlan, ResumeRun, Begin, AtBoundary, Down, worldVars, heldVars
    <3>2. ~Writing
      BY <1>a, <3>1 DEF StepInv, Writing
    <3> QED
      BY <1>1, <1>3, <3>1, <3>2
  <2>2. CASE ArchiveUnplanned
    BY <1>2, <2>2 DEF ArchiveUnplanned, worldVars, heldVars, callVars
  <2>3. CASE End
    BY <1>1, <1>n, <2>3 DEF End, Down
  <2>4. CASE ExitFailed
    BY <1>1, <1>n, <2>4, ExitIs DEF ExitFailed, Down
  <2>5. ASSUME NEW valid \in BOOLEAN, Complete(valid) PROVE WriterInv'
    <3>1. CASE Exit
      BY <1>1, <1>n, <3>1, ExitIs DEF Down
    <3>2. CASE proc' = AtBoundary /\ UNCHANGED heldVars
      <4>1. ~Writing
        BY <2>5 DEF Complete, Writing
      <4> QED
        BY <1>1, <1>3, <3>2, <4>1 DEF AtBoundary, Down, heldVars
    <3> QED
      BY <2>5, <3>1, <3>2 DEF Complete
  <2> QED
    BY <1>4, <2>1, <2>2, <2>3, <2>4, <2>5 DEF Controller
<1>5. CASE Stages
  <2>1. /\ writer'.rate = writer.rate /\ writer'.alive = writer.alive
        /\ proc.step = "measuring" => win.at = "done"
        /\ proc.step = "breaking" => fs.at = "done"
        /\ proc'.step = "checking" => cp'.rate = 0
    BY <1>a, <1>5, StagesWriter
  <2>2. ~Writing
    BY <2>1 DEF Writing
  <2> QED
    BY <1>3, <2>1, <2>2 DEF WriterInv
<1>6. CASE Crash
  BY <1>1, <1>n, <1>6, ExitIs DEF Crash, Down
<1>7. CASE Checkpointing
  <2>1. Writing' <=> Writing
    BY <1>7 DEF Checkpointing, Writing
  <2>2. proc' = proc /\ proc.at = "stage" /\ (proc.step = "checking" => ~Writing /\ cp.rate = 0)
    BY <1>a, <1>7 DEF Checkpointing, Writing, WriterInv
  <2>3. cp.at # "idle" => proc.step = "checking" \/ Writing
    BY <1>a, <2>2 DEF CallInv, Writing
  <2>4. CASE Pause
    <3>1. writer'.rate = 0 /\ ~writer'.alive
      BY <1>a, <2>4, StopIs DEF Pause
    <3>2. cp'.rate = cp.rate \/ cp'.rate = writer.rate
      BY <1>a, <2>4 DEF Pause, CpFails, CpRecord
    <3> QED
      BY <1>3, <2>2, <3>1, <3>2 DEF WriterInv
  <2>5. CASE Snapshot \/ ReadLsn \/ Raise \/ Raised \/ Compare \/ WaitTimesOut \/ Compared
    <3>1. UNCHANGED writer /\ cp'.rate = cp.rate
      BY <1>a, <2>5 DEF Snapshot, ReadLsn, Raise, Raised, Compare, WaitTimesOut, Compared, CpFails,
         CpRecord, worldVars, heldVars
    <3>2. cp.at \in {"snapshot", "lsn"} \/ cp'.at \in {"raise", "compare", "done"}
      BY <1>a, <2>5 DEF Snapshot, ReadLsn, Raise, Raised, Compare, WaitTimesOut, Compared, CpFails,
         CpRecord
    <3> QED
      BY <1>a, <2>1, <2>2, <3>1, <3>2 DEF WriterInv
  <2>6. CASE Resume
    <3>1. cp'.at \in {"raise", "done"} /\ cp'.rate = cp.rate /\ cp.at = "resume"
      BY <1>a, <2>6 DEF Resume, CpFails, CpRecord
    <3>2. CASE cp.rate = 0
      <4>1. UNCHANGED writer
        BY <2>6, <3>2 DEF Resume
      <4> QED
        BY <1>a, <2>2, <3>1, <3>2, <4>1 DEF WriterInv
    <3>3. CASE cp.rate # 0
      <4>1. writer'.alive => writer'.rate # 0
        <5>1. StartWriter(cp.rate) /\ cp.rate \in Nat \ {0}
          BY <1>a, <2>6, <3>3 DEF Resume, CpRecord
        <5> QED
          BY <1>a, <5>1, StartIs DEF WriterInv
      <4>2. Writing' /\ proc'.step # "checking"
        BY <2>1, <2>2, <2>3, <3>1, <3>3
      <4> QED
        BY <3>1, <4>1, <4>2 DEF WriterInv
    <3> QED
      BY <3>2, <3>3
  <2>7. CASE CheckpointCallFails
    <3>1. UNCHANGED writer /\ cp'.rate = cp.rate
      BY <1>a, <2>7 DEF CheckpointCallFails, CpFails, CpRecord, heldVars
    <3>2. cp.at \in {"snapshot", "lsn"} \/ cp'.at = "done"
      BY <1>a, <2>7 DEF CheckpointCallFails, CpFails, CpRecord
    <3> QED
      BY <1>a, <2>1, <2>2, <3>1, <3>2 DEF WriterInv
  <2> QED
    BY <1>7, <2>4, <2>5, <2>6, <2>7 DEF Checkpointing, CheckpointStep
<1>8. CASE Measuring
  <2>1. win.at \notin {"idle", "done"}
    BY <1>8 DEF Measuring, WindowStep, SetRate, FreeSpaceTrips, ObserveRate, ObservationFails,
       RateStops, ChooseTarget, ScanGraydb, ProveGraydb, QueryClickhouse, QueryFails, EndRound,
       OutOfTime, Persist, WindowCallFails, StopRate, SampleDue
  <2>2. proc' = proc /\ proc.step = "measuring" /\ cp' = cp /\ cp.at = "idle"
    BY <1>a, <1>8, <2>1 DEF Measuring, CallInv
  <2>3. CASE SetRate
    <3>1. win.at = "rate" /\ ~Writing
      BY <2>2, <2>3 DEF SetRate, Writing
    <3>2. CASE win.rate = 0
      BY <1>a, <1>1, <2>2, <2>3, <3>2, StopIs DEF SetRate
    <3>3. CASE win.rate # 0
      <4>1. StartWriter(win.rate) /\ win.rate \in Nat \ {0}
        BY <1>a, <2>3, <3>3 DEF SetRate, WinTyped
      <4>2. /\ writer'.alive => writer'.rate # 0
            /\ StartErr(win.rate) => writer'.rate = 0
        BY <1>a, <4>1, StartIs DEF WriterInv
      <4>3. CASE StartErr(win.rate)
        BY <1>1, <2>2, <4>2, <4>3
      <4>4. CASE ~StartErr(win.rate)
        <5>1. win' = [win EXCEPT !.at = "gates"]
          BY <2>3, <3>3, <4>4 DEF SetRate
        <5>2. win'.at = "gates"
          BY <1>a, <5>1 DEF WinTyped
        <5> QED
          BY <2>2, <4>2, <5>2 DEF WriterInv, Writing
      <4> QED
        BY <4>3, <4>4
    <3> QED
      BY <3>2, <3>3
  <2>4. CASE StopRate
    BY <1>a, <1>1, <2>2, <2>4, StopIs DEF StopRate
  <2>5. CASE ~SetRate /\ ~StopRate
    <3>1. UNCHANGED writer
      BY <1>8, <2>5 DEF Measuring, WindowStep, FreeSpaceTrips, ObserveRate, ObservationFails,
       RateStops, ChooseTarget, ScanGraydb, ProveGraydb, QueryClickhouse, QueryFails, EndRound,
       OutOfTime, Persist, WindowCallFails, worldVars, heldVars
    <3>2. win'.at \in {"gates", "query", "proof", "persist", "stop"}
      <4>1. CASE FreeSpaceTrips
        BY <1>a, <4>1 DEF FreeSpaceTrips, Answered, NoAnswer, SampleDue, WinTyped
      <4>2. CASE ObserveRate
        BY <1>a, <4>2 DEF ObserveRate, Answered, NoAnswer, SampleDue, WinTyped
      <4>3. CASE ObservationFails
        BY <1>a, <4>3 DEF ObservationFails, Answered, NoAnswer, SampleDue, WinTyped
      <4>4. CASE RateStops
        BY <1>a, <4>4 DEF RateStops, Answered, NoAnswer, SampleDue, WinTyped
      <4>5. CASE ChooseTarget
        BY <1>a, <4>5 DEF ChooseTarget, Answered, NoAnswer, SampleDue, WinTyped
      <4>6. CASE ScanGraydb
        BY <1>a, <4>6 DEF ScanGraydb, Answered, NoAnswer, SampleDue, WinTyped
      <4>7. CASE ProveGraydb
        BY <1>a, <4>7 DEF ProveGraydb, Answered, NoAnswer, SampleDue, WinTyped
      <4>8. CASE QueryClickhouse
        BY <1>a, <4>8 DEF QueryClickhouse, Answered, NoAnswer, SampleDue, WinTyped
      <4>9. CASE QueryFails
        BY <1>a, <4>9 DEF QueryFails, Answered, NoAnswer, SampleDue, WinTyped
      <4>10. CASE EndRound
        <5> DEFINE held == IF mode = "Correctness" /\ ~win.proved THEN win.target ELSE None
                   ended == [win EXCEPT !.pending = held, !.round = @ + 1]
        <5>1. \/ win' = [win EXCEPT !.at = "persist", !.valid = FALSE]
              \/ win' = [ended EXCEPT !.at = "persist"]
              \/ win' = [ended EXCEPT !.at = "gates"]
          BY <4>10 DEF EndRound
        <5> HIDE DEF held
        <5> QED
          BY <1>a, <5>1 DEF WinTyped
      <4>11. CASE OutOfTime
        BY <1>a, <4>11 DEF OutOfTime, Answered, NoAnswer, SampleDue, WinTyped
      <4>12. CASE Persist
        BY <1>a, <4>12 DEF Persist, Answered, NoAnswer, SampleDue, WinTyped
      <4>13. CASE WindowCallFails
        BY <1>a, <4>13 DEF WindowCallFails, Answered, NoAnswer, SampleDue, WinTyped
      <4> QED
        BY <1>8, <2>5, <4>1, <4>2, <4>3, <4>4, <4>5, <4>6, <4>7, <4>8, <4>9, <4>10, <4>11, <4>12, <4>13 DEF Measuring, WindowStep
    <3> QED
      BY <1>a, <2>2, <3>1, <3>2 DEF WriterInv, Writing
  <2> QED
    BY <2>3, <2>4, <2>5
<1>9. CASE Breaking
  <2>1. fs.at \notin {"idle", "done"}
    BY <1>9 DEF Breaking, FailureStep, Steady, RateHeld, RateMissed, StopEngine, StartEngine,
       Disconnect, Reconnect, HaltWriter, ResumeWriter, Aim, CaughtUp, NotCaughtUp, Validated,
       FailureCallFails, StopSequence
  <2>2. proc' = proc /\ proc.step = "breaking"
    BY <1>a, <1>9, <2>1 DEF Breaking, CallInv
  <2>3. cp'.at \in {"idle", "pause"}
    <3>1. CASE CaughtUp
      BY <3>1 DEF CaughtUp, CallCheckpoint, NoCheckpoint
    <3>2. CASE Validated
      BY <3>2 DEF Validated, NoCheckpoint
    <3>3. CASE ~CaughtUp /\ ~Validated
      <4>1. cp' = cp /\ fs.at # "validate"
        BY <1>9, <3>3 DEF Breaking, FailureStep, Steady, RateHeld, RateMissed, StopEngine,
           StartEngine, Disconnect, Reconnect, HaltWriter, ResumeWriter, Aim, NotCaughtUp,
           FailureCallFails, StopSequence
      <4> QED
        BY <1>a, <1>9, <2>2, <4>1 DEF Breaking, CallInv
    <3> QED
      BY <3>1, <3>2, <3>3
  <2>4. CASE StopSequence \/ HaltWriter
    BY <1>a, <1>1, <2>2, <2>4, StopIs DEF StopSequence, HaltWriter
  <2>5. CASE Steady \/ ResumeWriter
    <3>1. StartWriter(FailureRate) /\ FailureRate \in Nat \ {0}
      BY <2>5 DEF Steady, ResumeWriter, FailureRate
    <3>2. writer'.alive => writer'.rate # 0
      BY <1>a, <3>1, StartIs DEF WriterInv
    <3>3. fs'.at \in {"stop", "measure", "aim"}
      BY <1>a, <2>5 DEF Steady, ResumeWriter, FsFails, FsRecord
    <3> QED
      BY <2>2, <2>3, <3>2, <3>3 DEF WriterInv, Writing
  <2>6. CASE ~StopSequence /\ ~HaltWriter /\ ~Steady /\ ~ResumeWriter
    <3>1. UNCHANGED writer
      BY <1>9, <2>6 DEF Breaking, FailureStep, RateHeld, RateMissed, StopEngine,
         StartEngine, Disconnect, Reconnect, Aim, CaughtUp, NotCaughtUp, Validated,
         FailureCallFails, worldVars, heldVars
    <3>2. fs'.at \notin {"idle", "done"}
      <4>1. CASE RateHeld
        BY <1>a, <4>1 DEF RateHeld, FsFails, FsNext, NoFailure, FsRecord
      <4>2. CASE RateMissed
        BY <1>a, <4>2 DEF RateMissed, FsFails, FsNext, NoFailure, FsRecord
      <4>3. CASE StopEngine
        BY <1>a, <4>3 DEF StopEngine, FsFails, FsNext, NoFailure, FsRecord
      <4>4. CASE StartEngine
        BY <1>a, <4>4 DEF StartEngine, FsFails, FsNext, NoFailure, FsRecord
      <4>5. CASE Disconnect
        BY <1>a, <4>5 DEF Disconnect, FsFails, FsNext, NoFailure, FsRecord
      <4>6. CASE Reconnect
        BY <1>a, <4>6 DEF Reconnect, FsFails, FsNext, NoFailure, FsRecord
      <4>7. CASE Aim
        BY <1>a, <4>7 DEF Aim, FsFails, FsNext, NoFailure, FsRecord
      <4>8. CASE CaughtUp
        BY <1>a, <4>8 DEF CaughtUp, FsFails, FsNext, NoFailure, FsRecord
      <4>9. CASE NotCaughtUp
        BY <1>a, <4>9 DEF NotCaughtUp, FsFails, FsNext, NoFailure, FsRecord
      <4>10. CASE Validated
        BY <1>a, <4>10 DEF Validated, FsFails, FsNext, NoFailure, FsRecord
      <4>11. CASE FailureCallFails
        BY <1>a, <4>11 DEF FailureCallFails, FsFails, FsNext, NoFailure, FsRecord
      <4> QED
        BY <1>9, <2>6, <4>1, <4>2, <4>3, <4>4, <4>5, <4>6, <4>7, <4>8, <4>9, <4>10, <4>11 DEF Breaking, FailureStep
    <3> QED
      BY <1>a, <2>2, <2>3, <3>1, <3>2 DEF WriterInv, Writing
  <2> QED
    BY <2>4, <2>5, <2>6
<1>10. CASE Serving
  <2>1. writer'.rate = writer.rate /\ (writer'.alive => writer.alive)
    <3>1. CASE WriterDies
      BY <1>a, <3>1 DEF WriterDies, WriterRecord
    <3>2. CASE ~WriterDies
      BY <1>10, <3>2 DEF Serving, Services, WriterCommits, OtherRecord, EngineApplies, EngineLoses,
         heldVars
    <3> QED
      BY <3>1, <3>2
  <2> QED
    BY <1>a, <1>10, <2>1 DEF Serving, WriterInv, Writing
<1>11. CASE Resting
  BY <1>2, <1>11 DEF Resting
<1> QED
  BY <1>a, <1>4, <1>5, <1>6, <1>7, <1>8, <1>9, <1>10, <1>11, NextIs

-----------------------------------------------------------------------------
(***************************************************************************)
(* The checkpoints.                                                        *)
(***************************************************************************)
LEMMA TailMisses ==
    ASSUME NEW S, NEW s \in Seq(S), s # <<>>
    PROVE  /\ Tail(s) \in Seq(S)
           /\ \A e \in Range(s) : e = Head(s) \/ e \in Range(Tail(s))
<1> DEFINE t == Tail(s)
<1>1. /\ t \in Seq(S) /\ Len(t) = Len(s) - 1 /\ Len(s) \in Nat /\ DOMAIN s = 1 .. Len(s)
      /\ \A i \in 1 .. Len(t) : t[i] = s[i + 1]
      /\ Head(s) = s[1]
  OBVIOUS
<1> HIDE DEF t
<1>2. ASSUME NEW e \in Range(s), e # Head(s) PROVE e \in Range(t)
  <2>1. PICK i \in 1 .. Len(s) : e = s[i]
    BY <1>1, <1>2 DEF Range
  <2>2. i # 1
    BY <1>1, <1>2, <2>1
  <2>3. i - 1 \in 1 .. Len(t) /\ t[i - 1] = s[(i - 1) + 1] /\ (i - 1) + 1 = i
    BY <1>1, <2>1, <2>2
  <2>4. DOMAIN t = 1 .. Len(t)
    BY <1>1
  <2> QED
    BY <2>1, <2>3, <2>4 DEF Range
<1> QED
  BY <1>1, <1>2 DEF t

LEMMA PublishedIs ==
    ASSUME WorldTypes
    PROVE  /\ \A lsn : Commits(Here, lsn) = {p \in Published(Here) : p <= lsn}
           /\ Published(Here) \in SUBSET (1 .. WalHead)
           /\ Commits(Here, WalHead) = Published(Here)
<1>1. \A lsn : Commits(Here, lsn) = {p \in Published(Here) : p <= lsn}
  BY DEF Commits, Published
<1>2. Published(Here) \in SUBSET (1 .. WalHead)
  BY HereIs DEF Published
<1>3. WalHead \in Nat
  BY HereIs
<1> QED
  BY <1>1, <1>2, <1>3

\* What an engine shows at an LSN it has reached stays, while the source gets no
\* commit before that.
LEMMA ShownStays ==
    ASSUME WorldTypes, WorldTypes', NEW e \in Engine, NEW lsn \in Nat, lsn <= engine[e].applied,
           Published(Here)' = Published(Here),
           engine'[e].snap = engine[e].snap, engine'[e].base = engine[e].base,
           engine'[e].from = engine[e].from, engine[e].applied <= engine'[e].applied,
           \A p \in Nat : p <= lsn => (p \in engine'[e].lost <=> p \in engine[e].lost)
    PROVE  Shown(e, lsn)' = Shown(e, lsn)
<1>1. engine[e] \in EngineRecord /\ engine'[e] \in EngineRecord
  BY DEF WorldTypes
<1>2. Published(Here) \subseteq Nat
  BY PublishedIs
<1>3. \A x : Commits(Here, x) = {p \in Published(Here) : p <= x}
  BY PublishedIs
<1>5. {p \in Streamed(e)' : p <= lsn} = {p \in Streamed(e) : p <= lsn}
  <2>1. Streamed(e)' = {p \in Published(Here) : p <= engine'[e].applied}
                         \ ({p \in Published(Here) : p <= engine[e].from} \union engine'[e].lost)
    <3>1. Streamed(e)' = {p \in Published(Here)' : p <= engine'[e].applied}
                           \ ({p \in Published(Here)' : p <= engine'[e].from} \union engine'[e].lost)
      BY DEF Streamed, Commits, Published
    <3> QED
      BY <3>1
  <2>2. Streamed(e) = {p \in Published(Here) : p <= engine[e].applied}
                         \ ({p \in Published(Here) : p <= engine[e].from} \union engine[e].lost)
    BY <1>3 DEF Streamed
  <2> QED
    BY <1>1, <1>2, <2>1, <2>2 DEF EngineRecord
<1> QED
  BY <1>5 DEF Shown

\* A record that is no commit changes nothing an engine or PostgreSQL shows.
LEMMA OtherRecordIs ==
    ASSUME WorldTypes, OtherRecord
    PROVE  /\ \A source \in Source : Published(source)' = Published(source)
           /\ \A source \in Source : Len(wal[source]) <= Len(wal'[source])
           /\ UNCHANGED <<mode, engine, ledger, writer, active>>
<1> DEFINE more == Append(wal[Here], FALSE)
<1>1. wal' = [wal EXCEPT ![Here] = more] /\ UNCHANGED <<mode, engine, ledger, writer, active>>
  BY DEF OtherRecord, Appended, heldVars
<1>2. wal \in [Source -> Seq(BOOLEAN)] /\ Here \in Source /\ wal[Here] \in Seq(BOOLEAN)
  BY HereIs DEF WorldTypes
<1>3. /\ Len(wal[Here]) \in Nat /\ DOMAIN wal[Here] = 1 .. Len(wal[Here])
      /\ DOMAIN more = 1 .. Len(wal[Here]) + 1 /\ Len(more) = Len(wal[Here]) + 1
      /\ more[Len(wal[Here]) + 1] = FALSE
      /\ \A i \in 1 .. Len(wal[Here]) : more[i] = wal[Here][i]
  BY <1>2
<1> HIDE DEF more
<1>4. {p \in DOMAIN more : more[p]} = {p \in DOMAIN wal[Here] : wal[Here][p]}
  BY <1>3
<1>5. ASSUME NEW source \in Source
      PROVE  Published(source)' = Published(source) /\ Len(wal[source]) <= Len(wal'[source])
  <2>1. CASE source = Here
    <3>1. wal'[source] = more
      BY <1>1, <1>2, <2>1
    <3> QED
      BY <1>3, <1>4, <2>1, <3>1 DEF Published
  <2>2. CASE source # Here
    <3>1. wal'[source] = wal[source] /\ wal[source] \in Seq(BOOLEAN)
      BY <1>1, <1>2, <2>2
    <3>2. Len(wal[source]) \in Nat
      BY <3>1
    <3> QED
      BY <3>1, <3>2 DEF Published
  <2> QED
    BY <2>1, <2>2
<1> QED
  BY <1>1, <1>5

\* An engine that follows its source keeps what it has loaded.
LEMMA FollowIs ==
    ASSUME WorldTypes, NEW d \in Engine, EngineApplies(d) \/ EngineLoses(d)
    PROVE  /\ UNCHANGED <<mode, wal, ledger, writer, active>>
           /\ engine[d].snap # 0 /\ engine[d].applied < WalHead
           /\ engine[d].applied < engine'[d].applied /\ engine'[d].applied <= WalHead
           /\ mode = "Isolated" => active = d
           /\ \A e \in Engine : e # d => engine'[e] = engine[e]
           /\ \A e \in Engine :
                /\ engine'[e].snap = engine[e].snap /\ engine'[e].base = engine[e].base
                /\ engine'[e].from = engine[e].from
                /\ engine'[e].up = engine[e].up /\ engine'[e].linked = engine[e].linked
                /\ engine[e].applied <= engine'[e].applied
                /\ \/ engine'[e].lost = engine[e].lost
                   \/ \E p \in Commits(Here, WalHead) :
                         engine[e].applied < p /\ engine'[e].lost = engine[e].lost \union {p}
<1>1. Follows(d) /\ UNCHANGED <<mode, wal, ledger, writer, active>>
  BY DEF EngineApplies, EngineLoses, heldVars
<1>2. engine[d].snap # 0 /\ engine[d].applied < WalHead /\ (mode = "Isolated" => active = d)
  BY <1>1 DEF Follows, Reachable
<1> DEFINE head == WalHead
<1>3. /\ head \in Nat /\ engine \in [Engine -> EngineRecord]
      /\ engine[d] \in EngineRecord /\ engine[d].applied \in Nat
  BY HereIs DEF WorldTypes, EngineRecord
<1> HIDE DEF head
<1>4. CASE EngineApplies(d)
  <2>1. PICK lsn \in (engine[d].applied + 1)..head : engine' = [engine EXCEPT ![d].applied = lsn]
    BY <1>4 DEF EngineApplies, head
  <2>2. \A e \in Engine : e # d => engine'[e] = engine[e]
    BY <1>3, <2>1
  <2>3. engine'[d] = [engine[d] EXCEPT !.applied = lsn]
    BY <1>3, <2>1
  <2>4. /\ engine'[d].applied = lsn
        /\ engine'[d].snap = engine[d].snap /\ engine'[d].base = engine[d].base
        /\ engine'[d].from = engine[d].from /\ engine'[d].lost = engine[d].lost
        /\ engine'[d].up = engine[d].up /\ engine'[d].linked = engine[d].linked
    BY <1>3, <2>3 DEF EngineRecord
  <2>5. engine[d].applied < lsn /\ lsn <= head
    BY <1>3, <2>1
  <2>6. \A e \in Engine : engine[e].applied <= engine[e].applied
    BY <1>3 DEF EngineRecord
  <2> QED
    BY <1>1, <1>2, <1>3, <2>2, <2>4, <2>5, <2>6 DEF head
<1>5. CASE EngineLoses(d)
  <2>1. PICK p \in Commits(Here, WalHead) :
             /\ engine[d].applied < p
             /\ \E lsn \in p..head :
                   engine' = [engine EXCEPT ![d].applied = lsn, ![d].lost = @ \union {p}]
    BY <1>5 DEF EngineLoses, head
  <2>2. PICK lsn \in p..head : engine' = [engine EXCEPT ![d].applied = lsn, ![d].lost = @ \union {p}]
    BY <2>1
  <2>3. p \in Nat
    BY HereIs
  <2>4. \A e \in Engine : e # d => engine'[e] = engine[e]
    BY <1>3, <2>2
  <2>5. engine'[d] = [engine[d] EXCEPT !.applied = lsn, !.lost = engine[d].lost \union {p}]
    BY <1>3, <2>2
  <2>6. /\ engine'[d].applied = lsn
        /\ engine'[d].snap = engine[d].snap /\ engine'[d].base = engine[d].base
        /\ engine'[d].from = engine[d].from /\ engine'[d].lost = engine[d].lost \union {p}
        /\ engine'[d].up = engine[d].up /\ engine'[d].linked = engine[d].linked
    BY <1>3, <2>5 DEF EngineRecord
  <2>7. engine[d].applied < lsn /\ lsn <= head
    BY <1>3, <2>1, <2>3
  <2>8. \A e \in Engine : engine[e].applied <= engine[e].applied
    BY <1>3 DEF EngineRecord
  <2> QED
    BY <1>1, <1>2, <1>3, <2>1, <2>4, <2>6, <2>7, <2>8 DEF head
<1> QED
  BY <1>4, <1>5

\* A stage's body hands a checkpoint over, or takes its result.
LEMMA StagesCheckpoint ==
    ASSUME WorldTypes, RunTypes, CallTypes, StepInv, TurnInv, CallInv, Stages
    PROVE  /\ cp.at \in {"idle", "done"}
           /\ \/ cp'.at = "idle"
              \/ cp' = cp /\ proc'.step # "checking"
              \/ cp'.at = "pause" /\ (mode = "Correctness" => cp'.engines = Both)
<1>1. cp.at \in {"idle", "done"}
  BY StagesWriter DEF CallInv, StepInv
<1>2. \/ cp' = cp \/ cp' = NoCheckpoint
      \/ CallCheckpoint(Both)
      \/ mode = "Isolated" /\ CallCheckpoint(<<active>>)
  BY DEF Stages, Preflight, Seeded, LoadSeed, WriteManifest, BackUp, ChecksumBaseline,
     VerifyBaseline, BaselineRefused, RestoreRefused, Restore, StartReplays, ReplayTransaction,
     PushReplayed, Replayed, ValidateReplays, Bootstrap, StartCdc, NextCheck, Checked, RecordCheck,
     NextWindow, Measured, BreakThings, Broken, Report, Checksums, CompleteRun, StageFails, Fail,
     callVars
<1>3. CASE cp' = cp
  <2>1. CASE proc.step = "checking"
    <3>1. Checked \/ Fail
      <4>1. ~(proc.step \in {"body", "loaded", "copied", "prepare", "replay", "follow", "activate",
                             "check", "window", "measuring", "record", "breaking", "outcome"})
        BY <2>1
      <4> QED
        BY <2>1 DEF Stages, Preflight, Seeded, LoadSeed, WriteManifest, BackUp, ChecksumBaseline,
           VerifyBaseline, BaselineRefused, RestoreRefused, Restore, StartReplays,
           ReplayTransaction, PushReplayed, Replayed, Replaying, ValidateReplays, Bootstrap,
           StartCdc, NextCheck, ActivationWaits, RecordCheck, NextWindow, Measured, BreakThings,
           Broken, Report, Checksums, CompleteRun, StageFails, Doing
    <3>2. CASE Fail
      BY <1>1, <1>3, <3>2, FailIs
    <3>3. CASE Checked /\ ~cp.err
      BY <3>3 DEF Checked, NoCheckpoint
    <3> QED
      BY <3>1, <3>2, <3>3 DEF Checked
  <2>2. CASE proc.step # "checking"
    <3>1. cp.at = "idle"
      BY <2>2, StagesWriter DEF CallInv, StepInv
    <3> QED
      BY <1>3, <3>1
  <2> QED
    BY <2>1, <2>2
<1>4. CASE CallCheckpoint(Both)
  BY <1>1, <1>4 DEF CallCheckpoint, NoCheckpoint
<1>5. CASE mode = "Isolated" /\ CallCheckpoint(<<active>>)
  BY <1>1, <1>5 DEF CallCheckpoint, NoCheckpoint
<1> QED
  BY <1>1, <1>2, <1>3, <1>4, <1>5 DEF NoCheckpoint

LEMMA BreakingCheckpoint ==
    ASSUME CallInv, StepInv, Breaking
    PROVE  /\ proc.step = "breaking" /\ proc' = proc /\ cp'.at \in {"idle", "pause"}
           /\ fs.at \notin {"idle", "done"}
<1>1. fs.at \notin {"idle", "done"}
  BY DEF Breaking, FailureStep, Steady, RateHeld, RateMissed, StopEngine, StartEngine,
     Disconnect, Reconnect, HaltWriter, ResumeWriter, Aim, CaughtUp, NotCaughtUp, Validated,
     FailureCallFails, StopSequence
<1>2. proc' = proc /\ proc.step = "breaking"
  BY <1>1 DEF Breaking, CallInv
<1>3. cp'.at \in {"idle", "pause"}
  <2>1. CASE CaughtUp
    BY <2>1 DEF CaughtUp, CallCheckpoint, NoCheckpoint
  <2>2. CASE Validated
    BY <2>2 DEF Validated, NoCheckpoint
  <2>3. CASE ~CaughtUp /\ ~Validated
    <3>1. cp' = cp /\ fs.at # "validate"
      BY <2>3 DEF Breaking, FailureStep, Steady, RateHeld, RateMissed, StopEngine,
         StartEngine, Disconnect, Reconnect, HaltWriter, ResumeWriter, Aim, NotCaughtUp,
         FailureCallFails, StopSequence
    <3> QED
      BY <1>2, <3>1 DEF Breaking, CallInv
  <2> QED
    BY <2>1, <2>2, <2>3
<1> QED
  BY <1>1, <1>2, <1>3

LEMMA ControllerCheckpoint ==
    ASSUME CallInv, StepInv, Controller
    PROVE  cp'.at = "idle" /\ fs'.at = "idle"
<1>1. NoCheckpoint.at = "idle" /\ NoFailure.at = "idle"
  BY DEF NoCheckpoint, NoFailure
<1>2. CASE Create \/ SetPlan \/ ResumeRun \/ End \/ ArchiveUnplanned \/ Begin
  <2>1. proc.at \in {"down", "created", "next"} /\ UNCHANGED <<cp, win, fs>>
    BY <1>2 DEF Create, SetPlan, ResumeRun, End, ArchiveUnplanned, Begin, callVars
  <2> QED
    BY <2>1 DEF StepInv, CallInv
<1>3. CASE ExitFailed
  BY <1>1, <1>3, ExitIs DEF ExitFailed
<1>4. ASSUME NEW valid \in BOOLEAN, Complete(valid) PROVE cp'.at = "idle" /\ fs'.at = "idle"
  BY <1>1, <1>4, ExitIs DEF Complete, callVars, CallInv
<1> QED
  BY <1>2, <1>3, <1>4 DEF Controller

LEMMA CaptureStays ==
    ASSUME RunInv, WorldTypes', RunTypes', CallTypes', [Next]_vars
    PROVE  CaptureInv'
<1>a. /\ CaptureInv /\ WriterInv /\ CallInv /\ StepInv /\ TurnInv
      /\ RunTypes /\ WorldTypes /\ CallTypes /\ cp \in CpRecord
      /\ engine \in [Engine -> EngineRecord] /\ engine' \in [Engine -> EngineRecord]
  BY DEF RunInv, WorldTypes, CallTypes
<1>b. cp.lsn \in Nat /\ cp.engines \in Seq(Engine) /\ cp.todo \in Seq(Engine)
  BY <1>a DEF CpRecord
<1>1. ASSUME cp'.at = "idle" PROVE CaptureInv'
  BY <1>1 DEF CaptureInv
\* Nothing the invariant speaks of has changed.
<1>2. ASSUME UNCHANGED <<mode, wal, engine, active, proc, cp>> PROVE CaptureInv'
  BY <1>a, <1>2 DEF CaptureInv, Captured, Matched, Shown, Streamed, Commits, Here, Published
<1>3. CASE Controller \/ Crash
  <2>1. CASE Controller
    BY <1>a, <1>1, <2>1, ControllerCheckpoint
  <2>2. CASE Crash
    BY <1>1, <2>2, ExitIs DEF Crash, NoCheckpoint
  <2> QED
    BY <1>3, <2>1, <2>2
<1>4. CASE Stages
  <2>1. CASE cp' = cp /\ proc'.step # "checking"
    <3>1. cp.at \in {"idle", "done"}
      BY <1>a, <1>4, StagesCheckpoint
    <3> QED
      BY <1>a, <2>1, <3>1 DEF CaptureInv
  <2>2. CASE cp'.at = "pause" /\ (mode = "Correctness" => cp'.engines = Both)
    <3>1. mode' = mode
      BY <1>a, <1>4, StagesFrame
    <3> QED
      BY <2>2, <3>1 DEF CaptureInv
  <2> QED
    BY <1>a, <1>1, <1>4, <2>1, <2>2, StagesCheckpoint
<1>5. CASE Measuring
  <2>1. win.at # "idle"
    BY <1>5 DEF Measuring, WindowStep, SetRate, FreeSpaceTrips, ObserveRate, ObservationFails,
       RateStops, ChooseTarget, ScanGraydb, ProveGraydb, QueryClickhouse, QueryFails, EndRound,
       OutOfTime, Persist, WindowCallFails, StopRate, SampleDue
  <2>2. cp' = cp /\ cp.at = "idle"
    BY <1>a, <1>5, <2>1 DEF Measuring, CallInv
  <2> QED
    BY <1>1, <2>2
<1>6. CASE Breaking
  <2>1. proc'.step = "breaking" /\ cp'.at \in {"idle", "pause"}
    BY <1>a, <1>6, BreakingCheckpoint
  <2> QED
    BY <2>1 DEF CaptureInv
<1>7. CASE Checkpointing
  <2>1. UNCHANGED <<mode, wal, engine, active, proc>>
    BY <1>7 DEF Checkpointing
  <2>2. Published(Here)' = Published(Here)
    BY <2>1 DEF Published, Here
  \* The capture and its LSN stay, or the LSN is raised.
  <2>3. ASSUME Captured, cp'.captured = cp.captured, cp'.lsn \in Nat, cp.lsn <= cp'.lsn
        PROVE  Captured'
    <3>1. \A p \in cp.captured : p \in Nat
      BY <1>a DEF CpRecord
    <3> QED
      BY <1>b, <2>2, <2>3, <3>1 DEF Captured
  <2>4. ASSUME NEW e \in Engine, Matched(e), UNCHANGED <<cp.captured, cp.lsn>> PROVE Matched(e)'
    BY <2>1, <2>4 DEF Matched, Shown, Streamed, Commits, Here
  <2>5. CASE Pause
    <3>1. \/ cp'.at = "done" /\ cp'.err
          \/ cp'.at = "snapshot"
      BY <1>a, <2>5 DEF Pause, CpFails, CpRecord
    <3>2. cp'.engines = cp.engines /\ cp.at = "pause"
      BY <1>a, <2>5 DEF Pause, CpFails, CpRecord
    <3> QED
      BY <1>a, <2>1, <3>1, <3>2 DEF CaptureInv
  <2>6. CASE Snapshot
    <3>1. cp'.engines = cp.engines /\ cp.at = "snapshot"
      BY <1>a, <2>6 DEF Snapshot, CpRecord
    <3>2. \/ cp'.at = "resume" /\ cp'.err
          \/ cp'.at = "lsn" /\ cp'.captured = Commits(Here, WalHead)
      BY <1>a, <2>6 DEF Snapshot, CpRecord
    <3>3. cp'.at = "lsn" => cp'.captured = Published(Here)'
      BY <1>a, <2>2, <3>2, PublishedIs
    <3> QED
      BY <1>a, <2>1, <3>1, <3>2, <3>3 DEF CaptureInv
  <2>7. CASE ReadLsn
    <3> DEFINE head == WalHead
    <3>1. head \in Nat
      BY <1>a, HereIs
    <3>2. cp' = [cp EXCEPT !.at = "resume", !.lsn = head] /\ cp.at = "lsn"
      BY <2>7 DEF ReadLsn
    <3>3. Published(Here) \subseteq 1 .. head
      BY <1>a, PublishedIs
    <3> HIDE DEF head
    <3>4. cp'.at = "resume" /\ cp'.lsn = head /\ cp'.captured = cp.captured /\ cp'.engines = cp.engines
      BY <1>a, <3>2 DEF CpRecord
    <3>5. cp.captured = Published(Here)
      BY <1>a, <3>2 DEF CaptureInv
    <3>6. Captured'
      BY <2>2, <3>1, <3>3, <3>4, <3>5 DEF Captured
    <3> QED
      BY <1>a, <2>1, <3>2, <3>4, <3>6 DEF CaptureInv
  <2>8. CASE Resume
    <3>1. CASE cp.err
      <4>1. cp'.at = "done" /\ cp'.err /\ cp'.engines = cp.engines /\ cp.at = "resume"
        BY <1>a, <2>8, <3>1 DEF Resume, CpFails, CpRecord
      <4> QED
        BY <1>a, <2>1, <4>1 DEF CaptureInv
    <3>2. CASE ~cp.err
      <4>1. /\ cp'.at = "raise" /\ ~cp'.err /\ cp'.engines = cp.engines /\ cp.at = "resume"
            /\ cp'.captured = cp.captured /\ cp'.lsn = cp.lsn
        BY <1>a, <2>8, <3>2 DEF Resume, CpRecord
      <4>2. Captured'
        <5>1. Captured /\ cp.lsn <= cp'.lsn
          BY <1>a, <1>b, <3>2, <4>1 DEF CaptureInv
        <5> QED
          BY <1>b, <2>3, <4>1, <5>1
      <4> QED
        BY <1>a, <2>1, <4>1, <4>2 DEF CaptureInv
    <3> QED
      BY <3>1, <3>2
  <2>9. CASE Raise
    <3> DEFINE applied == engine[Head(cp.todo)].applied
               lsn == IF Reachable(Head(cp.todo)) /\ cp.lsn < applied THEN applied ELSE cp.lsn
    <3>1. cp.at = "raise" /\ Head(cp.todo) \in Engine
      BY <1>b, <2>9 DEF Raise
    <3>2. lsn \in Nat /\ cp.lsn <= lsn
      <4>1. applied \in Nat
        BY <1>a, <3>1 DEF EngineRecord
      <4> HIDE DEF applied
      <4> QED
        BY <1>b, <4>1
    <3>3. cp' = [cp EXCEPT !.todo = Tail(cp.todo), !.lsn = lsn]
      BY <1>a, <2>9 DEF Raise, CpRecord
    <3> HIDE DEF lsn
    <3>4. /\ cp'.at = "raise" /\ cp'.err = cp.err /\ cp'.engines = cp.engines
          /\ cp'.captured = cp.captured /\ cp'.lsn = lsn
      BY <1>a, <3>1, <3>3 DEF CpRecord
    <3>5. proc.step = "checking" /\ ~cp.err => Captured'
      BY <1>a, <2>3, <3>1, <3>2, <3>4 DEF CaptureInv
    <3> QED
      BY <1>a, <2>1, <3>1, <3>4, <3>5 DEF CaptureInv
  <2>10. CASE Raised
    <3>1. /\ cp'.at = "compare" /\ cp'.err = cp.err /\ cp'.engines = cp.engines /\ cp.at = "raise"
          /\ cp'.captured = cp.captured /\ cp'.lsn = cp.lsn /\ cp'.todo = cp.engines
      BY <1>a, <2>10 DEF Raised, CpRecord
    <3>2. proc.step = "checking" /\ ~cp.err => Captured'
      BY <1>a, <1>b, <2>3, <3>1 DEF CaptureInv
    <3> QED
      BY <1>a, <2>1, <3>1, <3>2 DEF CaptureInv
  <2>11. CASE Compare
    <3> DEFINE e == Head(cp.todo)
    <3>1. /\ cp'.at = "compare" /\ cp'.err = cp.err /\ cp'.engines = cp.engines /\ cp.at = "compare"
          /\ cp'.captured = cp.captured /\ cp'.lsn = cp.lsn /\ cp'.todo = Tail(cp.todo)
          /\ cp'.passed = (cp.passed /\ Shown(e, cp.lsn) = cp.captured)
      BY <1>a, <2>11 DEF Compare, CpRecord
    <3>2. proc.step = "checking" /\ ~cp.err => Captured'
      BY <1>a, <1>b, <2>3, <3>1 DEF CaptureInv
    <3>3. ASSUME proc.step = "checking", ~cp'.err, cp'.passed,
                 NEW d \in Range(cp.engines) \ Range(Tail(cp.todo))
          PROVE  Matched(d)'
      <4>0. d \in Engine
        BY <1>b, <3>3 DEF Range
      <4>1. Matched(d)
        <5>1. CASE d = e
          <6>1. engine[e].snap # 0 /\ cp.lsn <= engine[e].applied
            BY <2>11 DEF Compare, Visible, Reachable
          <6> QED
            BY <3>1, <3>3, <5>1, <6>1 DEF Matched
        <5>2. CASE d # e
          <6>1. d \notin Range(cp.todo)
            <7>1. cp.todo # <<>>
              BY <2>11 DEF Compare
            <7> QED
              BY <1>b, <3>3, <5>2, <7>1, TailMisses
          <6> QED
            BY <1>a, <3>1, <3>3, <6>1 DEF CaptureInv
        <5> QED
          BY <5>1, <5>2
      <4> QED
        BY <2>4, <3>1, <4>0, <4>1
    <3> QED
      BY <1>a, <2>1, <3>1, <3>2, <3>3 DEF CaptureInv
  <2>12. CASE WaitTimesOut
    <3>1. cp'.at = "done" /\ cp'.err /\ cp'.engines = cp.engines /\ cp.at = "compare"
      BY <1>a, <2>12 DEF WaitTimesOut, CpFails, CpRecord
    <3> QED
      BY <1>a, <2>1, <3>1 DEF CaptureInv
  <2>13. CASE Compared
    <3>1. /\ cp'.at = "done" /\ cp'.err = cp.err /\ cp'.engines = cp.engines /\ cp.at = "compare"
          /\ cp'.captured = cp.captured /\ cp'.lsn = cp.lsn /\ cp'.todo = cp.todo
          /\ cp'.passed = cp.passed /\ cp.todo = <<>>
      BY <1>a, <2>13 DEF Compared, CpRecord
    <3>2. proc.step = "checking" /\ ~cp.err => Captured'
      BY <1>a, <1>b, <2>3, <3>1 DEF CaptureInv
    <3>3. ASSUME proc.step = "checking", ~cp'.err, cp'.passed,
                 NEW d \in Range(cp.engines) \ Range(cp.todo)
          PROVE  Matched(d)'
      <4>1. d \in Engine /\ Matched(d)
        BY <1>a, <1>b, <3>1, <3>3 DEF CaptureInv, Range
      <4> QED
        BY <2>4, <3>1, <4>1
    <3> QED
      BY <1>a, <2>1, <3>1, <3>2, <3>3 DEF CaptureInv
  <2>14. CASE CheckpointCallFails
    <3>1. /\ cp'.engines = cp.engines /\ cp'.err /\ cp'.at \in {"resume", "done"}
          /\ cp.at # "idle"
      BY <1>a, <2>14 DEF CheckpointCallFails, CpFails, CpRecord
    <3> QED
      BY <1>a, <2>1, <3>1 DEF CaptureInv
  <2> QED
    BY <1>7, <2>5, <2>6, <2>7, <2>8, <2>9, <2>10, <2>11, <2>12, <2>13, <2>14
       DEF Checkpointing, CheckpointStep
<1>8. CASE Serving
  <2>1. UNCHANGED <<mode, active, proc, cp>>
    BY <1>8 DEF Serving
  <2>2. CASE WriterCommits
    <3>1. writer.rate # 0
      BY <1>a, <2>2 DEF WriterCommits, WriterInv
    <3>2. cp.at \notin {"snapshot", "lsn", "resume"} /\ proc.step # "checking"
      BY <1>a, <3>1 DEF WriterInv, Writing
    <3>3. cp.at # "lsn" /\ cp.at # "resume"
      BY <3>2
    <3> QED
      BY <1>a, <2>1, <3>2, <3>3 DEF CaptureInv
  <2>3. CASE WriterDies
    BY <1>2, <2>1, <2>3 DEF WriterDies, sourceVars
  <2>4. CASE \/ OtherRecord
             \/ \E d \in Engine : EngineApplies(d) \/ EngineLoses(d)
    <3> DEFINE MovedOn(e) ==
                /\ engine'[e].snap = engine[e].snap /\ engine'[e].base = engine[e].base
                /\ engine'[e].from = engine[e].from
                /\ engine[e].applied <= engine'[e].applied
                /\ \/ engine'[e].lost = engine[e].lost
                   \/ \E p \in Commits(Here, WalHead) :
                         engine[e].applied < p /\ engine'[e].lost = engine[e].lost \union {p}
    <3>1. Published(Here)' = Published(Here) /\ \A e \in Engine : MovedOn(e)
      <4>1. CASE OtherRecord
        <5>1. Here' = Here
          BY <2>1 DEF Here
        <5>2. Published(Here)' = Published(Here)
          BY <1>a, <4>1, <5>1, OtherRecordIs, HereIs DEF Published
        <5>3. engine' = engine
          BY <1>a, <4>1, OtherRecordIs
        <5> QED
          BY <1>a, <5>2, <5>3 DEF EngineRecord
      <4>2. ASSUME NEW d \in Engine, EngineApplies(d) \/ EngineLoses(d) PROVE \A e \in Engine : MovedOn(e)
        BY <1>a, <4>2, FollowIs
      <4>3. ASSUME NEW d \in Engine, EngineApplies(d) \/ EngineLoses(d)
            PROVE  Published(Here)' = Published(Here)
        BY <1>a, <2>1, <4>3, FollowIs DEF Published, Here
      <4> QED
        BY <2>4, <4>1, <4>2, <4>3
    <3>2. Captured => Captured'
      BY <2>1, <3>1 DEF Captured
    <3>3. ASSUME NEW e \in Engine, Matched(e) PROVE Matched(e)'
      <4>1. cp.lsn <= engine[e].applied /\ engine[e].applied \in Nat /\ engine'[e].applied \in Nat
        BY <1>a, <3>3 DEF Matched, EngineRecord
      <4>2. \A p \in Nat : p <= cp.lsn => (p \in engine'[e].lost <=> p \in engine[e].lost)
        <5>1. \A p \in Commits(Here, WalHead) : p \in Nat
          BY <1>a, HereIs
        <5> QED
          BY <1>b, <3>1, <4>1, <5>1
      <4>3. Shown(e, cp.lsn)' = Shown(e, cp.lsn)
        <5> DEFINE lsn == cp.lsn
        <5>1. lsn \in Nat /\ lsn' = lsn /\ lsn <= engine[e].applied
              /\ \A p \in Nat : p <= lsn => (p \in engine'[e].lost <=> p \in engine[e].lost)
          BY <1>b, <2>1, <4>1, <4>2
        <5>2. PICK x \in Nat : x = lsn
          BY <5>1
        <5>3. Shown(e, x)' = Shown(e, x)
          BY <1>a, <3>1, <5>1, <5>2, ShownStays
        <5> QED
          BY <2>1, <5>2, <5>3
      <4>4. engine'[e].snap # 0 /\ cp.lsn <= engine'[e].applied
        BY <1>b, <3>1, <3>3, <4>1 DEF Matched
      <4> QED
        BY <2>1, <3>3, <4>3, <4>4 DEF Matched
    <3>4. Range(cp.engines) \subseteq Engine
      BY <1>b DEF Range
    <3> QED
      BY <1>a, <2>1, <3>1, <3>2, <3>3, <3>4 DEF CaptureInv
  <2> QED
    BY <1>8, <2>2, <2>3, <2>4 DEF Serving, Services
<1>9. CASE Resting
  BY <1>2, <1>9 DEF Resting
<1> QED
  BY <1>a, <1>3, <1>4, <1>5, <1>6, <1>7, <1>8, <1>9, NextIs

-----------------------------------------------------------------------------
(***************************************************************************)
(* The failure sequence.                                                   *)
(***************************************************************************)
\* A stage's body breaks no engine.
LEMMA StagesEngine ==
    ASSUME WorldTypes, WorldTypes', RunTypes, TurnInv, Stages
    PROVE  \A e \in Engine : \/ engine'[e].up = engine[e].up /\ engine'[e].linked = engine[e].linked
                             \/ engine'[e].up /\ engine'[e].linked
<1> DEFINE Kept == \A e \in Engine :
                       \/ engine'[e].up = engine[e].up /\ engine'[e].linked = engine[e].linked
                       \/ engine'[e].up /\ engine'[e].linked
<1>a. engine \in [Engine -> EngineRecord] /\ engine' \in [Engine -> EngineRecord]
  BY DEF WorldTypes
<1>1. CASE UNCHANGED engine
  BY <1>1
<1>2. CASE NextCheck \/ NextWindow
  <2>1. ASSUME NEW next \in Steps, proc.todo # <<>>, Activate(next) PROVE Kept
    BY <2>1, ActivateIs
  <2>2. CASE UNCHANGED engine
    BY <2>2
  <2>3. \/ UNCHANGED engine
        \/ /\ mode = "Isolated" /\ proc.step = "body" /\ proc.stage \in Checks \union Timed
           /\ Activate("check") \/ Activate("window")
    BY <1>2 DEF NextCheck, NextWindow
  <2> QED
    BY <2>1, <2>2, <2>3 DEF TurnInv, Turns, Steps
<1>3. CASE Bootstrap
  <2>1. CASE UNCHANGED engine
    BY <2>1
  <2>2. CASE engine' = [engine EXCEPT ![Graydb] = Attached(Graydb),
                                      ![Clickhouse] = Loaded(Clickhouse, InitialLsn)]
    <3> DEFINE g == Attached(Graydb)
               c == Loaded(Clickhouse, InitialLsn)
    <3>1. c.up /\ c.linked /\ (g = engine[Graydb] \/ (g.up /\ g.linked))
      BY DEF Attached, Loaded, Unloaded
    <3>2. engine' = [engine EXCEPT ![Graydb] = g, ![Clickhouse] = c]
      BY <2>2
    <3> HIDE DEF g, c
    <3>3. engine'[Graydb] = g /\ engine'[Clickhouse] = c
      BY <1>a, <3>2, Engines
    <3> QED
      BY <3>1, <3>3 DEF Engine
  <2> QED
    BY <1>3, <2>1, <2>2 DEF Bootstrap
<1>4. CASE StartCdc
  <2> DEFINE head == WalHead
  <2>1. engine' = [engine EXCEPT ![Clickhouse].from = head]
    BY <1>4 DEF StartCdc
  <2> HIDE DEF head
  <2> QED
    BY <1>a, <2>1 DEF EngineRecord
<1> QED
  BY <1>1, <1>2, <1>3, <1>4 DEF Stages, Preflight, Seeded, LoadSeed, WriteManifest, BackUp,
     ChecksumBaseline, VerifyBaseline, BaselineRefused, RestoreRefused, Restore, StartReplays,
     ReplayTransaction, PushReplayed, Replayed, ValidateReplays, Checked, RecordCheck,
     Measured, BreakThings, Broken, Report, Checksums, CompleteRun, StageFails, worldVars,
     sourceVars

\* How a stage's body treats the failure sequence.
LEMMA StagesFailure ==
    ASSUME RunTypes, CallTypes, StepInv, Stages
    PROVE  /\ fs' = fs \/ fs' = NoFailure \/ fs' = [NoFailure EXCEPT !.at = "steady"]
           /\ Doing("FailureSequence", "outcome")' =>
                mode = "Isolated" \/ (fs.at = "done" /\ ~fs.err)
<1>1. fs' = fs \/ fs' = NoFailure \/ fs' = [NoFailure EXCEPT !.at = "steady"]
  BY DEF Stages, Preflight, Seeded, LoadSeed, WriteManifest, BackUp, ChecksumBaseline,
     VerifyBaseline, BaselineRefused, RestoreRefused, Restore, StartReplays, ReplayTransaction,
     PushReplayed, Replayed, ValidateReplays, Bootstrap, StartCdc, NextCheck, Checked, RecordCheck,
     NextWindow, Measured, BreakThings, Broken, Report, Checksums, CompleteRun, StageFails, Fail,
     callVars, CallFailureSequence
<1>2. ASSUME Doing("FailureSequence", "outcome")'
      PROVE  mode = "Isolated" \/ (fs.at = "done" /\ ~fs.err)
  <2>1. ~Fail /\ proc'.stage = "FailureSequence" /\ proc'.step = "outcome"
    BY <1>2, FailIs DEF Doing
  <2>2. proc.stage = "FailureSequence"
    BY <2>1, StagesFrame
  <2>3. proc.stage \notin Checks \union Timed
    BY <2>2 DEF Checks, Timed
  <2>4. BreakThings \/ Broken
    BY <2>1, <2>2, <2>3 DEF StepInv, Stages, Preflight, Seeded, LoadSeed, WriteManifest, BackUp,
       ChecksumBaseline, VerifyBaseline, BaselineRefused, RestoreRefused, Restore, StartReplays,
       ReplayTransaction, PushReplayed, Replayed, Replaying, ValidateReplays, Bootstrap, StartCdc,
       NextCheck, Checked, RecordCheck, NextWindow, Measured, Report, Checksums, CompleteRun,
       StageFails, Doing
  <2>5. CASE BreakThings
    <3>1. mode # "Isolated" => Step("breaking")
      BY <2>5 DEF BreakThings
    <3> QED
      BY <2>1, <3>1, ProcSteps DEF RunTypes, Steps
  <2>6. CASE Broken
    BY <2>1, <2>6 DEF Broken, Doing
  <2> QED
    BY <2>4, <2>5, <2>6
<1> QED
  BY <1>1, <1>2

LEMMA MendStays ==
    ASSUME RunInv, WorldTypes', RunTypes', CallTypes', [Next]_vars
    PROVE  MendInv'
<1>a. /\ MendInv /\ CallInv /\ StepInv /\ TurnInv /\ StageInv
      /\ RunTypes /\ WorldTypes /\ CallTypes /\ fs \in FsRecord /\ fs' \in FsRecord
      /\ engine \in [Engine -> EngineRecord] /\ engine' \in [Engine -> EngineRecord]
      /\ proc \in ProcRecord /\ state \in StateRecord
  BY DEF RunInv, WorldTypes, CallTypes, RunTypes
<1>k. fs.k \in 1 .. 5
  BY <1>a DEF FsRecord
\* No engine is broken.
<1> DEFINE Held == \A e \in Engine : /\ engine[e].up => engine'[e].up
                                     /\ engine[e].linked => engine'[e].linked
<1>h. Held => (AllMended => AllMended') /\ \A j \in 1 .. 4 : IsMended(j) => IsMended(j)'
  BY Engines DEF AllMended, IsMended
<1> HIDE DEF Held
<1>1. ASSUME Held, Unbroken' => Unbroken, fs'.at = "idle" \/ fs' = fs PROVE MendInv'
  <2>1. Unbroken' => AllMended'
    BY <1>a, <1>1, <1>h DEF MendInv
  <2>2. CASE fs'.at = "idle"
    BY <2>1, <2>2 DEF MendInv
  <2>3. CASE fs' = fs
    BY <1>a, <1>1, <1>h, <2>1, <2>3 DEF MendInv, Past
  <2> QED
    BY <1>1, <2>2, <2>3
<1>2. UNCHANGED engine => Held
  BY DEF Held
<1>3. CASE Controller
  <2>1. fs'.at = "idle"
    BY <1>a, <1>3, ControllerCheckpoint
  <2>2. /\ UNCHANGED <<mode, engine>>
        /\ proc'.step # "outcome" \/ UNCHANGED proc
    <3>1. CASE Create \/ SetPlan \/ ResumeRun \/ Begin \/ End \/ ArchiveUnplanned
      BY <3>1 DEF Create, SetPlan, ResumeRun, ArchiveUnplanned, Begin, End, AtBoundary, Down,
         worldVars, sourceVars
    <3>2. CASE ExitFailed
      BY <3>2, ExitIs DEF ExitFailed, Down, sourceVars
    <3>3. ASSUME NEW valid \in BOOLEAN, Complete(valid)
          PROVE  UNCHANGED <<mode, engine>> /\ proc'.step # "outcome"
      BY <3>3, ExitIs DEF Complete, AtBoundary, Down, sourceVars
    <3> QED
      BY <1>3, <3>1, <3>2, <3>3 DEF Controller
  <2>3. state'.done["FailureSequence"] = "valid" =>
          state.done["FailureSequence"] = "valid" \/ Doing("FailureSequence", "outcome")
    <3>1. CASE Create \/ SetPlan \/ ResumeRun \/ ArchiveUnplanned \/ Begin \/ End \/ ExitFailed
      <4>1. state'.done = state.done
        BY <1>a, <3>1 DEF Create, SetPlan, ResumeRun, ArchiveUnplanned, Begin, End, ExitFailed,
           StateRecord
      <4> QED
        BY <4>1
    <3>2. ASSUME NEW valid \in BOOLEAN, Complete(valid)
          PROVE  state'.done["FailureSequence"] = "valid" =>
                   state.done["FailureSequence"] = "valid" \/ Doing("FailureSequence", "outcome")
      <4>1. state'.done = [state.done EXCEPT ![proc.stage] = IF valid THEN "valid" ELSE "invalid"]
        BY <1>a, <3>2 DEF Complete, StateRecord
      <4>2. "FailureSequence" \in Stage /\ state.done \in [Stage -> {"no", "valid", "invalid"}]
        BY <1>a, StageIs DEF StateRecord
      <4> QED
        BY <3>2, <4>1, <4>2 DEF Complete, Doing
    <3> QED
      BY <1>3, <3>1, <3>2 DEF Controller
  <2>4. Unbroken' => Unbroken
    BY <2>2, <2>3 DEF Unbroken, Doing
  <2> QED
    BY <1>1, <1>2, <2>1, <2>2, <2>4
<1>4. CASE Crash
  BY <1>1, <1>2, <1>4, ExitIs DEF Crash, Down, NoFailure, sourceVars, Unbroken, Doing
<1>5. CASE Stages
  <2>1. Held
    BY <1>a, <1>5, StagesEngine DEF Held
  <2>2. mode' = mode /\ state'.done = state.done
    BY <1>a, <1>5, StagesFrame, FailIs
  <2>3. Unbroken' => Unbroken \/ (fs.at = "done" /\ ~fs.err)
    BY <1>a, <1>5, <2>2, StagesFailure DEF Unbroken
  <2>4. fs.at = "done" /\ ~fs.err => AllMended
    <3> SUFFICES ASSUME fs.at = "done", ~fs.err PROVE AllMended
      OBVIOUS
    <3>1. fs.k = 5
      BY <1>a DEF MendInv
    <3>2. \A j \in 1 .. 4 : IsMended(j)
      BY <1>a, <3>1 DEF MendInv, Past
    <3>3. IsMended(1) /\ IsMended(2) /\ IsMended(3) /\ IsMended(4)
      BY <3>2
    <3> QED
      BY <3>3 DEF IsMended, AllMended, Engine
  <2>5. Unbroken' => AllMended'
    BY <1>a, <1>h, <2>1, <2>3, <2>4 DEF MendInv
  <2>6. CASE fs' = fs
    BY <1>a, <1>h, <2>1, <2>5, <2>6 DEF MendInv, Past
  <2>7. CASE fs' = NoFailure
    BY <2>5, <2>7 DEF MendInv, NoFailure
  <2>8. CASE fs' = [NoFailure EXCEPT !.at = "steady"]
    <3>1. fs'.at = "steady" /\ fs'.k = 1 /\ ~fs'.err
      BY <2>8 DEF NoFailure
    <3> QED
      BY <2>5, <3>1 DEF MendInv, Past
  <2> QED
    BY <1>a, <1>5, <2>6, <2>7, <2>8, StagesFailure
<1>6. CASE Checkpointing \/ Measuring \/ Resting
  BY <1>1, <1>2, <1>6 DEF Checkpointing, Measuring, Resting, Unbroken, Doing
<1>7. CASE Serving
  <2>1. Held
    <3>1. ASSUME NEW d \in Engine, EngineApplies(d) \/ EngineLoses(d) PROVE Held
      BY <1>a, <3>1, FollowIs DEF Held
    <3>2. CASE WriterCommits \/ WriterDies \/ OtherRecord
      BY <1>2, <3>2 DEF WriterCommits, WriterDies, OtherRecord, sourceVars
    <3> QED
      BY <1>7, <3>1, <3>2 DEF Serving, Services
  <2> QED
    BY <1>1, <1>7, <2>1 DEF Serving, Unbroken, Doing
<1>8. CASE Breaking
  <2>a. /\ proc.step = "breaking" /\ proc' = proc /\ fs.at \notin {"idle", "done"}
        /\ mode' = mode /\ state' = state /\ proc.at = "stage"
    BY <1>a, <1>8, BreakingCheckpoint DEF Breaking
  <2>b. ~Unbroken'
    <3>1. mode # "Isolated"
      BY <1>a, <2>a DEF StepInv
    <3>2. proc.stage = "FailureSequence" /\ state.done[proc.stage] = "no"
      BY <1>a, <2>a, UnderWay DEF StepInv
    <3> QED
      BY <2>a, <3>1, <3>2 DEF Unbroken, Doing
  <2>f. ASSUME fs'.at = "stop", fs'.err PROVE MendInv'
    BY <2>b, <2>f DEF MendInv
  <2>g. fs' = FsFails => MendInv'
    BY <1>a, <2>f DEF FsFails, FsRecord
  <2>s. ASSUME UNCHANGED engine, fs.at # "stop", fs'.at \notin {"idle", "stop", "done"}, ~fs'.err,
               \A j \in 1 .. 4 : Past(j)' => Past(j)
        PROVE  MendInv'
    <3>1. \A j \in 1 .. 4 : Past(j) => IsMended(j)
      BY <1>a, <2>a, <2>s DEF MendInv
    <3>2. \A j \in 1 .. 4 : IsMended(j) => IsMended(j)'
      BY <1>2, <1>h, <2>s
    <3> QED
      BY <2>b, <2>s, <3>1, <3>2 DEF MendInv
  <2>e. fs.at # "stop" => ~fs.err /\ \A j \in 1 .. 4 : Past(j) => IsMended(j)
    BY <1>a, <2>a DEF MendInv
  <2>1. CASE Steady
    <3>1. UNCHANGED engine /\ fs.at = "steady" /\ (fs' = FsFails \/ fs' = [fs EXCEPT !.at = "measure"])
      BY <2>1 DEF Steady, sourceVars
    <3> QED
      BY <1>a, <2>e, <2>g, <2>s, <3>1 DEF FsRecord, Past
  <2>2. CASE RateHeld
    BY <1>a, <2>e, <2>s, <2>2 DEF RateHeld, worldVars, sourceVars, FsRecord, Past
  <2>3. CASE RateMissed
    BY <2>g, <2>3 DEF RateMissed
  <2>4. CASE StopEngine
    <3>1. /\ fs'.at = "mend" /\ fs'.k = fs.k /\ ~fs'.err
          /\ engine' = [engine EXCEPT ![FsEngine].up = FALSE]
          /\ fs.k \in {1, 2} /\ fs.at = "break"
      BY <1>a, <2>e, <2>4, KindIs DEF StopEngine, FsRecord
    <3>2. ASSUME NEW j \in 1 .. 4, Past(j)' PROVE IsMended(j)'
      <4>1. j = 1 /\ fs.k = 2
        BY <3>1, <3>2 DEF Past
      <4>2. engine[Graydb].up
        <5>1. IsMended(1)
          BY <2>e, <3>1, <4>1 DEF Past
        <5> QED
          BY <5>1 DEF IsMended
      <4>3. engine'[Graydb] = engine[Graydb]
        BY <1>a, <3>1, <4>1, KindIs, Engines
      <4> QED
        BY <4>1, <4>2, <4>3 DEF IsMended
    <3> QED
      BY <2>b, <3>1, <3>2 DEF MendInv
  <2>5. CASE StartEngine
    <3>1. /\ fs'.at = "aim" /\ fs'.k = fs.k /\ ~fs'.err
          /\ engine' = [engine EXCEPT ![FsEngine].up = TRUE]
          /\ fs.k \in {1, 2} /\ fs.at = "mend" /\ FsEngine \in Engine
      BY <1>a, <2>e, <2>5, KindIs, Engines DEF StartEngine, FsRecord
    <3>2. engine'[FsEngine].up /\ Held
      <4> DEFINE f == FsEngine
      <4>1. f \in Engine /\ engine' = [engine EXCEPT ![f].up = TRUE]
        BY <3>1
      <4> HIDE DEF f
      <4>2. engine'[f] = [engine[f] EXCEPT !.up = TRUE] /\ engine[f] \in EngineRecord
        BY <1>a, <4>1
      <4>3. engine'[f].up /\ (engine[f].up => engine'[f].up) /\ (engine[f].linked => engine'[f].linked)
        BY <4>2 DEF EngineRecord
      <4>4. \A e \in Engine : e # f => engine'[e] = engine[e]
        BY <1>a, <4>1
      <4>5. Held
        BY <4>3, <4>4 DEF Held
      <4> QED
        BY <4>3, <4>5 DEF f
    <3>3. ASSUME NEW j \in 1 .. 4, Past(j)' PROVE IsMended(j)'
      <4>1. CASE j = fs.k
        BY <1>a, <3>1, <3>2, <4>1, KindIs DEF IsMended
      <4>2. CASE j # fs.k
        <5>1. Past(j)
          BY <3>1, <3>3, <4>2 DEF Past
        <5>2. IsMended(j)
          BY <2>e, <3>1, <5>1
        <5> QED
          BY <1>h, <3>2, <5>2
      <4> QED
        BY <4>1, <4>2
    <3> QED
      BY <2>b, <3>1, <3>3 DEF MendInv
  <2>6. CASE Disconnect
    <3>1. CASE fs' = FsFails
      BY <2>g, <3>1
    <3>2. CASE fs' = [fs EXCEPT !.at = "mend"]
      <4>1. /\ fs'.at = "mend" /\ fs'.k = fs.k /\ ~fs'.err
            /\ engine' = [engine EXCEPT ![FsEngine].linked = FALSE]
            /\ fs.k \in {3, 4} /\ fs.at = "break" /\ FsEngine \in Engine
        BY <1>a, <2>e, <2>6, <3>2, KindIs, Engines DEF Disconnect, FsRecord
      <4>2. \A e \in Engine : engine'[e].up = engine[e].up
        BY <1>a, <4>1 DEF EngineRecord
      <4>3. fs.k = 4 => engine'[Graydb] = engine[Graydb]
        BY <1>a, <4>1, KindIs, Engines
      <4>4. ASSUME NEW j \in 1 .. 4, Past(j)' PROVE IsMended(j)'
        <5>1. j < fs.k /\ Past(j) /\ j \in {1, 2, 3}
          BY <4>1, <4>4 DEF Past
        <5>2. IsMended(j)
          BY <2>e, <4>1, <5>1
        <5>3. j = 3 => fs.k = 4
          BY <4>1, <5>1
        <5> QED
          BY <4>2, <4>3, <5>1, <5>2, <5>3, Engines DEF IsMended
      <4> QED
        BY <2>b, <4>1, <4>4 DEF MendInv
    <3> QED
      BY <2>6, <3>1, <3>2 DEF Disconnect
  <2>7. CASE Reconnect
    <3>1. /\ fs'.at = "aim" /\ fs'.k = fs.k /\ ~fs'.err
          /\ engine' = [engine EXCEPT ![FsEngine].linked = TRUE]
          /\ fs.k \in {3, 4} /\ fs.at = "mend" /\ FsEngine \in Engine
      BY <1>a, <2>e, <2>7, KindIs, Engines DEF Reconnect, FsRecord
    <3>2. engine'[FsEngine].linked /\ Held
      <4> DEFINE f == FsEngine
      <4>1. f \in Engine /\ engine' = [engine EXCEPT ![f].linked = TRUE]
        BY <3>1
      <4> HIDE DEF f
      <4>2. engine'[f] = [engine[f] EXCEPT !.linked = TRUE] /\ engine[f] \in EngineRecord
        BY <1>a, <4>1
      <4>3. engine'[f].linked /\ (engine[f].up => engine'[f].up) /\ (engine[f].linked => engine'[f].linked)
        BY <4>2 DEF EngineRecord
      <4>4. \A e \in Engine : e # f => engine'[e] = engine[e]
        BY <1>a, <4>1
      <4>5. Held
        BY <4>3, <4>4 DEF Held
      <4> QED
        BY <4>3, <4>5 DEF f
    <3>3. ASSUME NEW j \in 1 .. 4, Past(j)' PROVE IsMended(j)'
      <4>1. CASE j = fs.k
        BY <1>a, <3>1, <3>2, <4>1, KindIs DEF IsMended
      <4>2. CASE j # fs.k
        <5>1. Past(j)
          BY <3>1, <3>3, <4>2 DEF Past
        <5>2. IsMended(j)
          BY <2>e, <3>1, <5>1
        <5> QED
          BY <1>h, <3>2, <5>2
      <4> QED
        BY <4>1, <4>2
    <3> QED
      BY <2>b, <3>1, <3>3 DEF MendInv
  <2>8. CASE HaltWriter
    <3>1. UNCHANGED engine /\ fs.at = "break" /\ (fs' = FsFails \/ fs' = [fs EXCEPT !.at = "mend"])
      BY <2>8 DEF HaltWriter, sourceVars
    <3> QED
      BY <1>a, <2>e, <2>g, <2>s, <3>1 DEF FsRecord, Past
  <2>9. CASE ResumeWriter
    <3>1. UNCHANGED engine /\ fs.at = "mend" /\ fs'.at = "aim" /\ fs'.k = fs.k /\ fs'.err = fs.err
          /\ fs.k = 5
      BY <1>a, <2>9, KindIs DEF ResumeWriter, sourceVars, FsRecord
    <3>2. \A j \in 1 .. 4 : Past(j)
      BY <3>1 DEF Past
    <3> QED
      BY <2>e, <2>s, <3>1, <3>2
  <2>10. CASE Aim
    BY <1>a, <2>e, <2>s, <2>10 DEF Aim, worldVars, sourceVars, FsRecord, Past
  <2>11. CASE CaughtUp
    <3>1. /\ UNCHANGED engine /\ fs.at = "await" /\ fs'.at = "validate" /\ fs'.k = fs.k
          /\ fs'.err = fs.err
      BY <1>a, <2>11 DEF CaughtUp, worldVars, sourceVars, FsRecord
    <3> QED
      BY <2>e, <2>s, <3>1 DEF Past
  <2>12. CASE NotCaughtUp
    BY <2>g, <2>12 DEF NotCaughtUp
  <2>13. CASE Validated
    <3>0. UNCHANGED engine /\ fs.at = "validate" /\ (fs' = FsFails \/ fs' = FsNext)
      BY <2>13 DEF Validated, worldVars, sourceVars
    <3>1. CASE fs' = FsFails
      BY <2>g, <3>1
    <3>2. CASE fs' = [fs EXCEPT !.at = "aim", !.todo = Tail(fs.todo)]
      <4>1. fs'.at = "aim" /\ fs'.k = fs.k /\ fs'.err = fs.err
        BY <1>a, <3>2 DEF FsRecord
      <4> QED
        BY <2>e, <2>s, <3>0, <4>1 DEF Past
    <3>3. CASE fs' = [NoFailure EXCEPT !.at = "steady", !.k = fs.k + 1]
      <4>1. fs'.at = "steady" /\ fs'.k = fs.k + 1 /\ ~fs'.err
        BY <3>3 DEF NoFailure
      <4>2. \A j \in 1 .. 4 : Past(j)' => Past(j)
        BY <1>k, <3>0, <4>1 DEF Past
      <4> QED
        BY <2>s, <3>0, <4>1, <4>2
    <3>4. CASE fs' = [fs EXCEPT !.at = "stop"] /\ ~(fs.k < Len(Failures))
      <4>1. fs'.at = "stop" /\ fs'.k = fs.k /\ fs'.err = fs.err /\ fs.k = 5
        BY <1>a, <1>k, <3>4, FailuresAre DEF FsRecord
      <4>2. \A j \in 1 .. 4 : IsMended(j)'
        <5>1. \A j \in 1 .. 4 : IsMended(j)
          BY <2>e, <3>0, <4>1 DEF Past
        <5> QED
          BY <1>2, <1>h, <3>0, <5>1
      <4> QED
        BY <2>b, <4>1, <4>2 DEF MendInv
    <3> QED
      BY <1>a, <3>0, <3>1, <3>2, <3>3, <3>4 DEF FsNext, FsRecord
  <2>14. CASE FailureCallFails
    BY <2>g, <2>14 DEF FailureCallFails
  <2>15. CASE StopSequence
    <3>1. /\ UNCHANGED engine /\ fs.at = "stop" /\ fs'.at = "done" /\ fs'.k = fs.k
          /\ fs'.err = (fs.err \/ StopErr)
      BY <1>a, <2>15 DEF StopSequence, sourceVars, FsRecord
    <3>2. ~fs'.err => fs.k = 5 /\ \A j \in 1 .. 4 : IsMended(j)
      <4> SUFFICES ASSUME ~fs'.err PROVE fs.k = 5 /\ \A j \in 1 .. 4 : IsMended(j)
        OBVIOUS
      <4>1. ~fs.err
        BY <3>1
      <4>2. fs.k = 5
        BY <1>a, <3>1, <4>1 DEF MendInv
      <4>3. \A j \in 1 .. 4 : Past(j)
        BY <4>2 DEF Past
      <4> QED
        BY <1>a, <3>1, <4>1, <4>2, <4>3 DEF MendInv
    <3>3. \A j \in 1 .. 4 : IsMended(j) => IsMended(j)'
      BY <1>2, <1>h, <3>1
    <3> QED
      BY <2>b, <3>1, <3>2, <3>3 DEF MendInv
  <2> QED
    BY <1>8, <2>1, <2>2, <2>3, <2>4, <2>5, <2>6, <2>7, <2>8, <2>9, <2>10, <2>11, <2>12, <2>13, <2>14, <2>15
       DEF Breaking, FailureStep
<1> QED
  BY <1>a, <1>3, <1>4, <1>5, <1>6, <1>7, <1>8, NextIs

-----------------------------------------------------------------------------
(***************************************************************************)
(* The seed, and what the run's records say.                               *)
(***************************************************************************)
\* The stage's body that changes each of these.
StagesChange ==
    /\ wal'["shared"] = wal["shared"] \/ LoadSeed
    /\ mode = "Correctness" => UNCHANGED engine \/ Bootstrap \/ StartCdc
    /\ disk'.manifest = disk.manifest \/ WriteManifest
    /\ disk'.check = disk.check \/ RecordCheck
    /\ disk'.result = disk.result \/ Report
    /\ proc'.step = "loaded" => LoadSeed
    /\ proc'.step = "record" => Checked
    /\ proc'.step = "outcome" => \/ proc.stage \notin {"Seed"} \union Checks
                                 \/ Seeded \/ WriteManifest \/ RecordCheck

LEMMA StagesChanges ==
    ASSUME WorldTypes, RunTypes, StepInv, Stages
    PROVE  StagesChange
<1>a. /\ proc \in ProcRecord /\ disk \in DiskRecord /\ wal \in [Source -> Seq(BOOLEAN)]
      /\ proc.todo \in Seq(Engine) /\ mode \in {"Correctness", "Isolated"}
  BY DEF RunTypes, WorldTypes, ProcRecord
<1>b. proc.step = "measuring" => proc.stage \in Timed
  BY DEF StepInv
<1>c. Fail => proc'.step = "none"
  BY FailIs
<1>d. Timed \intersect ({"Seed"} \union Checks) = {} /\ "Seed" \notin Checks
  BY DEF Timed, Checks
<1>e. \A e \in Engine : e # "shared"
  BY Engines
<1>1. CASE Preflight
  BY <1>a, <1>c, <1>d, <1>1 DEF Preflight, StagesChange, Checks, Doing, Replaying, Step, Finish, ProcRecord, DiskRecord, worldVars, sourceVars
<1>2. CASE Seeded
  BY <1>a, <1>c, <1>d, <1>2 DEF Seeded, StagesChange, Checks, Doing, Replaying, Step, Finish, ProcRecord, DiskRecord, worldVars, sourceVars
<1>3. CASE LoadSeed
  BY <1>a, <1>c, <1>d, <1>3 DEF LoadSeed, StagesChange, Checks, Doing, Replaying, Step, Finish, ProcRecord, DiskRecord, worldVars, sourceVars
<1>4. CASE WriteManifest
  BY <1>a, <1>c, <1>d, <1>4 DEF WriteManifest, StagesChange, Checks, Doing, Replaying, Step, Finish, ProcRecord, DiskRecord, worldVars, sourceVars
<1>5. CASE BackUp
  BY <1>a, <1>c, <1>d, <1>5 DEF BackUp, StagesChange, Checks, Doing, Replaying, Step, Finish, ProcRecord, DiskRecord, worldVars, sourceVars
<1>6. CASE ChecksumBaseline
  BY <1>a, <1>c, <1>d, <1>6 DEF ChecksumBaseline, StagesChange, Checks, Doing, Replaying, Step, Finish, ProcRecord, DiskRecord, worldVars, sourceVars
<1>7. CASE VerifyBaseline
  BY <1>a, <1>c, <1>d, <1>7 DEF VerifyBaseline, StagesChange, Checks, Doing, Replaying, Step, Finish, ProcRecord, DiskRecord, worldVars, sourceVars
<1>8. CASE BaselineRefused
  BY <1>a, <1>c, <1>d, <1>8 DEF BaselineRefused, StagesChange, Checks, Doing, Replaying, Step, Finish, ProcRecord, DiskRecord, worldVars, sourceVars
<1>9. CASE RestoreRefused
  BY <1>a, <1>c, <1>d, <1>9 DEF RestoreRefused, StagesChange, Checks, Doing, Replaying, Step, Finish, ProcRecord, DiskRecord, worldVars, sourceVars
<1>10. CASE Restore
  <2>1. Head(proc.todo) # "shared"
    BY <1>a, <1>e, <1>10 DEF Restore
  <2>2. wal'["shared"] = wal["shared"]
    BY <1>a, <1>10, <2>1 DEF Restore
  <2>3. proc'.step = "prepare"
    BY <1>a, <1>10 DEF Restore, Doing, ProcRecord
  <2>4. UNCHANGED engine /\ disk'.manifest = disk.manifest /\ disk'.check = disk.check
        /\ disk'.result = disk.result
    BY <1>a, <1>10 DEF Restore, DiskRecord
  <2> QED
    BY <2>2, <2>3, <2>4 DEF StagesChange
<1>11. CASE StartReplays
  BY <1>a, <1>c, <1>d, <1>11 DEF StartReplays, StagesChange, Checks, Doing, Replaying, Step, Finish, ProcRecord, DiskRecord, worldVars, sourceVars
<1>12. ASSUME NEW e \in Engine, ReplayTransaction(e) PROVE StagesChange
  <2>1. PICK others \in {<<>>, <<FALSE>>} : wal' = [wal EXCEPT ![e] = @ \o <<TRUE>> \o others]
    BY <1>12 DEF ReplayTransaction
  <2>2. wal'["shared"] = wal["shared"]
    BY <1>a, <1>e, <2>1
  <2>3. proc'.step = "replay"
    BY <1>a, <1>12 DEF ReplayTransaction, Replaying, Doing, ProcRecord
  <2>4. UNCHANGED <<engine, disk>>
    BY <1>12 DEF ReplayTransaction
  <2> QED
    BY <2>2, <2>3, <2>4 DEF StagesChange
<1>13. ASSUME NEW e \in Engine, PushReplayed(e) PROVE StagesChange
  BY <1>a, <1>c, <1>d, <1>13 DEF PushReplayed, StagesChange, Checks, Doing, Replaying, Step, Finish, ProcRecord, DiskRecord, worldVars, sourceVars
<1>14. ASSUME NEW e \in Engine, Replayed(e) PROVE StagesChange
  BY <1>a, <1>c, <1>d, <1>14 DEF Replayed, StagesChange, Checks, Doing, Replaying, Step, Finish, ProcRecord, DiskRecord, worldVars, sourceVars
<1>15. CASE ValidateReplays
  BY <1>a, <1>c, <1>d, <1>15 DEF ValidateReplays, StagesChange, Checks, Doing, Replaying, Step, Finish, ProcRecord, DiskRecord, worldVars, sourceVars
<1>16. CASE Bootstrap
  BY <1>a, <1>c, <1>d, <1>16 DEF Bootstrap, StagesChange, Checks, Doing, Replaying, Step, Finish, ProcRecord, DiskRecord, worldVars, sourceVars
<1>17. CASE StartCdc
  BY <1>a, <1>c, <1>d, <1>17 DEF StartCdc, StagesChange, Checks, Doing, Replaying, Step, Finish, ProcRecord, DiskRecord, worldVars, sourceVars
<1>18. CASE NextCheck
  <2>1. Step("check") \/ Step("activate") \/ Step("checking")
    BY <1>18, ActivateSteps DEF NextCheck
  <2>2. proc'.step \in {"check", "activate", "checking"}
    BY <1>a, <2>1 DEF Step, ProcRecord
  <2>3. UNCHANGED <<wal, disk>> /\ (mode = "Correctness" => UNCHANGED engine)
    BY <1>18 DEF NextCheck, ActivationWaits
  <2> QED
    BY <2>2, <2>3 DEF StagesChange
<1>19. CASE Checked
  <2>1. CASE ~cp.err
    <3>1. proc'.step \in {"body", "record"}
      BY <1>a, <1>19, <2>1 DEF Checked, ProcRecord
    <3> QED
      BY <1>19, <3>1 DEF Checked, StagesChange, sourceVars
  <2> QED
    BY <1>c, <1>19, <2>1 DEF Checked, StagesChange, sourceVars
<1>20. CASE RecordCheck
  BY <1>a, <1>c, <1>d, <1>20 DEF RecordCheck, StagesChange, Checks, Doing, Replaying, Step, Finish, ProcRecord, DiskRecord, worldVars, sourceVars
<1>21. CASE NextWindow
  <2>1. Step("window") \/ Step("activate") \/ Step("measuring")
    BY <1>21, ActivateSteps DEF NextWindow
  <2>2. proc'.step \in {"window", "activate", "measuring"}
    BY <1>a, <2>1 DEF Step, ProcRecord
  <2>3. UNCHANGED <<wal, disk>> /\ (mode = "Correctness" => UNCHANGED engine)
    BY <1>21 DEF NextWindow, ActivationWaits
  <2> QED
    BY <2>2, <2>3 DEF StagesChange
<1>22. CASE Measured
  <2>1. proc.stage \notin {"Seed"} \union Checks
    BY <1>b, <1>d, <1>22 DEF Measured
  <2>2. \/ Fail \/ Finish(FALSE) \/ Finish(TRUE)
        \/ proc' = [proc EXCEPT !.step = "body", !.todo = Tail(@)]
        \/ proc' = [proc EXCEPT !.step = "body", !.rates = Tail(@),
                                !.todo = IF mode = "Isolated" THEN Both ELSE <<>>]
    BY <1>22 DEF Measured
  <2>3. proc'.step \in {"none", "outcome", "body"}
    BY <1>a, <1>c, <2>2 DEF Finish, ProcRecord
  <2>4. UNCHANGED <<wal, engine, disk>>
    BY <1>22 DEF Measured, sourceVars
  <2> QED
    BY <2>1, <2>3, <2>4 DEF StagesChange
<1>23. CASE BreakThings
  BY <1>a, <1>c, <1>d, <1>23 DEF BreakThings, StagesChange, Checks, Doing, Replaying, Step, Finish, ProcRecord, DiskRecord, worldVars, sourceVars
<1>24. CASE Broken
  BY <1>a, <1>c, <1>d, <1>24 DEF Broken, StagesChange, Checks, Doing, Replaying, Step, Finish, ProcRecord, DiskRecord, worldVars, sourceVars
<1>25. CASE Report
  BY <1>a, <1>c, <1>d, <1>25 DEF Report, StagesChange, Checks, Doing, Replaying, Step, Finish, ProcRecord, DiskRecord, worldVars, sourceVars
<1>26. CASE Checksums
  BY <1>a, <1>c, <1>d, <1>26 DEF Checksums, StagesChange, Checks, Doing, Replaying, Step, Finish, ProcRecord, DiskRecord, worldVars, sourceVars
<1>27. CASE CompleteRun
  BY <1>a, <1>c, <1>d, <1>27 DEF CompleteRun, StagesChange, Checks, Doing, Replaying, Step, Finish, ProcRecord, DiskRecord, worldVars, sourceVars
<1>28. CASE StageFails
  BY <1>a, <1>c, <1>d, <1>28 DEF StageFails, StagesChange, Checks, Doing, Replaying, Step, Finish, ProcRecord, DiskRecord, worldVars, sourceVars
<1> QED
  BY <1>1, <1>2, <1>3, <1>4, <1>5, <1>6, <1>7, <1>8, <1>9, <1>10, <1>11, <1>12, <1>13, <1>14, <1>15, <1>16, <1>17, <1>18, <1>19, <1>20, <1>21, <1>22, <1>23, <1>24, <1>25, <1>26, <1>27, <1>28 DEF Stages

\* The writer commits only in a stage that has one.
LEMMA WriterWorks ==
    ASSUME RunInv, writer.alive
    PROVE  /\ proc.at = "stage" /\ proc.stage \in Writes /\ ~state.invalid
           /\ proc.step \in {"measuring", "breaking"}
           /\ state.done["Seed"] # "no" /\ state.done["BaselineSnapshot"] # "no"
           /\ state.done["Bootstrap"] # "no" /\ state.done["FinalCheckpoint"] = "no"
           /\ proc.stage # "FinalCheckpoint"
<1>1. proc.step \in {"measuring", "breaking"}
  BY DEF RunInv, WriterInv, Writing
<1>2. proc.at = "stage" /\ proc.stage \in Writes
  BY <1>1 DEF RunInv, StepInv, Writes
<1>3. proc.stage # "FinalCheckpoint"
  BY <1>2 DEF Writes, Timed
<1> QED
  BY <1>1, <1>2, <1>3, BeforeAndAfter DEF RunInv

\* What a record of the source adds.
LEMMA GrowthIs ==
    ASSUME WorldTypes, WriterCommits \/ OtherRecord
    PROVE  \A source \in Source :
             Published(source) \subseteq Published(source)' /\ Len(wal[source]) <= Len(wal'[source])
<1>1. PICK b \in BOOLEAN : Appended(b)
  BY DEF WriterCommits, OtherRecord
<1> DEFINE more == Append(wal[Here], b)
<1>2. wal' = [wal EXCEPT ![Here] = more]
  BY <1>1 DEF Appended
<1>3. wal \in [Source -> Seq(BOOLEAN)] /\ Here \in Source /\ wal[Here] \in Seq(BOOLEAN)
  BY HereIs DEF WorldTypes
<1>4. /\ Len(wal[Here]) \in Nat /\ DOMAIN wal[Here] = 1 .. Len(wal[Here])
      /\ DOMAIN more = 1 .. Len(wal[Here]) + 1 /\ Len(more) = Len(wal[Here]) + 1
      /\ \A i \in 1 .. Len(wal[Here]) : more[i] = wal[Here][i]
  BY <1>3
<1> HIDE DEF more
<1>5. {p \in DOMAIN wal[Here] : wal[Here][p]} \subseteq {p \in DOMAIN more : more[p]}
  BY <1>4
<1>6. ASSUME NEW source \in Source
      PROVE  Published(source) \subseteq Published(source)' /\ Len(wal[source]) <= Len(wal'[source])
  <2>1. CASE source = Here
    <3>1. wal'[source] = more
      BY <1>2, <1>3, <2>1
    <3> QED
      BY <1>4, <1>5, <2>1, <3>1 DEF Published
  <2>2. CASE source # Here
    <3>1. wal'[source] = wal[source] /\ wal[source] \in Seq(BOOLEAN)
      BY <1>2, <1>3, <2>2
    <3>2. Len(wal[source]) \in Nat
      BY <3>1
    <3> QED
      BY <3>1, <3>2 DEF Published
  <2> QED
    BY <2>1, <2>2
<1> QED
  BY <1>6

\* What the controller writes into the record of the stages.
LEMMA DoneIs ==
    ASSUME RunTypes, StageInv, Controller
    PROVE  /\ UNCHANGED <<mode, wal, engine, ledger, disk, maps>>
           /\ proc'.step \in {"none", "body"} \/ UNCHANGED proc
           /\ \A s \in Stage : state.done[s] # "no" => state'.done[s] = state.done[s]
           /\ \A s \in Stage : state'.done[s] # state.done[s] =>
                Doing(s, "outcome") /\ proc'.at # "stage" /\ state'.invalid = (state.invalid \/ state'.done[s] # "valid")
<1>a. state \in StateRecord
  BY DEF RunTypes
<1>1. CASE Create \/ SetPlan \/ ResumeRun \/ ArchiveUnplanned \/ Begin \/ End
  <2>1. state'.done = state.done
    BY <1>a, <1>1 DEF Create, SetPlan, ResumeRun, ArchiveUnplanned, Begin, End, StateRecord
  <2>2. /\ UNCHANGED <<mode, wal, engine, ledger, disk, maps>>
        /\ proc'.step \in {"none", "body"} \/ UNCHANGED proc
    BY <1>1 DEF Create, SetPlan, ResumeRun, ArchiveUnplanned, Begin, End, AtBoundary, Down,
       worldVars, sourceVars
  <2> QED
    BY <2>1, <2>2
<1>2. CASE ExitFailed
  BY <1>2, ExitIs DEF ExitFailed, Down, sourceVars
<1>3. ASSUME NEW valid \in BOOLEAN, Complete(valid)
      PROVE  /\ UNCHANGED <<mode, wal, engine, ledger, disk, maps>>
             /\ proc'.step \in {"none", "body"} \/ UNCHANGED proc
             /\ \A s \in Stage : state.done[s] # "no" => state'.done[s] = state.done[s]
             /\ \A s \in Stage : state'.done[s] # state.done[s] =>
                  Doing(s, "outcome") /\ proc'.at # "stage" /\ state'.invalid = (state.invalid \/ state'.done[s] # "valid")
  <2>1. /\ state'.done = [state.done EXCEPT ![proc.stage] = IF valid THEN "valid" ELSE "invalid"]
        /\ state'.invalid = (state.invalid \/ ~valid)
        /\ state.done \in [Stage -> {"no", "valid", "invalid"}]
        /\ proc.at = "stage" /\ proc.step = "outcome"
    BY <1>a, <1>3 DEF Complete, StateRecord
  <2>2. proc.stage \in Stage /\ state.done[proc.stage] = "no"
    BY <2>1, UnderWay
  <2>3. /\ UNCHANGED <<mode, wal, engine, ledger, disk, maps>>
        /\ proc'.step = "none" /\ proc'.at # "stage"
    BY <1>3, ExitIs DEF Complete, AtBoundary, Down, sourceVars
  <2>4. \A s \in Stage : s # proc.stage => state'.done[s] = state.done[s]
    BY <2>1
  <2>5. state'.done[proc.stage] = IF valid THEN "valid" ELSE "invalid"
    BY <2>1, <2>2
  <2> QED
    BY <2>1, <2>2, <2>3, <2>4, <2>5 DEF Doing
<1> QED
  BY <1>1, <1>2, <1>3 DEF Controller

LEMMA SeedStays ==
    ASSUME RunInv, WorldTypes', RunTypes', CallTypes', [Next]_vars
    PROVE  SeedInv'
<1>a. /\ SeedInv /\ StepInv /\ TurnInv /\ StageInv /\ RunTypes /\ WorldTypes
      /\ engine \in [Engine -> EngineRecord] /\ engine' \in [Engine -> EngineRecord]
      /\ wal \in [Source -> Seq(BOOLEAN)] /\ proc \in ProcRecord /\ state \in StateRecord
      /\ disk \in DiskRecord
  BY DEF RunInv, WorldTypes, RunTypes
<1>s. "Seed" \in Stage /\ "Bootstrap" \in Stage
  BY StageIs
\* The source may grow after the engines have been loaded, and an engine goes on.
<1> DEFINE Grows == /\ Published("shared") \subseteq Published("shared")'
                    /\ Len(wal["shared"]) <= Len(wal'["shared"])
                    /\ state.done["Bootstrap"] # "no" \/ Published("shared")' = Published("shared")
           Goes == \A e \in Engine :
                     /\ engine'[e].snap = engine[e].snap /\ engine'[e].base = engine[e].base
                     /\ engine[e].applied <= engine'[e].applied
                     /\ \/ engine'[e].lost = engine[e].lost
                        \/ /\ mode = "Correctness" => engine'[e].lost \subseteq engine[e].lost \union Published("shared")
                           /\ engine[e].snap # 0 /\ mode = "Correctness" =>
                                (1 \in engine'[e].lost => 1 \in engine[e].lost)
           Keeps == /\ mode' = mode /\ (disk.manifest => disk'.manifest)
                    /\ proc'.step = "loaded" => proc.step = "loaded"
                    /\ Doing("Seed", "outcome")' => disk.manifest
                    /\ state'.done["Seed"] # "no" =>
                         state.done["Seed"] # "no" \/ Doing("Seed", "outcome")
                    /\ state.done["Seed"] # "no" => state'.done["Seed"] # "no"
                    /\ state.done["Bootstrap"] # "no" => state'.done["Bootstrap"] # "no"
                    /\ disk'.manifest => disk.manifest
<1>1. ASSUME Grows, Goes, Keeps PROVE SeedInv'
  <2>1. disk'.manifest \/ proc'.step = "loaded" => 1 \in Published("shared")'
    BY <1>a, <1>1 DEF SeedInv
  <2>2. Doing("Seed", "outcome")' \/ state'.done["Seed"] # "no" => disk'.manifest
    BY <1>a, <1>1 DEF SeedInv
  <2>3. mode = "Correctness" /\ state'.done["Bootstrap"] = "no" => Published("shared")' \subseteq {1}
    BY <1>a, <1>1 DEF SeedInv
  <2>4. ASSUME mode = "Correctness", NEW e \in Engine, engine'[e].snap # 0
        PROVE  /\ state'.done["Seed"] # "no"
               /\ engine'[e].base = {1} /\ 1 \notin engine'[e].lost
               /\ 1 <= engine'[e].applied /\ engine'[e].snap <= Len(wal'["shared"])
               /\ engine'[e].lost \subseteq Published("shared")'
    <3>1. engine[e].snap # 0
      BY <1>1, <2>4
    <3>2. /\ state.done["Seed"] # "no"
          /\ engine[e].base = {1} /\ 1 \notin engine[e].lost
          /\ 1 <= engine[e].applied /\ engine[e].snap <= Len(wal["shared"])
          /\ engine[e].lost \subseteq Published("shared")
      BY <1>a, <2>4, <3>1 DEF SeedInv
    <3>3. engine[e].applied \in Nat /\ engine'[e].applied \in Nat /\ engine[e].snap \in Nat
          /\ engine[e].applied <= engine'[e].applied /\ engine'[e].snap = engine[e].snap
      BY <1>a, <1>1 DEF EngineRecord
    <3>4. Len(wal["shared"]) \in Nat /\ Len(wal'["shared"]) \in Nat
      <4>1. wal["shared"] \in Seq(BOOLEAN) /\ wal'["shared"] \in Seq(BOOLEAN)
        BY Engines DEF WorldTypes, RunInv
      <4> QED
        BY <4>1
    <3>5. 1 <= engine'[e].applied /\ engine'[e].snap <= Len(wal'["shared"])
      BY <1>1, <3>2, <3>3, <3>4
    <3>6. 1 \notin engine'[e].lost /\ engine'[e].lost \subseteq Published("shared")'
      BY <1>1, <2>4, <3>1, <3>2
    <3> QED
      BY <1>1, <3>2, <3>5, <3>6
  <2> QED
    BY <1>1, <2>1, <2>2, <2>3, <2>4 DEF SeedInv
<1>2. UNCHANGED wal => Grows
  <2>1. Len(wal["shared"]) \in Nat
    <3>1. wal["shared"] \in Seq(BOOLEAN)
      BY <1>a, Engines
    <3> QED
      BY <3>1
  <2> QED
    BY <2>1 DEF Published
<1>3. ASSUME \A e \in Engine : engine'[e] = engine[e] \/ SameData(e) PROVE Goes
  <2>1. \A e \in Engine : engine[e].applied <= engine[e].applied
    BY <1>a DEF EngineRecord
  <2> QED
    BY <1>3, <2>1 DEF SameData
<1>r. UNCHANGED <<mode, state, disk, proc>> => Keeps
  BY <1>a DEF SeedInv, Doing
<1>4. CASE Controller
  <2>1. Grows /\ Goes
    BY <1>a, <1>2, <1>3, <1>4, DoneIs
  <2>2. Keeps
    <3>1. UNCHANGED <<mode, disk>> /\ (proc'.step \in {"none", "body"} \/ UNCHANGED proc)
      BY <1>a, <1>4, DoneIs
    <3>2. state'.done["Seed"] # "no" => state.done["Seed"] # "no" \/ Doing("Seed", "outcome")
      BY <1>a, <1>s, <1>4, DoneIs
    <3>3. /\ state.done["Seed"] # "no" => state'.done["Seed"] # "no"
          /\ state.done["Bootstrap"] # "no" => state'.done["Bootstrap"] # "no"
      BY <1>a, <1>s, <1>4, DoneIs
    <3>4. Doing("Seed", "outcome")' => disk.manifest
      BY <1>a, <3>1 DEF Doing, SeedInv
    <3> QED
      BY <3>1, <3>2, <3>3, <3>4
  <2> HIDE DEF Grows, Goes, Keeps
  <2> QED
    BY <1>1, <2>1, <2>2
<1>5. CASE Crash
  <2>1. Grows /\ Goes
    BY <1>2, <1>3, <1>5 DEF Crash, sourceVars
  <2>2. Keeps
    BY <1>5, ExitIs DEF Crash, sourceVars, Down, Doing
  <2> HIDE DEF Grows, Goes, Keeps
  <2> QED
    BY <1>1, <2>1, <2>2
<1>6. CASE Checkpointing \/ Measuring \/ Breaking \/ Resting
  <2>1. Grows /\ Goes
    BY <1>2, <1>3, <1>6 DEF Checkpointing, Measuring, Breaking, Resting
  <2>2. Keeps
    BY <1>6, <1>r DEF Checkpointing, Measuring, Breaking, Resting
  <2> HIDE DEF Grows, Goes, Keeps
  <2> QED
    BY <1>1, <2>1, <2>2
<1>7. CASE Serving
  <2>1. Keeps
    BY <1>7, <1>r DEF Serving
  <2>2. CASE WriterCommits
    <3>1. state.done["Bootstrap"] # "no"
      BY <2>2, WriterWorks DEF WriterCommits
    <3>2. Grows
      BY <1>a, <2>2, <3>1, GrowthIs, Engines
    <3>3. Goes
      BY <1>3, <2>2 DEF WriterCommits
    <3> HIDE DEF Grows, Goes, Keeps
    <3> QED
      BY <1>1, <2>1, <3>2, <3>3
  <2>3. CASE OtherRecord
    <3>1. Published("shared")' = Published("shared")
      BY <1>a, <2>3, OtherRecordIs, Engines
    <3>2. Grows
      BY <1>a, <2>3, <3>1, GrowthIs, Engines
    <3>3. Goes
      BY <1>3, <2>3 DEF OtherRecord
    <3> HIDE DEF Grows, Goes, Keeps
    <3> QED
      BY <1>1, <2>1, <3>2, <3>3
  <2>4. CASE WriterDies
    <3>1. Grows /\ Goes
      BY <1>2, <1>3, <2>4 DEF WriterDies, sourceVars
    <3> HIDE DEF Grows, Goes, Keeps
    <3> QED
      BY <1>1, <2>1, <3>1
  <2>5. ASSUME NEW d \in Engine, EngineApplies(d) \/ EngineLoses(d) PROVE SeedInv'
    <3>1. Grows
      BY <1>a, <1>2, <2>5, FollowIs
    <3>2. Goes
      <4>1. \A e \in Engine :
                /\ engine'[e].snap = engine[e].snap /\ engine'[e].base = engine[e].base
                /\ engine[e].applied <= engine'[e].applied
                /\ \/ engine'[e].lost = engine[e].lost
                   \/ \E p \in Commits(Here, WalHead) :
                         engine[e].applied < p /\ engine'[e].lost = engine[e].lost \union {p}
        BY <1>a, <2>5, FollowIs
      <4>2. mode = "Correctness" => Commits(Here, WalHead) \subseteq Published("shared")
        BY <1>a, PublishedIs DEF TurnInv, Here
      <4>3. ASSUME NEW e \in Engine, mode = "Correctness", engine[e].snap # 0 PROVE 1 <= engine[e].applied
        BY <1>a, <4>3 DEF SeedInv
      <4>4. \A e \in Engine : engine[e].applied \in Nat
        BY <1>a DEF EngineRecord
      <4> QED
        BY <4>1, <4>2, <4>3, <4>4
    <3> HIDE DEF Grows, Goes, Keeps
    <3> QED
      BY <1>1, <2>1, <3>1, <3>2
  <2> QED
    BY <1>7, <2>2, <2>3, <2>4, <2>5 DEF Serving, Services
<1>8. CASE Stages
  <2>a. StagesChange
    BY <1>a, <1>8, StagesChanges
  <2>b. /\ proc.at = "stage" /\ mode' = mode /\ state'.done = state.done
        /\ \/ proc'.at = "stage" /\ proc'.stage = proc.stage
           \/ proc'.step = "none"
    BY <1>a, <1>8, StagesFrame, FailIs
  <2>c. proc.stage \in {"Seed", "BaselineSnapshot", "Bootstrap"} => state.done["Bootstrap"] = "no"
    BY <1>a, <2>b, BeforeAndAfter
  <2>d. Len(wal["shared"]) \in Nat
    <3>1. wal["shared"] \in Seq(BOOLEAN)
      BY <1>a, Engines
    <3> QED
      BY <3>1
  <2>1. CASE LoadSeed
    <3>1. proc.stage = "Seed" /\ ~disk.manifest /\ UNCHANGED <<engine, disk>>
      BY <2>1 DEF LoadSeed, Doing
    <3>2. state.done["Seed"] = "no"
      BY <1>a, <2>b, <3>1, UnderWay
    <3>3. Published("shared")' = {1}
      <4>1. wal'["shared"] = <<TRUE>>
        BY <1>a, <2>1, Engines DEF LoadSeed
      <4>2. \A t : t = <<TRUE>> => {p \in DOMAIN t : t[p]} = {1}
        <5> DEFINE one == <<TRUE>>
        <5>1. one \in Seq(BOOLEAN) /\ Len(one) = 1 /\ one[1] = TRUE
          OBVIOUS
        <5> HIDE DEF one
        <5>2. DOMAIN one = 1 .. 1
          BY <5>1
        <5>3. {p \in DOMAIN one : one[p]} = {1}
          BY <5>1, <5>2
        <5> QED
          BY <5>3 DEF one
      <4> QED
        BY <4>1, <4>2 DEF Published
    <3>4. proc'.step = "loaded"
      BY <1>a, <2>1 DEF LoadSeed, Step, ProcRecord
    <3>5. mode = "Correctness" => \A e \in Engine : engine[e].snap = 0
      BY <1>a, <3>2 DEF SeedInv
    <3> QED
      BY <2>b, <3>1, <3>2, <3>3, <3>4, <3>5 DEF SeedInv, Doing
  <2>2. CASE WriteManifest
    <3>1. proc.step = "loaded" /\ disk'.manifest /\ UNCHANGED <<wal, engine, state, mode>>
          /\ proc'.step = "outcome"
      BY <1>a, <2>2 DEF WriteManifest, Doing, Finish, worldVars, sourceVars, DiskRecord, ProcRecord
    <3>2. 1 \in Published("shared")
      BY <1>a, <3>1 DEF SeedInv
    <3> QED
      BY <1>a, <3>1, <3>2 DEF SeedInv, Published
  <2>3. CASE Bootstrap
    <3>1. proc.stage = "Bootstrap" /\ UNCHANGED <<wal, disk>>
      BY <2>3 DEF Bootstrap, Doing
    <3>2. proc'.step # "loaded" /\ ~Doing("Seed", "outcome")'
      <4>1. proc'.step \in {"outcome", "follow"}
        BY <1>a, <2>3 DEF Bootstrap, Finish, Step, ProcRecord
      <4> QED
        BY <2>b, <3>1, <4>1 DEF Doing
    <3>3. Published("shared")' = Published("shared")
      BY <3>1 DEF Published
    <3>4. ASSUME mode = "Correctness", NEW e \in Engine, engine'[e].snap # 0
          PROVE  /\ state.done["Seed"] # "no"
                 /\ engine'[e].base = {1} /\ 1 \notin engine'[e].lost
                 /\ 1 <= engine'[e].applied /\ engine'[e].snap <= Len(wal["shared"])
                 /\ engine'[e].lost \subseteq Published("shared")
      <4>1. state.done["Seed"] # "no"
        BY <1>a, <2>b, <3>1, BeforeAndAfter
      <4>2. Published("shared") = {1} /\ 1 <= Len(wal["shared"])
        <5>1. 1 \in Published("shared") /\ Published("shared") \subseteq {1}
          BY <1>a, <2>c, <3>1, <3>4, <4>1 DEF SeedInv
        <5>2. DOMAIN wal["shared"] = 1 .. Len(wal["shared"])
          <6>1. wal["shared"] \in Seq(BOOLEAN)
            BY <1>a, Engines
          <6> QED
            BY <6>1
        <5> QED
          BY <2>d, <5>1, <5>2 DEF Published
      <4>3. Here = "shared" /\ Commits(Here, WalHead) = {1} /\ WalHead = Len(wal["shared"])
        BY <1>a, <3>4, <4>2, PublishedIs DEF TurnInv, Here, WalHead
      <4> DEFINE Good(r) == /\ r.base = {1} /\ 1 \notin r.lost /\ 1 <= r.applied
                            /\ r.snap <= Len(wal["shared"]) /\ r.lost \subseteq Published("shared")
      <4>4. Good(Loaded(Clickhouse, InitialLsn)) /\ Good(Loaded(Graydb, WalHead))
        BY <2>d, <4>2, <4>3 DEF Loaded, Unloaded, InitialLsn
      <4>5. engine[Graydb].snap # 0 => Good(engine[Graydb])
        BY <1>a, <3>4, Engines DEF SeedInv
      <4>6. Good(Attached(Graydb))
        BY <4>4, <4>5 DEF Attached
      <4> DEFINE g == Attached(Graydb)
                 c == Loaded(Clickhouse, InitialLsn)
      <4>7. engine' = [engine EXCEPT ![Graydb] = g, ![Clickhouse] = c] /\ Good(g) /\ Good(c)
        BY <2>3, <3>4, <4>4, <4>6 DEF Bootstrap
      <4> HIDE DEF g, c
      <4>8. engine'[Graydb] = g /\ engine'[Clickhouse] = c
        BY <1>a, <4>7, Engines
      <4>9. Good(engine'[e])
        BY <4>7, <4>8 DEF Engine
      <4> QED
        BY <4>1, <4>9
    <3>5. mode = "Correctness" => state.done["Bootstrap"] = "no" /\ Published("shared") \subseteq {1}
      BY <1>a, <2>c, <3>1 DEF SeedInv
    <3> QED
      BY <1>a, <2>b, <3>1, <3>2, <3>3, <3>4, <3>5 DEF SeedInv
  <2>4. CASE StartCdc
    <3>1. proc.stage = "Bootstrap" /\ UNCHANGED <<mode, wal, disk, state>> /\ proc'.step = "outcome"
      BY <1>a, <2>4 DEF StartCdc, Doing, Finish, ProcRecord
    <3>2. Grows
      BY <1>2, <3>1
    <3>3. Goes
      <4> DEFINE head == WalHead
      <4>1. engine' = [engine EXCEPT ![Clickhouse].from = head]
        BY <2>4 DEF StartCdc
      <4> HIDE DEF head
      <4>2. \A e \in Engine :
              /\ engine'[e].snap = engine[e].snap /\ engine'[e].base = engine[e].base
              /\ engine'[e].applied = engine[e].applied /\ engine'[e].lost = engine[e].lost
              /\ engine[e].applied \in Nat
        BY <1>a, <4>1 DEF EngineRecord
      <4> QED
        BY <4>2
    <3>4. Keeps
      BY <2>b, <3>1 DEF Doing
    <3> HIDE DEF Grows, Goes, Keeps
    <3> QED
      BY <1>1, <3>2, <3>3, <3>4
  <2>5. CASE ~LoadSeed /\ ~WriteManifest /\ ~Bootstrap /\ ~StartCdc
    <3>1. wal'["shared"] = wal["shared"] /\ (mode = "Correctness" => UNCHANGED engine)
          /\ disk'.manifest = disk.manifest /\ proc'.step # "loaded"
      BY <2>a, <2>5 DEF StagesChange
    <3>2. Published("shared")' = Published("shared")
      BY <3>1 DEF Published
    <3>3. Doing("Seed", "outcome")' => disk.manifest
      <4>1. Doing("Seed", "outcome")' => Seeded \/ RecordCheck
        BY <2>a, <2>b, <2>5 DEF StagesChange, Doing
      <4>2. RecordCheck => proc.stage # "Seed"
        BY DEF RecordCheck, Checks
      <4> QED
        BY <2>b, <4>1, <4>2 DEF Seeded, Doing
    <3> QED
      BY <1>a, <2>b, <3>1, <3>2, <3>3 DEF SeedInv
  <2> QED
    BY <2>1, <2>2, <2>3, <2>4, <2>5
<1> QED
  BY <1>a, <1>4, <1>5, <1>6, <1>7, <1>8, NextIs

\* A check that counts as passed is recorded as passed.
LEMMA ChecksStay ==
    ASSUME RunInv, WorldTypes', RunTypes', CallTypes', [Next]_vars
    PROVE  \A s \in Checks : (Doing(s, "outcome") \/ state.done[s] = "valid")' =>
                                disk'.check[s] = "pass"
<1>a. /\ RecordInv /\ StageInv /\ StepInv /\ RunTypes /\ WorldTypes
      /\ proc \in ProcRecord /\ state \in StateRecord /\ disk \in DiskRecord
  BY DEF RunInv, RunTypes
<1> SUFFICES ASSUME NEW s \in Checks, (Doing(s, "outcome") \/ state.done[s] = "valid")'
             PROVE  disk'.check[s] = "pass"
  OBVIOUS
<1>b. s \in Stage /\ s # "Seed"
  BY StageIs DEF Checks
<1>c. Doing(s, "outcome") \/ state.done[s] = "valid" => disk.check[s] = "pass"
  BY <1>a DEF RecordInv
<1>1. CASE Controller
  <2>1. disk' = disk /\ (proc'.step \in {"none", "body"} \/ UNCHANGED proc)
    BY <1>a, <1>1, DoneIs
  <2>2. state'.done[s] = "valid" => state.done[s] = "valid" \/ Doing(s, "outcome")
    BY <1>a, <1>b, <1>1, DoneIs
  <2>3. Doing(s, "outcome")' => Doing(s, "outcome")
    BY <2>1 DEF Doing
  <2> QED
    BY <1>c, <2>1, <2>2, <2>3
<1>2. CASE Crash
  BY <1>c, <1>2, ExitIs DEF Crash, Down, Doing
<1>3. CASE Checkpointing \/ Measuring \/ Breaking \/ Serving \/ Resting
  BY <1>c, <1>3 DEF Checkpointing, Measuring, Breaking, Serving, Resting, Doing
<1>4. CASE Stages
  <2>1. /\ proc.at = "stage" /\ state'.done = state.done
        /\ \/ proc'.at = "stage" /\ proc'.stage = proc.stage
           \/ proc'.step = "none"
    BY <1>a, <1>4, StagesFrame, FailIs
  <2>2. CASE RecordCheck
    <3>1. /\ proc.stage \in Checks /\ state.done[proc.stage] = "no"
          /\ disk'.check = [disk.check EXCEPT ![proc.stage] = IF proc.agree THEN "pass" ELSE "fail"]
          /\ disk.check \in [Checks -> {"none", "pass", "fail"}]
      BY <1>a, <2>1, <2>2, UnderWay DEF RecordCheck, DiskRecord
    <3>2. CASE s = proc.stage
      <4>1. Doing(s, "outcome")'
        BY <2>1, <3>1, <3>2
      <4>2. proc.agree
        BY <1>a, <2>2, <4>1, FailIs DEF RecordCheck, Doing
      <4> QED
        BY <3>1, <3>2, <4>2
    <3>3. CASE s # proc.stage
      BY <1>c, <2>1, <3>1, <3>3 DEF Doing
    <3> QED
      BY <3>2, <3>3
  <2>3. CASE ~RecordCheck
    <3>1. disk'.check = disk.check
      BY <1>a, <1>4, <2>3, StagesChanges DEF StagesChange
    <3>2. Doing(s, "outcome")' => proc.stage = s /\ (Seeded \/ WriteManifest)
      BY <1>a, <1>b, <1>4, <2>1, <2>3, StagesChanges DEF StagesChange, Doing
    <3>3. ~Doing(s, "outcome")'
      BY <1>b, <3>2 DEF Seeded, WriteManifest, Doing
    <3> QED
      BY <1>c, <2>1, <3>1, <3>3
  <2> QED
    BY <2>2, <2>3
<1> QED
  BY <1>a, <1>1, <1>2, <1>3, <1>4, NextIs

\* A valid result is written when everything before it was valid, and an
\* outcome is not taken back.
LEMMA ResultStays ==
    ASSUME RunInv, WorldTypes', RunTypes', CallTypes', [Next]_vars, disk'.result = "valid"
    PROVE  \A s \in BeforeReport : state'.done[s] = "valid"
<1>a. /\ RecordInv /\ StageInv /\ StepInv /\ RunTypes /\ WorldTypes /\ disk \in DiskRecord
  BY DEF RunInv, RunTypes
<1>b. disk.result = "valid" => \A s \in BeforeReport : state.done[s] = "valid"
  BY <1>a DEF RecordInv
<1>c. BeforeReport \subseteq Stage
  BY StageIs DEF BeforeReport
<1>1. CASE Controller
  <2>1. disk' = disk /\ \A s \in Stage : state.done[s] # "no" => state'.done[s] = state.done[s]
    BY <1>a, <1>1, DoneIs
  <2> QED
    BY <1>b, <1>c, <2>1
<1>2. CASE Crash \/ Checkpointing \/ Measuring \/ Breaking \/ Serving \/ Resting
  BY <1>b, <1>2 DEF Crash, Checkpointing, Measuring, Breaking, Serving, Resting
<1>3. CASE Stages
  <2>1. state'.done = state.done
    BY <1>a, <1>3, StagesFrame, FailIs
  <2>2. CASE Report
    BY <1>a, <2>1, <2>2 DEF Report, DiskRecord
  <2>3. CASE ~Report
    BY <1>a, <1>b, <1>3, <2>1, <2>3, StagesChanges DEF StagesChange
  <2> QED
    BY <2>2, <2>3
<1> QED
  BY <1>a, <1>1, <1>2, <1>3, NextIs

\* A final checkpoint that has found no difference: no engine lacks a commit.
LEMMA FinalIs ==
    ASSUME RunInv, mode = "Correctness", Checked, ~cp.err, cp.passed, NEW e \in Engine
    PROVE  HoldsAll(e)
<1>a. /\ CaptureInv /\ SeedInv /\ TurnInv /\ RunTypes /\ WorldTypes
      /\ engine \in [Engine -> EngineRecord] /\ cp \in CpRecord
  BY DEF RunInv, WorldTypes, CallTypes
<1>1. proc.step = "checking" /\ cp.at = "done"
  BY DEF Checked
<1>2. Here = "shared"
  BY <1>a DEF TurnInv, Here
<1>3. Captured /\ cp.todo = <<>> /\ cp.engines = Both
  BY <1>a, <1>1 DEF CaptureInv
<1>4. e \in Range(cp.engines) \ Range(cp.todo)
  <2>1. DOMAIN Both = 1 .. 2 /\ Both[1] = Graydb /\ Both[2] = Clickhouse
    BY DEF Both
  <2>2. e \in Range(Both)
    BY <2>1 DEF Range, Engine
  <2>3. Range(<<>>) = {}
    BY DEF Range
  <2> QED
    BY <1>3, <2>2, <2>3
<1>5. Matched(e)
  BY <1>a, <1>1, <1>4 DEF CaptureInv
<1>6. /\ engine[e].snap # 0 /\ cp.lsn <= engine[e].applied
      /\ Shown(e, cp.lsn) = Published("shared")
      /\ \A p \in Published("shared") : p <= cp.lsn
  BY <1>2, <1>3, <1>5 DEF Matched, Captured
<1>7. engine[e].base = {1} /\ 1 \notin engine[e].lost /\ engine[e].lost \subseteq Published("shared")
  BY <1>a, <1>6 DEF SeedInv
<1>8. \A p \in Published("shared") : p \in engine[e].base \/ p \in Streamed(e)
  BY <1>6 DEF Shown
<1>9. /\ Published("shared") \subseteq Nat /\ engine[e].applied \in Nat /\ engine[e].from \in Nat
      /\ cp.lsn \in Nat
  <2>1. Published("shared") \in SUBSET (1 .. WalHead) /\ WalHead \in Nat
    BY <1>a, <1>2, PublishedIs, HereIs
  <2> QED
    BY <1>a, <2>1 DEF EngineRecord, CpRecord
<1>10. ASSUME NEW p \in Streamed(e), p \in Published("shared")
       PROVE  engine[e].from < p /\ p \notin engine[e].lost
  <2>1. p \notin Commits(Here, engine[e].from) /\ p \notin engine[e].lost
    BY <1>10 DEF Streamed
  <2>2. p \in Published(Here)
    BY <1>2, <1>10
  <2>3. ~(p <= engine[e].from)
    BY <1>a, <2>1, <2>2, PublishedIs
  <2> QED
    BY <1>9, <1>10, <2>1, <2>3
<1>11. ASSUME NEW p \in Published("shared")
       PROVE  p <= engine[e].applied /\ (p \in engine[e].base \/ engine[e].from < p)
  BY <1>6, <1>8, <1>9, <1>10, <1>11
<1>12. engine[e].lost = {}
  BY <1>7, <1>8, <1>10
<1> QED
  BY <1>6, <1>11, <1>12 DEF HoldsAll

\* That stays so: after it no transaction is committed, and an engine loses
\* only what it has not applied.
LEMMA HoldingStays ==
    ASSUME RunInv, WorldTypes', RunTypes', CallTypes', [Next]_vars,
           (mode = "Correctness" /\ FinalPassed)', NEW e \in Engine
    PROVE  HoldsAll(e)'
<1>a. /\ RecordInv /\ StageInv /\ StepInv /\ TurnInv /\ RunTypes /\ WorldTypes
      /\ proc \in ProcRecord /\ state \in StateRecord
      /\ engine \in [Engine -> EngineRecord] /\ engine' \in [Engine -> EngineRecord]
      /\ wal \in [Source -> Seq(BOOLEAN)]
  BY DEF RunInv, WorldTypes, RunTypes
<1>b. "FinalCheckpoint" \in Stage
  BY StageIs
<1>c. mode = "Correctness" /\ FinalPassed => \A d \in Engine : HoldsAll(d)
  BY <1>a DEF RecordInv
<1> DEFINE Same == /\ Published("shared")' = Published("shared")
                   /\ engine'[e] = engine[e] \/ SameData(e)
                   /\ mode' = mode
<1>1. ASSUME Same, FinalPassed PROVE HoldsAll(e)'
  BY <1>c, <1>1 DEF HoldsAll, SameData
<1>2. UNCHANGED wal => Published("shared")' = Published("shared")
  BY DEF Published
<1>3. UNCHANGED <<proc, state>> => FinalPassed
  BY DEF FinalPassed, Doing
<1>4. CASE Controller
  <2>1. UNCHANGED <<mode, wal, engine>> /\ (proc'.step \in {"none", "body"} \/ UNCHANGED proc)
    BY <1>a, <1>4, DoneIs
  <2>2. state'.done["FinalCheckpoint"] = "valid" =>
          state.done["FinalCheckpoint"] = "valid" \/ Doing("FinalCheckpoint", "outcome")
    BY <1>a, <1>b, <1>4, DoneIs
  <2>3. FinalPassed
    BY <2>1, <2>2 DEF FinalPassed, Doing
  <2> QED
    BY <1>1, <1>2, <2>1, <2>3
<1>5. CASE Crash
  <2>1. FinalPassed
    BY <1>5, ExitIs DEF Crash, Down, FinalPassed, Doing
  <2>2. Same
    BY <1>2, <1>5 DEF Crash, sourceVars
  <2> QED
    BY <1>1, <2>1, <2>2
<1>6. CASE Checkpointing \/ Measuring \/ Breaking \/ Resting
  <2>1. UNCHANGED <<mode, wal, proc, state>> /\ (engine'[e] = engine[e] \/ SameData(e))
    BY <1>6 DEF Checkpointing, Measuring, Breaking, Resting
  <2> QED
    BY <1>1, <1>2, <1>3, <2>1
<1>7. CASE Serving
  <2>1. UNCHANGED <<proc, state>>
    BY <1>7 DEF Serving
  <2>2. FinalPassed
    BY <1>3, <2>1
  <2>3. CASE WriterCommits
    <3>1. state.done["FinalCheckpoint"] = "no" /\ proc.stage # "FinalCheckpoint"
      BY <2>3, WriterWorks DEF WriterCommits
    <3> QED
      BY <2>2, <3>1 DEF FinalPassed, Doing
  <2>4. CASE OtherRecord
    <3>1. Same
      BY <1>a, <2>4, OtherRecordIs, Engines
    <3> QED
      BY <1>1, <2>2, <3>1
  <2>5. CASE WriterDies
    <3>1. Same
      BY <1>2, <2>5 DEF WriterDies, sourceVars
    <3> QED
      BY <1>1, <2>2, <3>1
  <2>6. ASSUME NEW d \in Engine, EngineApplies(d) \/ EngineLoses(d) PROVE HoldsAll(e)'
    <3>1. /\ UNCHANGED <<mode, wal>>
          /\ engine'[e].snap = engine[e].snap /\ engine'[e].base = engine[e].base
          /\ engine'[e].from = engine[e].from /\ engine[e].applied <= engine'[e].applied
          /\ \/ engine'[e].lost = engine[e].lost
             \/ \E p \in Commits(Here, WalHead) : engine[e].applied < p
      BY <1>a, <2>6, FollowIs
    <3>2. HoldsAll(e)
      BY <1>c, <2>2, <3>1
    <3>3. Here = "shared" /\ Commits(Here, WalHead) = Published("shared")
      BY <1>a, <3>1, PublishedIs DEF TurnInv, Here
    <3>4. /\ engine[e].applied \in Nat /\ engine'[e].applied \in Nat
          /\ Published("shared") \subseteq Nat
      <4>1. Published("shared") \in SUBSET (1 .. WalHead) /\ WalHead \in Nat
        BY <1>a, <3>3, PublishedIs, HereIs
      <4> QED
        BY <1>a, <4>1 DEF EngineRecord
    <3>5. engine'[e].lost = engine[e].lost
      BY <3>1, <3>2, <3>3, <3>4 DEF HoldsAll
    <3>6. Published("shared")' = Published("shared")
      BY <1>2, <3>1
    <3>7. \A p \in Published("shared") : p <= engine'[e].applied
      BY <3>1, <3>2, <3>4 DEF HoldsAll
    <3> QED
      BY <3>1, <3>2, <3>5, <3>6, <3>7 DEF HoldsAll
  <2> QED
    BY <1>7, <2>3, <2>4, <2>5, <2>6 DEF Serving, Services
<1>8. CASE Stages
  <2>a. StagesChange
    BY <1>a, <1>8, StagesChanges
  <2>b. /\ proc.at = "stage" /\ mode' = mode /\ state'.done = state.done
        /\ \/ proc'.at = "stage" /\ proc'.stage = proc.stage
           \/ proc'.step = "none"
    BY <1>a, <1>8, StagesFrame, FailIs
  <2>1. CASE proc'.stage = "FinalCheckpoint" /\ proc'.step = "record" /\ proc'.agree
    <3>1. Checked
      BY <2>a, <2>1 DEF StagesChange
    <3>2. ~cp.err
      BY <1>a, <2>1, <3>1, FailIs DEF Checked
    <3>3. cp.passed
      BY <1>a, <2>1, <3>1, <3>2 DEF Checked, ProcRecord
    <3>4. UNCHANGED <<wal, engine, mode>>
      BY <3>1 DEF Checked, sourceVars
    <3>5. HoldsAll(e)
      BY <3>1, <3>2, <3>3, <3>4, FinalIs
    <3> QED
      BY <1>2, <3>4, <3>5 DEF HoldsAll
  <2>2. CASE Doing("FinalCheckpoint", "outcome")'
    <3>1. proc.stage = "FinalCheckpoint" /\ proc'.step = "outcome"
      BY <2>b, <2>2 DEF Doing
    <3>2. RecordCheck
      BY <2>a, <3>1 DEF StagesChange, Checks, Seeded, WriteManifest, Doing
    <3>3. proc.agree /\ proc.step = "record"
      BY <1>a, <3>1, <3>2, FailIs DEF RecordCheck
    <3>4. Same
      BY <1>2, <3>2 DEF RecordCheck, sourceVars
    <3> QED
      BY <1>1, <3>1, <3>3, <3>4 DEF FinalPassed
  <2>3. CASE state'.done["FinalCheckpoint"] = "valid"
    <3>1. state.done["FinalCheckpoint"] = "valid"
      BY <2>b, <2>3
    <3>2. proc.stage \notin {"Seed", "Bootstrap"}
      BY <1>a, <2>b, <3>1, BeforeAndAfter
    <3>3. ~LoadSeed /\ ~Bootstrap /\ ~StartCdc
      BY <3>2 DEF LoadSeed, Bootstrap, StartCdc, Doing
    <3>4. wal'["shared"] = wal["shared"] /\ engine' = engine
      BY <2>a, <2>b, <3>3 DEF StagesChange
    <3>5. Same
      BY <2>b, <3>4 DEF Published
    <3> QED
      BY <1>1, <3>1, <3>5 DEF FinalPassed
  <2> QED
    BY <2>1, <2>2, <2>3 DEF FinalPassed
<1> QED
  BY <1>a, <1>4, <1>5, <1>6, <1>7, <1>8, NextIs

LEMMA RecordStays ==
    ASSUME RunInv, WorldTypes', RunTypes', CallTypes', [Next]_vars
    PROVE  RecordInv'
BY ChecksStay, ResultStays, HoldingStays DEF RecordInv

-----------------------------------------------------------------------------
(***************************************************************************)
(* The replay maps.                                                        *)
(***************************************************************************)
\* A log is a prefix of another one.
Begins(log, more) ==
    Len(log) <= Len(more) /\ \A i \in 1 .. Len(log) : more[i] = log[i]

LEMMA CommitsAre ==
    ASSUME NEW log \in Seq(BOOLEAN)
    PROVE  /\ AllOf(log) = CommitsOf(log, Len(log))
           /\ AllOf(log) \in SUBSET (1 .. Len(log)) /\ IsFiniteSet(AllOf(log))
<1>1. DOMAIN log = 1 .. Len(log) /\ Len(log) \in Nat
  OBVIOUS
<1>2. AllOf(log) \in SUBSET (1 .. Len(log))
  BY <1>1 DEF AllOf
<1>3. \A p \in 1 .. Len(log) : p <= Len(log)
  BY <1>1
<1>4. AllOf(log) = CommitsOf(log, Len(log))
  BY <1>1, <1>3 DEF AllOf, CommitsOf
<1>5. IsFiniteSet(1 .. Len(log))
  BY <1>1, FS_Interval
<1>6. IsFiniteSet(AllOf(log))
  BY <1>2, <1>5, FS_Subset
<1> QED
  BY <1>2, <1>4, <1>6

\* What stands for transactions goes on doing so when the source and the ledger
\* grow.
LEMMA StandsGrow ==
    ASSUME NEW log \in Seq(BOOLEAN), NEW more \in Seq(BOOLEAN), Begins(log, more),
           NEW old \in Seq(Nat), NEW new \in Seq(Nat), Begins(old, new),
           NEW entries \in Seq(Entry), StandsFor(log, old, entries)
    PROVE  StandsFor(more, new, entries)
<1>1. /\ DOMAIN log = 1 .. Len(log) /\ DOMAIN more = 1 .. Len(more)
      /\ Len(log) \in Nat /\ Len(more) \in Nat
  OBVIOUS
<1>2. /\ DOMAIN old = 1 .. Len(old) /\ DOMAIN new = 1 .. Len(new)
      /\ Len(old) \in Nat /\ Len(new) \in Nat
  OBVIOUS
<1>3. ASSUME NEW l \in Nat, l <= Len(log) PROVE CommitsOf(more, l) = CommitsOf(log, l)
  <2>1. \A p \in 1 .. Len(more) : p <= l => p \in 1 .. Len(log)
    BY <1>1, <1>3
  <2>2. \A p \in 1 .. Len(log) : p \in 1 .. Len(more) /\ more[p] = log[p]
    BY <1>1 DEF Begins
  <2> QED
    BY <1>1, <2>1, <2>2 DEF CommitsOf
<1>4. ASSUME NEW i \in DOMAIN entries
      PROVE  /\ i \in DOMAIN new /\ entries[i].original = new[i]
             /\ entries[i].lsn <= Len(more)
             /\ Cardinality(CommitsOf(more, entries[i].lsn)) = i + 1
  <2>1. entries[i] \in Entry
    BY <1>4
  <2>2. entries[i].lsn \in Nat
    BY <2>1 DEF Entry
  <2>3. /\ i \in DOMAIN old /\ entries[i].original = old[i]
        /\ entries[i].lsn <= Len(log)
        /\ Cardinality(CommitsOf(log, entries[i].lsn)) = i + 1
    BY <1>4 DEF StandsFor
  <2>4. i \in DOMAIN new /\ new[i] = old[i]
    BY <1>2, <2>3 DEF Begins
  <2>5. CommitsOf(more, entries[i].lsn) = CommitsOf(log, entries[i].lsn)
    BY <1>3, <2>2, <2>3
  <2>6. entries[i].lsn <= Len(more)
    BY <1>1, <2>2, <2>3 DEF Begins
  <2> QED
    BY <2>3, <2>4, <2>5, <2>6
<1> QED
  BY <1>4 DEF StandsFor

LEMMA BeginsItself ==
    \A s : Len(s) \in Nat => Begins(s, s)
BY DEF Begins

LEMMA AppendBegins ==
    ASSUME NEW S, NEW s \in Seq(S), NEW x \in S
    PROVE  Append(s, x) \in Seq(S) /\ Begins(s, Append(s, x))
BY DEF Begins

LEMMA TogetherIs ==
    ASSUME NEW s \in Seq(BOOLEAN), NEW t \in Seq(BOOLEAN)
    PROVE  /\ s \o t \in Seq(BOOLEAN) /\ Len(s \o t) = Len(s) + Len(t)
           /\ \A p \in 1 .. Len(s) : (s \o t)[p] = s[p]
           /\ \A p \in 1 .. Len(t) : (s \o t)[Len(s) + p] = t[p]
<1> DEFINE u == s \o t
<1>1. /\ u \in Seq(BOOLEAN) /\ Len(u) = Len(s) + Len(t)
      /\ \A p \in 1 .. Len(s) + Len(t) : u[p] = IF p <= Len(s) THEN s[p] ELSE t[p - Len(s)]
  BY ConcatProperties
<1>2. Len(s) \in Nat /\ Len(t) \in Nat
  OBVIOUS
<1> HIDE DEF u
<1>3. ASSUME NEW p \in 1 .. Len(s) PROVE u[p] = s[p]
  BY <1>1, <1>2
<1>4. ASSUME NEW p \in 1 .. Len(t) PROVE u[Len(s) + p] = t[p]
  <2>1. Len(s) + p \in 1 .. Len(s) + Len(t) /\ ~(Len(s) + p <= Len(s)) /\ Len(s) + p - Len(s) = p
    BY <1>2
  <2> QED
    BY <1>1, <2>1
<1> QED
  BY <1>1, <1>3, <1>4 DEF u

\* A replayed transaction is one commit, and its entry's LSN covers it.
After(log, others) == log \o <<TRUE>> \o others

EntryOf(transactions, entries, log) ==
    [original |-> transactions[Len(entries) + 1], lsn |-> Len(log)]

LEMMA ReplayIs ==
    ASSUME NEW log \in Seq(BOOLEAN), NEW others \in {<<>>, <<FALSE>>},
           NEW transactions \in Seq(Nat), NEW entries \in Seq(Entry),
           StandsFor(log, transactions, entries),
           Cardinality(AllOf(log)) = Len(entries) + 1, Len(entries) < Len(transactions)
    PROVE  /\ StandsFor(After(log, others), transactions,
                        Append(entries, EntryOf(transactions, entries, After(log, others))))
           /\ Cardinality(AllOf(After(log, others))) = Len(entries) + 2
<1> DEFINE more == After(log, others)
           entry == EntryOf(transactions, entries, more)
<1>9. entry.original = transactions[Len(entries) + 1] /\ entry.lsn = Len(more)
  BY DEF EntryOf
<1>1. /\ more \in Seq(BOOLEAN) /\ Len(more) = Len(log) + 1 + Len(others)
      /\ Len(others) \in {0, 1} /\ Len(log) \in Nat
      /\ \A p \in 1 .. Len(log) : more[p] = log[p]
      /\ more[Len(log) + 1] = TRUE
      /\ \A p \in Len(log) + 2 .. Len(more) : more[p] = FALSE
  <2> DEFINE one == <<TRUE>>
             no == <<FALSE>>
             mid == log \o one
  <2>1. one \in Seq(BOOLEAN) /\ Len(one) = 1 /\ one[1] = TRUE
    OBVIOUS
  <2>2. no \in Seq(BOOLEAN) /\ Len(no) = 1 /\ no[1] = FALSE
    OBVIOUS
  <2>3. more = mid \o others /\ (others = <<>> \/ others = no)
    BY DEF After
  <2> HIDE DEF more
  <2> HIDE DEF one, no
  <2>4. /\ mid \in Seq(BOOLEAN) /\ Len(mid) = Len(log) + Len(one)
        /\ \A p \in 1 .. Len(log) : mid[p] = log[p]
        /\ \A p \in 1 .. Len(one) : mid[Len(log) + p] = one[p]
    BY <2>1, TogetherIs
  <2> HIDE DEF mid
  <2>5. /\ others \in Seq(BOOLEAN) /\ Len(others) \in {0, 1}
        /\ \A p \in 1 .. Len(others) : others[p] = FALSE
    <3>1. CASE others = <<>>
      BY <3>1
    <3>2. CASE others = no
      <4>1. /\ no \in Seq(BOOLEAN) /\ Len(no) \in {0, 1}
            /\ \A p \in 1 .. Len(no) : no[p] = FALSE
        BY <2>2
      <4> QED
        BY <3>2, <4>1
    <3> QED
      BY <2>3, <3>1, <3>2
  <2>6. /\ more \in Seq(BOOLEAN) /\ Len(more) = Len(mid) + Len(others)
        /\ \A p \in 1 .. Len(mid) : more[p] = mid[p]
        /\ \A p \in 1 .. Len(others) : more[Len(mid) + p] = others[p]
    <3> DEFINE both == mid \o others
    <3>1. /\ both \in Seq(BOOLEAN) /\ Len(both) = Len(mid) + Len(others)
          /\ \A p \in 1 .. Len(mid) : both[p] = mid[p]
          /\ \A p \in 1 .. Len(others) : both[Len(mid) + p] = others[p]
      BY <2>4, <2>5, TogetherIs
    <3>2. more = both
      BY <2>3
    <3> HIDE DEF both
    <3> QED
      BY <3>1, <3>2
  <2>7. Len(log) \in Nat /\ Len(mid) = Len(log) + 1 /\ mid[Len(log) + 1] = TRUE
    <3>1. Len(log) \in Nat
      OBVIOUS
    <3> QED
      BY <2>1, <2>4, <3>1
  <2>8. \A p \in 1 .. Len(log) : more[p] = log[p]
    BY <2>4, <2>6, <2>7
  <2>9. Len(more) = Len(log) + 1 + Len(others) /\ more[Len(log) + 1] = TRUE
    BY <2>5, <2>6, <2>7
  <2>10. ASSUME NEW p \in Len(log) + 2 .. Len(more) PROVE more[p] = FALSE
    <3>1. p - Len(mid) \in 1 .. Len(others) /\ p = Len(mid) + (p - Len(mid))
      BY <2>5, <2>7, <2>9, <2>10
    <3> QED
      BY <2>5, <2>6, <3>1
  <2> QED
    BY <2>5, <2>6, <2>7, <2>8, <2>9, <2>10
<1> HIDE DEF more, entry
<1>2. DOMAIN log = 1 .. Len(log) /\ DOMAIN more = 1 .. Len(more)
  BY <1>1
<1>3. AllOf(more) = AllOf(log) \union {Len(log) + 1}
  <2>1. \A p \in 1 .. Len(more) :
           p \in 1 .. Len(log) \/ p = Len(log) + 1 \/ p \in Len(log) + 2 .. Len(more)
    BY <1>1
  <2>2. \A p \in 1 .. Len(log) : p \in 1 .. Len(more)
    BY <1>1
  <2>3. Len(log) + 1 \in 1 .. Len(more)
    BY <1>1
  <2> QED
    BY <1>1, <1>2, <2>1, <2>2, <2>3 DEF AllOf
<1>4. Len(log) + 1 \notin AllOf(log)
  BY <1>1, <1>2 DEF AllOf
<1>5. Cardinality(AllOf(more)) = Cardinality(AllOf(log)) + 1
  <2> DEFINE all == AllOf(log)
             here == Len(log) + 1
  <2>1. IsFiniteSet(all) /\ here \notin all
    BY <1>4, CommitsAre
  <2> HIDE DEF all, here
  <2>2. Cardinality(all \union {here}) = Cardinality(all) + 1
    BY <2>1, FS_AddElement
  <2> QED
    BY <1>3, <2>2 DEF all, here
<1>6. Begins(log, more)
  BY <1>1 DEF Begins
<1>7. StandsFor(more, transactions, entries)
  <2>1. Begins(transactions, transactions)
    BY BeginsItself
  <2> QED
    BY <1>1, <1>6, <2>1, StandsGrow
<1> DEFINE n == Len(entries)
           next == Append(entries, entry)
<1>8. /\ n \in Nat /\ Len(next) = n + 1 /\ DOMAIN next = 1 .. n + 1 /\ DOMAIN entries = 1 .. n
      /\ next[n + 1] = entry /\ \A i \in 1 .. n : next[i] = entries[i]
  OBVIOUS
<1>10. n + 1 \in DOMAIN transactions
  BY <1>8
<1>11. CommitsOf(more, Len(more)) = AllOf(more)
  BY <1>1, CommitsAre
<1>12. Cardinality(AllOf(more)) = n + 2
  BY <1>5, <1>8
<1> HIDE DEF n, next
<1>13. ASSUME NEW i \in DOMAIN next
       PROVE  /\ i \in DOMAIN transactions /\ next[i].original = transactions[i]
              /\ next[i].lsn <= Len(more)
              /\ Cardinality(CommitsOf(more, next[i].lsn)) = i + 1
  <2>1. CASE i = n + 1
    <3>1. n + 2 = i + 1 /\ Len(more) <= Len(more)
      BY <1>1, <1>8, <2>1
    <3> QED
      BY <1>8, <1>9, <1>10, <1>11, <1>12, <2>1, <3>1 DEF n
  <2>2. CASE i # n + 1
    <3>1. i \in DOMAIN entries /\ next[i] = entries[i]
      BY <1>8, <2>2
    <3> QED
      BY <1>7, <3>1 DEF StandsFor
  <2> QED
    BY <2>1, <2>2
<1>14. StandsFor(more, transactions, next)
  BY <1>13 DEF StandsFor
<1> QED
  BY <1>12, <1>14 DEF n, next, more, entry

\* Only the baseline's stage writes a replay map or an isolated source, and no
\* engine is active in it.
ReplaysFrame ==
    /\ active' = active \/ proc.stage \in Checks \union Timed
    /\ proc.stage # "BaselineSnapshot" =>
         /\ UNCHANGED maps /\ disk'.restored = disk.restored
         /\ \A e \in Engine : wal'[e] = wal[e]
         /\ proc'.step \notin {"prepare", "replay"}
         /\ proc'.replayed \in {proc.replayed, <<>>}

LEMMA StagesReplays ==
    ASSUME WorldTypes, RunTypes, StepInv, Stages
    PROVE  ReplaysFrame
<1>a. /\ proc \in ProcRecord /\ disk \in DiskRecord /\ wal \in [Source -> Seq(BOOLEAN)]
      /\ mode \in {"Correctness", "Isolated"}
  BY DEF RunTypes, WorldTypes
<1>c. Fail => UNCHANGED active /\ proc'.step = "none" /\ proc'.replayed = <<>>
  BY FailIs DEF Fail, Down, heldVars
<1>e. \A e \in Engine : e # "shared"
  BY Engines
<1>1. CASE Preflight
  BY <1>a, <1>c, <1>1 DEF Preflight, Doing, Step, Finish, ProcRecord, DiskRecord, ReplaysFrame, Checks, Timed, worldVars, sourceVars, heldVars
<1>2. CASE Seeded
  BY <1>a, <1>c, <1>2 DEF Seeded, Doing, Step, Finish, ProcRecord, DiskRecord, ReplaysFrame, Checks, Timed, worldVars, sourceVars, heldVars
<1>3. CASE LoadSeed
  <2>1. \A e \in Engine : wal'[e] = wal[e]
    BY <1>a, <1>e, <1>3 DEF LoadSeed
  <2> QED
    BY <1>a, <2>1, <1>3 DEF LoadSeed, Doing, Step, ProcRecord, ReplaysFrame, heldVars
<1>4. CASE WriteManifest
  BY <1>a, <1>c, <1>4 DEF WriteManifest, Doing, Step, Finish, ProcRecord, DiskRecord, ReplaysFrame, Checks, Timed, worldVars, sourceVars, heldVars
<1>5. CASE BackUp
  BY <1>a, <1>c, <1>5 DEF BackUp, Doing, Step, Finish, ProcRecord, DiskRecord, ReplaysFrame, Checks, Timed, worldVars, sourceVars, heldVars
<1>6. CASE ChecksumBaseline
  BY <1>a, <1>c, <1>6 DEF ChecksumBaseline, Doing, Step, Finish, ProcRecord, DiskRecord, ReplaysFrame, Checks, Timed, worldVars, sourceVars, heldVars
<1>7. CASE VerifyBaseline
  BY <1>a, <1>c, <1>7 DEF VerifyBaseline, Doing, Step, Finish, ProcRecord, DiskRecord, ReplaysFrame, Checks, Timed, worldVars, sourceVars, heldVars
<1>8. CASE BaselineRefused
  BY <1>a, <1>c, <1>8 DEF BaselineRefused, Doing, Step, Finish, ProcRecord, DiskRecord, ReplaysFrame, Checks, Timed, worldVars, sourceVars, heldVars
<1>9. CASE RestoreRefused
  BY <1>a, <1>c, <1>9 DEF RestoreRefused, Doing, Step, Finish, ProcRecord, DiskRecord, ReplaysFrame, Checks, Timed, worldVars, sourceVars, heldVars
<1>10. CASE Restore
  BY <1>a, <1>10 DEF Restore, Doing, Step, ProcRecord, ReplaysFrame, heldVars
<1>11. CASE StartReplays
  BY <1>a, <1>c, <1>11 DEF StartReplays, Doing, Step, Finish, ProcRecord, DiskRecord, ReplaysFrame, Checks, Timed, worldVars, sourceVars, heldVars
<1>12. ASSUME NEW e \in Engine, ReplayTransaction(e) PROVE ReplaysFrame
  BY <1>a, <1>12 DEF ReplayTransaction, Replaying, Doing, Step, Finish, ProcRecord, DiskRecord, ReplaysFrame, Checks, Timed, worldVars, sourceVars, heldVars
<1>13. ASSUME NEW e \in Engine, PushReplayed(e) PROVE ReplaysFrame
  BY <1>a, <1>13 DEF PushReplayed, Replaying, Doing, Step, Finish, ProcRecord, DiskRecord, ReplaysFrame, Checks, Timed, worldVars, sourceVars, heldVars
<1>14. ASSUME NEW e \in Engine, Replayed(e) PROVE ReplaysFrame
  BY <1>a, <1>14 DEF Replayed, Replaying, Doing, Step, Finish, ProcRecord, DiskRecord, ReplaysFrame, Checks, Timed, worldVars, sourceVars, heldVars
<1>15. CASE ValidateReplays
  BY <1>a, <1>c, <1>15 DEF ValidateReplays, Doing, Step, Finish, ProcRecord, DiskRecord, ReplaysFrame, Checks, Timed, worldVars, sourceVars, heldVars
<1>16. CASE Bootstrap
  BY <1>a, <1>c, <1>16 DEF Bootstrap, Doing, Step, Finish, ProcRecord, DiskRecord, ReplaysFrame, Checks, Timed, worldVars, sourceVars, heldVars
<1>17. CASE StartCdc
  BY <1>a, <1>c, <1>17 DEF StartCdc, Doing, Step, Finish, ProcRecord, DiskRecord, ReplaysFrame, Checks, Timed, worldVars, sourceVars, heldVars
<1>18. CASE NextCheck
  <2>1. Step("check") \/ Step("activate") \/ Step("checking")
    BY <1>18, ActivateSteps DEF NextCheck
  <2>2. proc'.step \in {"check", "activate", "checking"} /\ proc'.replayed = proc.replayed
    BY <1>a, <2>1 DEF Step, ProcRecord
  <2> QED
    BY <2>2, <1>18 DEF NextCheck, ReplaysFrame
<1>19. CASE Checked
  <2>1. CASE ~cp.err
    <3>1. proc'.step \in {"body", "record"} /\ proc'.replayed = proc.replayed
      BY <1>a, <1>19, <2>1 DEF Checked, ProcRecord
    <3> QED
      BY <1>19, <2>1, <3>1 DEF Checked, ReplaysFrame, sourceVars, heldVars
  <2> QED
    BY <1>c, <1>19, <2>1 DEF Checked, ReplaysFrame, sourceVars
<1>20. CASE RecordCheck
  BY <1>a, <1>c, <1>20 DEF RecordCheck, Doing, Step, Finish, ProcRecord, DiskRecord, ReplaysFrame, Checks, Timed, worldVars, sourceVars, heldVars
<1>21. CASE NextWindow
  <2>1. Step("window") \/ Step("activate") \/ Step("measuring")
    BY <1>21, ActivateSteps DEF NextWindow
  <2>2. proc'.step \in {"window", "activate", "measuring"} /\ proc'.replayed = proc.replayed
    BY <1>a, <2>1 DEF Step, ProcRecord
  <2> QED
    BY <2>2, <1>21 DEF NextWindow, ReplaysFrame
<1>22. CASE Measured
  <2>1. \/ Fail \/ Finish(FALSE) \/ Finish(TRUE)
        \/ proc' = [proc EXCEPT !.step = "body", !.todo = Tail(@)]
        \/ proc' = [proc EXCEPT !.step = "body", !.rates = Tail(@),
                                !.todo = IF mode = "Isolated" THEN Both ELSE <<>>]
    BY <1>22 DEF Measured
  <2>2. proc'.step \in {"none", "outcome", "body"} /\ proc'.replayed \in {proc.replayed, <<>>}
    BY <1>a, <1>c, <2>1 DEF Finish, ProcRecord
  <2>3. UNCHANGED <<wal, disk, maps, active>>
    BY <1>c, <1>22 DEF Measured, sourceVars, heldVars
  <2> QED
    BY <2>2, <2>3 DEF ReplaysFrame
<1>23. CASE BreakThings
  BY <1>a, <1>c, <1>23 DEF BreakThings, Doing, Step, Finish, ProcRecord, DiskRecord, ReplaysFrame, Checks, Timed, worldVars, sourceVars, heldVars
<1>24. CASE Broken
  BY <1>a, <1>c, <1>24 DEF Broken, Doing, Step, Finish, ProcRecord, DiskRecord, ReplaysFrame, Checks, Timed, worldVars, sourceVars, heldVars
<1>25. CASE Report
  BY <1>a, <1>c, <1>25 DEF Report, Doing, Step, Finish, ProcRecord, DiskRecord, ReplaysFrame, Checks, Timed, worldVars, sourceVars, heldVars
<1>26. CASE Checksums
  BY <1>a, <1>c, <1>26 DEF Checksums, Doing, Step, Finish, ProcRecord, DiskRecord, ReplaysFrame, Checks, Timed, worldVars, sourceVars, heldVars
<1>27. CASE CompleteRun
  BY <1>a, <1>c, <1>27 DEF CompleteRun, Doing, Step, Finish, ProcRecord, DiskRecord, ReplaysFrame, Checks, Timed, worldVars, sourceVars, heldVars
<1>28. CASE StageFails
  BY <1>a, <1>c, <1>28 DEF StageFails, Doing, Step, Finish, ProcRecord, DiskRecord, ReplaysFrame, Checks, Timed, worldVars, sourceVars, heldVars
<1> QED
  BY <1>1, <1>2, <1>3, <1>4, <1>5, <1>6, <1>7, <1>8, <1>9, <1>10, <1>11, <1>12, <1>13, <1>14, <1>15, <1>16, <1>17, <1>18, <1>19, <1>20, <1>21, <1>22, <1>23, <1>24, <1>25, <1>26, <1>27, <1>28 DEF Stages

LEMMA ControllerReplays ==
    ASSUME Controller
    PROVE  /\ active' = None \/ active' = active
           /\ \/ UNCHANGED proc
              \/ /\ proc'.replayed = <<>>
                 /\ \/ proc'.step = "none"
                    \/ proc'.step = "body" /\ (mode = "Isolated" => proc'.todo = Both)
<1>1. CASE Create \/ SetPlan \/ ResumeRun \/ ArchiveUnplanned \/ Begin \/ End
  BY <1>1 DEF Create, SetPlan, ResumeRun, ArchiveUnplanned, Begin, End, AtBoundary, Down,
     worldVars, heldVars
<1>2. CASE ExitFailed
  BY <1>2, ExitIs DEF ExitFailed, Down
<1>3. ASSUME NEW valid \in BOOLEAN, Complete(valid)
      PROVE  (active' = None \/ active' = active) /\ proc'.replayed = <<>> /\ proc'.step = "none"
  BY <1>3, ExitIs DEF Complete, AtBoundary, Down, heldVars
<1> QED
  BY <1>1, <1>2, <1>3 DEF Controller

\* The sources and the maps as they were.
SameReplays ==
    /\ UNCHANGED <<ledger, maps>> /\ disk'.restored = disk.restored
    /\ \A e \in Engine : wal'[e] = wal[e]

LEMMA SameIs ==
    ASSUME SameReplays
    PROVE  /\ \A e \in Engine : Fresh(e) => Fresh(e)'
           /\ \A e \in Engine : Whole(e) => Whole(e)'
           /\ Agreed => Agreed'
           /\ UNCHANGED proc /\ Replays => Replays'
<1>1. \A e \in Engine : Fresh(e) => Fresh(e)'
  BY DEF SameReplays, Fresh
<1>2. \A e \in Engine : Whole(e) => Whole(e)'
  BY DEF SameReplays, Whole
<1>3. Agreed => Agreed'
  BY DEF SameReplays, Agreed
<1>4. ASSUME UNCHANGED proc, NEW e \in Engine, UnderReplay(e) PROVE UnderReplay(e)'
  BY <1>4 DEF SameReplays, UnderReplay
<1>5. ASSUME UNCHANGED proc, Replays PROVE Replays'
  BY <1>1, <1>2, <1>4, <1>5 DEF Replays
<1> QED
  BY <1>1, <1>2, <1>3, <1>5

\* A source that has only been restored has its baseline's commit.
LEMMA OneCommit ==
    \A log : log = <<TRUE>> => Cardinality(AllOf(log)) = 1
<1> DEFINE one == <<TRUE>>
<1>1. one \in Seq(BOOLEAN) /\ Len(one) = 1 /\ one[1] = TRUE
  OBVIOUS
<1> HIDE DEF one
<1>2. DOMAIN one = 1 .. 1
  BY <1>1
<1>3. AllOf(one) = {1}
  BY <1>1, <1>2 DEF AllOf
<1>4. Cardinality(AllOf(one)) = 1
  BY <1>3, FS_Singleton
<1> QED
  BY <1>4 DEF one

\* Its replay starts with no entries.
LEMMA FreshStarts ==
    ASSUME NEW e \in Engine, RunTypes', WorldTypes', Fresh(e)', proc'.replayed = <<>>
    PROVE  UnderReplay(e)'
<1>1. StandsFor(wal'[e], ledger', <<>>)
  BY DEF StandsFor
<1>2. Cardinality(AllOf(wal'[e])) = 1
  BY OneCommit DEF Fresh
<1>3. Len(ledger') \in Nat /\ Len(<<>>) = 0 /\ DOMAIN <<>> = {}
  BY DEF WorldTypes
<1>4. maps'[e] = <<>> /\ e \in disk'.restored
  BY DEF Fresh
<1> QED
  BY <1>1, <1>2, <1>3, <1>4 DEF UnderReplay

\* The baseline's stage: the sources are restored, then replayed one by one.
LEMMA BaselineStays ==
    ASSUME RunInv, WorldTypes', RunTypes', CallTypes', Stages, proc.stage = "BaselineSnapshot"
    PROVE  MapInv'
<1>a. /\ MapInv /\ StageInv /\ StepInv /\ RunTypes /\ WorldTypes
      /\ proc \in ProcRecord /\ disk \in DiskRecord /\ state \in StateRecord
      /\ wal \in [Source -> Seq(BOOLEAN)] /\ maps \in [Engine -> Seq(Entry)]
      /\ ledger \in Seq(Nat) /\ proc.replayed \in Seq(Entry) /\ proc.todo \in Seq(Engine)
      /\ mode \in {"Correctness", "Isolated"}
  BY DEF RunInv, WorldTypes, RunTypes, ProcRecord
<1>b. /\ proc.at = "stage" /\ UNCHANGED <<mode, ledger>> /\ state'.done = state.done
  BY <1>a, StagesFrame, FailIs
<1>c. state.done["BaselineSnapshot"] = "no"
  BY <1>a, <1>b, UnderWay
<1>d. active = None /\ active' = active
  <2>1. active' = active
    BY <1>a, StagesReplays DEF ReplaysFrame, Checks, Timed
  <2> QED
    BY <1>a, <1>c, <2>1 DEF MapInv
<1>e. /\ Engine \subseteq Source /\ Graydb \in Engine /\ Clickhouse \in Engine
      /\ Graydb # Clickhouse
  BY Engines
<1>f. /\ Range(Both) = Engine /\ Head(Both) = Graydb /\ Tail(Both) = <<Clickhouse>>
      /\ Range(<<Clickhouse>>) = {Clickhouse} /\ Head(<<Clickhouse>>) = Clickhouse
      /\ Tail(<<Clickhouse>>) = <<>> /\ Range(<<>>) = {}
      /\ Both # <<>> /\ <<Clickhouse>> # <<>>
  <2>1. DOMAIN Both = 1 .. 2 /\ Both[1] = Graydb /\ Both[2] = Clickhouse /\ Both # <<>>
        /\ Head(Both) = Graydb /\ Tail(Both) = <<Clickhouse>>
    BY DEF Both
  <2>2. Range(Both) = Engine
    BY <2>1 DEF Range, Engine
  <2>3. Range(<<Clickhouse>>) = {Clickhouse} /\ Head(<<Clickhouse>>) = Clickhouse
        /\ Tail(<<Clickhouse>>) = <<>> /\ <<Clickhouse>> # <<>>
    <3> DEFINE one == <<Clickhouse>>
    <3>1. DOMAIN one = 1 .. 1 /\ one[1] = Clickhouse
      OBVIOUS
    <3>2. Head(one) = Clickhouse /\ Tail(one) = <<>> /\ one # <<>>
      OBVIOUS
    <3> HIDE DEF one
    <3>3. Range(one) = {Clickhouse}
      BY <3>1 DEF Range
    <3> QED
      BY <3>2, <3>3 DEF one
  <2>4. Range(<<>>) = {}
    BY DEF Range
  <2> QED
    BY <2>1, <2>2, <2>3, <2>4
\* What is left to show of a step of this stage.
<1> DEFINE Goal ==
             /\ \A e \in Engine : e \notin disk'.restored => maps'[e] = <<>>
             /\ proc'.step # "replay" \/ proc'.todo = <<>> => proc'.replayed = <<>>
             /\ mode = "Isolated" /\ proc'.step \in {"body", "copied"} => proc'.todo = Both
             /\ proc'.step \in {"prepare", "replay"} => proc'.todo \in {Both, <<Clickhouse>>, <<>>}
             /\ proc'.step = "prepare" => \A e \in Engine : e \notin Range(proc'.todo) => Fresh(e)'
             /\ proc'.step = "replay" => Replays'
             /\ mode = "Isolated" /\ proc'.step = "outcome" =>
                  Agreed' /\ \A e \in Engine : Whole(e)'
<1>1. Goal => MapInv'
  BY <1>b, <1>c, <1>d DEF MapInv, Doing
<1>2. /\ \A e \in Engine : e \notin disk.restored => maps[e] = <<>>
      /\ proc.step # "replay" \/ proc.todo = <<>> => proc.replayed = <<>>
      /\ mode = "Isolated" /\ proc.step \in {"body", "copied"} => proc.todo = Both
      /\ proc.step \in {"prepare", "replay"} => proc.todo \in {Both, <<Clickhouse>>, <<>>}
      /\ proc.step = "prepare" => \A e \in Engine : e \notin Range(proc.todo) => Fresh(e)
      /\ proc.step = "replay" => Replays
  BY <1>a DEF MapInv
<1>3. Fail => proc'.step = "none" /\ proc'.replayed = <<>>
  BY FailIs DEF Fail, Down
<1>4. CASE BackUp
  <2>1. /\ proc.step = "body" /\ proc'.step = "copied" /\ proc'.todo = proc.todo
        /\ proc'.replayed = proc.replayed /\ disk'.restored = disk.restored /\ maps' = maps
    BY <1>a, <1>4 DEF BackUp, Doing, Step, ProcRecord, DiskRecord
  <2> QED
    BY <1>1, <1>2, <2>1
<1>5. CASE ChecksumBaseline \/ VerifyBaseline
  <2>1. /\ proc.step \in {"body", "copied"} /\ proc'.todo = proc.todo
        /\ proc'.replayed = proc.replayed /\ disk'.restored = disk.restored /\ maps' = maps
        /\ proc'.step = IF mode = "Isolated" THEN "prepare" ELSE "outcome"
    BY <1>a, <1>5 DEF ChecksumBaseline, VerifyBaseline, Doing, Step, Finish, ProcRecord, DiskRecord
  <2> QED
    BY <1>1, <1>2, <1>f, <2>1
<1>6. CASE BaselineRefused \/ RestoreRefused \/ StageFails
  <2>1. Fail /\ UNCHANGED <<disk, maps>>
    BY <1>6 DEF BaselineRefused, RestoreRefused, StageFails
  <2> QED
    BY <1>1, <1>2, <1>3, <2>1
<1>7. CASE Restore
  <2> DEFINE r == Head(proc.todo)
  <2>1. /\ proc.step = "prepare" /\ proc'.step = "prepare" /\ proc.todo # <<>>
        /\ proc'.todo = Tail(proc.todo) /\ proc'.replayed = proc.replayed /\ maps' = maps
        /\ r \notin disk.restored /\ disk'.restored = disk.restored \union {r}
        /\ wal' = [wal EXCEPT ![r] = <<TRUE>>]
    BY <1>a, <1>7 DEF Restore, Doing, ProcRecord, DiskRecord
  <2>2. r \in Engine /\ \A e \in Engine : e = r \/ e \in Range(Tail(proc.todo)) \/ e \notin Range(proc.todo)
    BY <1>a, <2>1, TailMisses
  <2> HIDE DEF r
  <2>3. wal'[r] = <<TRUE>> /\ \A e \in Engine : e # r => wal'[e] = wal[e]
    BY <1>a, <1>e, <2>1, <2>2
  <2>4. maps[r] = <<>>
    BY <1>2, <2>1, <2>2
  <2>5. ASSUME NEW e \in Engine, e = r PROVE Fresh(e)'
    BY <2>1, <2>3, <2>4, <2>5 DEF Fresh
  <2>6. ASSUME NEW e \in Engine, e # r, e \notin Range(proc.todo) PROVE Fresh(e)'
    BY <1>2, <2>1, <2>3, <2>6 DEF Fresh
  <2>7. proc'.todo \in {Both, <<Clickhouse>>, <<>>}
    BY <1>2, <1>f, <2>1
  <2> QED
    BY <1>1, <1>2, <2>1, <2>2, <2>5, <2>6, <2>7
<1>8. CASE StartReplays
  <2>1. /\ proc.step = "prepare" /\ proc.todo = <<>> /\ proc'.step = "replay"
        /\ proc'.todo = Both /\ proc'.replayed = proc.replayed
        /\ UNCHANGED <<wal, disk, maps>>
    BY <1>a, <1>8 DEF StartReplays, Doing, ProcRecord, worldVars, sourceVars
  <2>2. \A e \in Engine : Fresh(e)
    BY <1>2, <1>f, <2>1
  <2>3. proc.replayed = <<>>
    BY <1>2, <2>1
  <2>4. \A e \in Engine : Fresh(e)'
    BY <2>1, <2>2 DEF Fresh
  <2>5. UnderReplay(Graydb)'
    BY <1>b, <1>e, <2>1, <2>3, <2>4, FreshStarts
  <2>6. Replays'
    BY <1>f, <2>1, <2>4, <2>5 DEF Replays
  <2> QED
    BY <1>1, <1>2, <1>f, <2>1, <2>6
<1>9. ASSUME NEW d \in Engine, ReplayTransaction(d) PROVE MapInv'
  <2>1. /\ proc.step = "replay" /\ proc.todo # <<>> /\ d = Head(proc.todo)
        /\ Len(proc.replayed) < Len(ledger) /\ UNCHANGED <<disk, maps, ledger>>
    BY <1>9 DEF ReplayTransaction, Replaying, Doing
  <2> DEFINE entry == [original |-> NextReplay(d), lsn |-> Len(wal'[d])]
  <2>2. /\ proc'.step = "replay" /\ proc'.todo = proc.todo
        /\ proc'.replayed = Append(proc.replayed, entry)
    BY <1>a, <1>9, <2>1 DEF ReplayTransaction, ProcRecord
  <2>3. PICK others \in {<<>>, <<FALSE>>} : wal' = [wal EXCEPT ![d] = @ \o <<TRUE>> \o others]
    BY <1>9 DEF ReplayTransaction
  <2>4. wal'[d] = wal[d] \o <<TRUE>> \o others /\ \A e \in Engine : e # d => wal'[e] = wal[e]
    BY <1>a, <1>e, <2>3
  <2>5. d \in Range(proc.todo)
    BY <1>a, <2>1 DEF Range
  <2>6. UnderReplay(d) /\ \A e \in Engine : e # d => (e \notin Range(proc.todo) => Whole(e))
                                                   /\ (e \in Range(proc.todo) => Fresh(e))
    BY <1>2, <2>1, <2>5 DEF Replays
  <2>7. maps[d] = <<>>
    BY <2>1, <2>6 DEF UnderReplay
  <2>8. UnderReplay(d)'
    <3>1. /\ wal[d] \in Seq(BOOLEAN) /\ StandsFor(wal[d], ledger, proc.replayed)
          /\ Cardinality(AllOf(wal[d])) = Len(proc.replayed) + 1
      BY <1>a, <1>e, <2>6 DEF UnderReplay
    <3>2. entry = [original |-> ledger[Len(proc.replayed) + 1], lsn |-> Len(wal'[d])]
      BY DEF NextReplay
    <3> HIDE DEF entry
    <3>3. /\ StandsFor(wal'[d], ledger, Append(proc.replayed, entry))
          /\ Cardinality(AllOf(wal'[d])) = Len(Append(proc.replayed, entry)) + 1
      <4>1. wal'[d] = After(wal[d], others)
        BY <2>4 DEF After
      <4>2. entry = EntryOf(ledger, proc.replayed, After(wal[d], others))
        BY <3>2, <4>1 DEF EntryOf
      <4>3. /\ StandsFor(After(wal[d], others), ledger,
                         Append(proc.replayed, EntryOf(ledger, proc.replayed, After(wal[d], others))))
            /\ Cardinality(AllOf(After(wal[d], others))) = Len(proc.replayed) + 2
        BY <1>a, <2>1, <3>1, ReplayIs
      <4>4. Len(Append(proc.replayed, entry)) = Len(proc.replayed) + 1 /\ Len(proc.replayed) \in Nat
        BY <1>a
      <4> QED
        BY <4>1, <4>2, <4>3, <4>4
    <3>4. Len(Append(proc.replayed, entry)) = Len(proc.replayed) + 1 /\ Len(proc.replayed) \in Nat
          /\ Len(ledger) \in Nat
      BY <1>a
    <3>5. Len(maps[d]) = 0 /\ DOMAIN maps[d] = {}
      BY <2>7
    <3>6. d \in disk.restored
      BY <2>6 DEF UnderReplay
    <3>7. /\ Len(proc'.replayed) <= Len(ledger) /\ Len(maps[d]) <= Len(proc'.replayed)
      BY <2>1, <2>2, <3>4, <3>5
    <3> QED
      BY <2>1, <2>2, <2>7, <3>3, <3>5, <3>6, <3>7 DEF UnderReplay
  <2>9. ASSUME NEW e \in Engine, e # d
        PROVE  (Whole(e) => Whole(e)') /\ (Fresh(e) => Fresh(e)')
    BY <2>1, <2>4, <2>9 DEF Whole, Fresh
  <2>10. Replays'
    BY <2>1, <2>2, <2>5, <2>6, <2>8, <2>9 DEF Replays
  <2> QED
    BY <1>1, <1>2, <2>1, <2>2, <2>10
<1>10. ASSUME NEW d \in Engine, PushReplayed(d) PROVE MapInv'
  <2>1. /\ proc.step = "replay" /\ proc.todo # <<>> /\ d = Head(proc.todo)
        /\ Len(proc.replayed) = Len(ledger) /\ Len(maps[d]) < Len(proc.replayed)
        /\ UNCHANGED <<wal, disk, ledger, proc>>
    BY <1>10 DEF PushReplayed, Replaying, Doing, worldVars, sourceVars
  <2> DEFINE entry == proc.replayed[Len(maps[d]) + 1]
             more == Append(maps[d], entry)
  <2>2. maps' = [maps EXCEPT ![d] = more]
    BY <1>10 DEF PushReplayed
  <2>3. d \in Range(proc.todo)
    BY <1>a, <2>1 DEF Range
  <2>4. UnderReplay(d) /\ \A e \in Engine : e # d => (e \notin Range(proc.todo) => Whole(e))
                                                   /\ (e \in Range(proc.todo) => Fresh(e))
    BY <1>2, <2>1, <2>3 DEF Replays
  <2>5. maps[d] \in Seq(Entry) /\ Len(maps[d]) \in Nat /\ Len(proc.replayed) \in Nat
    <3>1. maps[d] \in Seq(Entry)
      BY <1>a
    <3> QED
      BY <1>a, <3>1
  <2>6. /\ Len(more) = Len(maps[d]) + 1 /\ DOMAIN more = 1 .. Len(maps[d]) + 1
        /\ DOMAIN maps[d] = 1 .. Len(maps[d]) /\ more[Len(maps[d]) + 1] = entry
        /\ \A i \in 1 .. Len(maps[d]) : more[i] = maps[d][i]
    BY <2>5
  <2>7. maps'[d] = more /\ \A e \in Engine : e # d => maps'[e] = maps[e]
    BY <1>a, <2>2
  <2>8. \A i \in DOMAIN more : more[i] = proc.replayed[i]
    <3>1. \A i \in 1 .. Len(maps[d]) : maps[d][i] = proc.replayed[i]
      BY <2>4, <2>6 DEF UnderReplay
    <3>2. \A i \in 1 .. Len(maps[d]) + 1 : i \in 1 .. Len(maps[d]) \/ i = Len(maps[d]) + 1
      BY <2>5
    <3> QED
      BY <2>6, <3>1, <3>2
  <2>9. Len(more) <= Len(proc.replayed)
    BY <2>1, <2>5, <2>6
  <2> HIDE DEF more
  <2>10. UnderReplay(d)'
    BY <2>1, <2>4, <2>7, <2>8, <2>9 DEF UnderReplay
  <2>11. ASSUME NEW e \in Engine, e # d
         PROVE  (Whole(e) => Whole(e)') /\ (Fresh(e) => Fresh(e)')
    BY <2>1, <2>7, <2>11 DEF Whole, Fresh
  <2>12. Replays'
    BY <2>1, <2>3, <2>4, <2>10, <2>11 DEF Replays
  <2>13. \A e \in Engine : e \notin disk'.restored => maps'[e] = <<>>
    BY <1>2, <2>1, <2>4, <2>7 DEF UnderReplay
  <2> QED
    BY <1>1, <1>2, <2>1, <2>12, <2>13
<1>11. ASSUME NEW d \in Engine, Replayed(d) PROVE MapInv'
  <2>1. /\ proc.step = "replay" /\ proc.todo # <<>> /\ d = Head(proc.todo)
        /\ Len(proc.replayed) = Len(ledger) /\ Len(maps[d]) = Len(ledger)
        /\ UNCHANGED <<wal, disk, ledger, maps>>
        /\ proc'.step = "replay" /\ proc'.todo = Tail(proc.todo) /\ proc'.replayed = <<>>
    BY <1>a, <1>11 DEF Replayed, Replaying, Doing, ProcRecord, worldVars, sourceVars
  <2>2. d \in Range(proc.todo)
    BY <1>a, <2>1 DEF Range
  <2>3. UnderReplay(d) /\ \A e \in Engine : e # d => (e \notin Range(proc.todo) => Whole(e))
                                                   /\ (e \in Range(proc.todo) => Fresh(e))
    BY <1>2, <2>1, <2>2 DEF Replays
  <2>4. Whole(d)
    <3> DEFINE mine == maps[d]
    <3>1. mine \in Seq(Entry) /\ proc.replayed \in Seq(Entry) /\ Len(mine) = Len(proc.replayed)
      BY <1>a, <2>1
    <3>2. \A i \in DOMAIN mine : mine[i] = proc.replayed[i]
      BY <2>3 DEF UnderReplay
    <3> HIDE DEF mine
    <3>3. mine = proc.replayed
      BY <3>1, <3>2
    <3>4. StandsFor(wal[d], ledger, mine)
      BY <2>3, <3>3 DEF UnderReplay
    <3> QED
      BY <2>1, <3>4 DEF Whole, mine
  <2>5. ASSUME NEW e \in Engine PROVE (Whole(e) => Whole(e)') /\ (Fresh(e) => Fresh(e)')
    BY <2>1 DEF Whole, Fresh
  <2>6. CASE proc.todo = Both
    <3>1. d = Graydb /\ proc'.todo = <<Clickhouse>>
      BY <1>f, <2>1, <2>6
    <3>2. Fresh(Clickhouse)' /\ Whole(Graydb)'
      BY <1>e, <1>f, <2>3, <2>4, <2>5, <2>6, <3>1
    <3>3. UnderReplay(Clickhouse)'
      BY <1>b, <1>e, <2>1, <3>2, FreshStarts
    <3>4. Replays'
      BY <1>e, <1>f, <3>1, <3>2, <3>3 DEF Replays, Engine
    <3> QED
      BY <1>1, <1>2, <2>1, <3>1, <3>4
  <2>7. CASE proc.todo = <<Clickhouse>>
    <3>1. d = Clickhouse /\ proc'.todo = <<>>
      BY <1>f, <2>1, <2>7
    <3>2. Whole(Clickhouse)' /\ Whole(Graydb)'
      BY <1>e, <1>f, <2>3, <2>4, <2>5, <2>7, <3>1
    <3>3. Replays'
      BY <1>f, <3>1, <3>2 DEF Replays, Engine
    <3> QED
      BY <1>1, <1>2, <2>1, <3>1, <3>3
  <2> QED
    BY <1>2, <2>1, <2>6, <2>7
<1>12. CASE ValidateReplays
  <2>1. /\ proc.step = "replay" /\ proc.todo = <<>> /\ UNCHANGED <<wal, disk, ledger, maps>>
    BY <1>12 DEF ValidateReplays, Doing, sourceVars
  <2>2. CASE Fail
    BY <1>1, <1>2, <1>3, <2>1, <2>2
  <2>3. CASE ~Fail
    <3>1. maps[Graydb] # <<>> /\ Finish(TRUE)
      BY <1>12, <2>3 DEF ValidateReplays
    <3>2. proc'.step = "outcome" /\ proc'.replayed = proc.replayed
      BY <1>a, <3>1 DEF Finish, ProcRecord
    <3>3. \A e \in Engine : Whole(e)
      BY <1>2, <1>f, <2>1 DEF Replays
    <3>4. \A e \in Engine : Whole(e)'
      BY <2>1, <3>3 DEF Whole
    <3>5. Agreed'
      BY <1>e, <2>1, <3>1, <3>3 DEF Agreed, Whole
    <3> QED
      BY <1>1, <1>2, <2>1, <3>2, <3>4, <3>5
  <2> QED
    BY <2>2, <2>3
<1>13. \/ BackUp \/ ChecksumBaseline \/ VerifyBaseline \/ BaselineRefused \/ RestoreRefused
       \/ Restore \/ StartReplays
       \/ \E e \in Engine : ReplayTransaction(e) \/ PushReplayed(e) \/ Replayed(e)
       \/ ValidateReplays \/ StageFails
  <2>1. proc.step \notin {"measuring", "window"}
    BY <1>a DEF StepInv, Timed
  <2>2. Measured => proc.step = "measuring"
    BY DEF Measured
  <2> QED
    BY <2>1, <2>2 DEF Stages, Preflight, Seeded, LoadSeed, WriteManifest, Bootstrap, StartCdc, NextCheck,
       Checked, RecordCheck, NextWindow, BreakThings, Broken, Report, Checksums, CompleteRun,
       Doing, Checks, Timed
<1> HIDE DEF Goal
<1> QED
  BY <1>4, <1>5, <1>6, <1>7, <1>8, <1>9, <1>10, <1>11, <1>12, <1>13

LEMMA MapStays ==
    ASSUME RunInv, WorldTypes', RunTypes', CallTypes', [Next]_vars
    PROVE  MapInv'
<1>a. /\ MapInv /\ StageInv /\ StepInv /\ RunTypes /\ WorldTypes
      /\ proc \in ProcRecord /\ state \in StateRecord
      /\ wal \in [Source -> Seq(BOOLEAN)] /\ wal' \in [Source -> Seq(BOOLEAN)]
      /\ maps \in [Engine -> Seq(Entry)]
      /\ ledger \in Seq(Nat) /\ ledger' \in Seq(Nat) /\ mode \in {"Correctness", "Isolated"}
  BY DEF RunInv, WorldTypes, RunTypes
<1>b. "BaselineSnapshot" \in Stage /\ Engine \subseteq Source /\ "shared" \notin Engine
  BY StageIs, Engines
<1>d. proc.step \in {"prepare", "replay"} => proc.stage = "BaselineSnapshot" /\ proc.at = "stage"
  BY <1>a DEF StepInv
\* A step that leaves the sources and the maps alone.
<1>1. ASSUME SameReplays, UNCHANGED <<mode, proc>>, state'.done = state.done,
             active' = active
      PROVE  MapInv'
  <2>1. UNCHANGED maps /\ disk'.restored = disk.restored
    BY <1>1 DEF SameReplays
  <2>2. Doing("BaselineSnapshot", "outcome")' = Doing("BaselineSnapshot", "outcome")
    BY <1>1 DEF Doing
  <2>3. /\ proc.step = "prepare" => \A e \in Engine : e \notin Range(proc.todo) => Fresh(e)'
        /\ proc.step = "replay" => Replays'
        /\ mode = "Isolated" /\ Doing("BaselineSnapshot", "outcome") => \A e \in Engine : Whole(e)'
        /\ mode = "Isolated" /\ (Doing("BaselineSnapshot", "outcome") \/ state.done["BaselineSnapshot"] = "valid") => Agreed'
    BY <1>a, <1>1, SameIs DEF MapInv
  <2> QED
    BY <1>a, <1>1, <2>1, <2>2, <2>3 DEF MapInv
\* The process is elsewhere, or has gone.
<1>2. ASSUME SameReplays, UNCHANGED mode,
             proc'.step \notin {"prepare", "replay"}, proc'.replayed = <<>>,
             mode = "Isolated" /\ proc'.stage = "BaselineSnapshot" /\ proc'.step \in {"body", "copied"} =>
               proc'.todo = Both,
             ~Doing("BaselineSnapshot", "outcome")',
             active' # None => state'.done["BaselineSnapshot"] # "no",
             state'.done["BaselineSnapshot"] = "valid" =>
               state.done["BaselineSnapshot"] = "valid" \/ Doing("BaselineSnapshot", "outcome")
      PROVE  MapInv'
  <2>1. UNCHANGED maps /\ disk'.restored = disk.restored
    BY <1>2 DEF SameReplays
  <2>2. mode = "Isolated" /\ state'.done["BaselineSnapshot"] = "valid" => Agreed'
    BY <1>a, <1>2, SameIs DEF MapInv
  <2> QED
    BY <1>a, <1>2, <2>1, <2>2 DEF MapInv
<1>3. CASE Controller
  <2>1. UNCHANGED <<mode, wal, ledger, disk, maps>>
    BY <1>a, <1>3, DoneIs
  <2>2. SameReplays
    BY <2>1 DEF SameReplays
  <2>3. /\ state.done["BaselineSnapshot"] # "no" => state'.done["BaselineSnapshot"] # "no"
        /\ state'.done["BaselineSnapshot"] # state.done["BaselineSnapshot"] =>
             Doing("BaselineSnapshot", "outcome") /\ proc'.at # "stage"
    BY <1>a, <1>b, <1>3, DoneIs
  <2>4. active' = None \/ active' = active
    BY <1>3, ControllerReplays
  <2>5. active' # None => state'.done["BaselineSnapshot"] # "no"
    BY <1>a, <2>3, <2>4 DEF MapInv
  <2>6. CASE UNCHANGED proc
    <3>1. state'.done["BaselineSnapshot"] = state.done["BaselineSnapshot"]
      BY <2>3, <2>6 DEF Doing
    <3>2. UNCHANGED maps /\ disk'.restored = disk.restored
      BY <2>1
    <3>3. Doing("BaselineSnapshot", "outcome")' = Doing("BaselineSnapshot", "outcome")
      BY <2>6 DEF Doing
    <3>4. /\ proc.step = "prepare" => \A e \in Engine : e \notin Range(proc.todo) => Fresh(e)'
          /\ proc.step = "replay" => Replays'
          /\ mode = "Isolated" /\ Doing("BaselineSnapshot", "outcome") => \A e \in Engine : Whole(e)'
          /\ mode = "Isolated" /\ (Doing("BaselineSnapshot", "outcome") \/ state.done["BaselineSnapshot"] = "valid") => Agreed'
      BY <1>a, <2>2, <2>6, SameIs DEF MapInv
    <3> QED
      BY <1>a, <2>1, <2>5, <2>6, <3>1, <3>2, <3>3, <3>4 DEF MapInv
  <2>7. CASE /\ proc'.replayed = <<>>
             /\ \/ proc'.step = "none"
                \/ proc'.step = "body" /\ (mode = "Isolated" => proc'.todo = Both)
    <3>1. ~Doing("BaselineSnapshot", "outcome")'
      BY <2>7 DEF Doing
    <3>2. state'.done["BaselineSnapshot"] = "valid" =>
            state.done["BaselineSnapshot"] = "valid" \/ Doing("BaselineSnapshot", "outcome")
      BY <2>3
    <3> QED
      BY <1>2, <2>1, <2>2, <2>5, <2>7, <3>1, <3>2
  <2> QED
    BY <1>3, <2>6, <2>7, ControllerReplays
<1>4. CASE Crash
  <2>1. /\ UNCHANGED <<mode, wal, ledger, state, disk, maps>> /\ proc' = Down /\ active' = None
    BY <1>4, ExitIs DEF Crash, sourceVars
  <2>2. SameReplays
    BY <2>1 DEF SameReplays
  <2>3. proc'.step = "none" /\ proc'.replayed = <<>>
    BY <2>1 DEF Down
  <2> QED
    BY <1>2, <2>1, <2>2, <2>3 DEF Doing
<1>5. CASE Checkpointing \/ Measuring \/ Breaking \/ Resting
  <2>1. UNCHANGED <<mode, wal, ledger, active, state, disk, proc, maps>>
    BY <1>5 DEF Checkpointing, Measuring, Breaking, Resting
  <2> QED
    BY <1>1, <2>1 DEF SameReplays
<1>6. CASE Serving
  <2>1. UNCHANGED <<mode, active, state, disk, proc, maps>>
    BY <1>6 DEF Serving
  <2>2. CASE WriterDies \/ \E e \in Engine : EngineApplies(e) \/ EngineLoses(e)
    <3>1. UNCHANGED <<wal, ledger>>
      BY <2>2 DEF WriterDies, EngineApplies, EngineLoses, sourceVars
    <3> QED
      BY <1>1, <2>1, <3>1 DEF SameReplays
  <2>3. CASE OtherRecord \/ WriterCommits
    <3>1. CASE active = None
      <4>1. \A e \in Engine : wal'[e] = wal[e]
        <5>1. Here = "shared"
          BY <3>1 DEF Here
        <5>2. PICK b \in BOOLEAN : wal' = [wal EXCEPT ![Here] = Append(@, b)]
          BY <2>3 DEF OtherRecord, WriterCommits, Appended
        <5> QED
          BY <1>a, <1>b, <5>1, <5>2
      <4>2. CASE OtherRecord
        <5>1. UNCHANGED ledger
          BY <4>2 DEF OtherRecord
        <5> QED
          BY <1>1, <2>1, <4>1, <5>1 DEF SameReplays
      <4>3. CASE WriterCommits
        <5>1. proc.step \in {"measuring", "breaking"} /\ proc.stage \in Writes
          BY <4>3, WriterWorks DEF WriterCommits
        <5>2. mode # "Isolated"
          <6>1. proc.step = "measuring" /\ mode = "Isolated" => active # None
            BY DEF RunInv, TurnInv, Turns
          <6>2. proc.step = "breaking" => mode = "Correctness"
            BY <1>a DEF StepInv
          <6> QED
            BY <3>1, <5>1, <6>1, <6>2
        <5> QED
          BY <1>a, <2>1, <5>1, <5>2 DEF MapInv
      <4> QED
        BY <2>3, <4>2, <4>3
    <3>2. CASE active # None
      <4>1. state.done["BaselineSnapshot"] # "no"
        BY <1>a, <3>2 DEF MapInv
      <4>2. ~Doing("BaselineSnapshot", "outcome") /\ proc.step \notin {"prepare", "replay"}
        BY <1>a, <1>d, <4>1, UnderWay DEF Doing
      <4>3. ASSUME Agreed PROVE Agreed'
        <5>1. ASSUME NEW e \in Engine PROVE StandsFor(wal'[e], ledger', maps[e])
          <6>1. /\ wal[e] \in Seq(BOOLEAN) /\ wal'[e] \in Seq(BOOLEAN) /\ maps[e] \in Seq(Entry)
                /\ StandsFor(wal[e], ledger, maps[e])
            BY <1>a, <1>b, <4>3 DEF Agreed
          <6>2. Begins(wal[e], wal'[e])
            <7>1. PICK b \in BOOLEAN : wal' = [wal EXCEPT ![Here] = Append(@, b)]
              BY <2>3 DEF OtherRecord, WriterCommits, Appended
            <7>2. wal'[e] = wal[e] \/ wal'[e] = Append(wal[e], b)
              BY <1>a, <1>b, <7>1
            <7>3. Begins(wal[e], wal[e])
              BY <6>1, BeginsItself
            <7>4. Begins(wal[e], Append(wal[e], b))
              BY <6>1, AppendBegins
            <7> QED
              BY <7>2, <7>3, <7>4
          <6>3. Begins(ledger, ledger')
            <7>1. CASE OtherRecord
              BY <1>a, <7>1, BeginsItself DEF OtherRecord
            <7>2. CASE WriterCommits
              <8>1. ledger' = Append(ledger, WalHead + 1) /\ WalHead + 1 \in Nat
                BY <1>a, <7>2, HereIs DEF WriterCommits
              <8> QED
                BY <1>a, <8>1, AppendBegins
            <7> QED
              BY <2>3, <7>1, <7>2
          <6> QED
            BY <1>a, <6>1, <6>2, <6>3, StandsGrow
        <5> QED
          BY <2>1, <4>3, <5>1 DEF Agreed
      <4>4. ~Doing("BaselineSnapshot", "outcome")'
        BY <2>1, <4>2 DEF Doing
      <4> QED
        BY <1>a, <2>1, <4>2, <4>3, <4>4 DEF MapInv
    <3> QED
      BY <3>1, <3>2
  <2> QED
    BY <1>6, <2>2, <2>3 DEF Serving, Services
<1>7. CASE Stages /\ proc.stage = "BaselineSnapshot"
  BY <1>7, BaselineStays
<1>8. CASE Stages /\ proc.stage # "BaselineSnapshot"
  <2>1. /\ proc.at = "stage" /\ UNCHANGED <<mode, ledger>> /\ state'.done = state.done
        /\ \/ proc'.stage = proc.stage
           \/ proc'.step = "none"
    BY <1>a, <1>8, StagesFrame, FailIs
  <2>2. ReplaysFrame
    BY <1>a, <1>8, StagesReplays
  <2>3. SameReplays
    BY <1>8, <2>1, <2>2 DEF ReplaysFrame, SameReplays
  <2>4. proc'.replayed = <<>> /\ proc'.step \notin {"prepare", "replay"}
    <3>1. proc.step # "replay"
      BY <1>d, <1>8
    <3>2. proc.replayed = <<>>
      BY <1>a, <3>1 DEF MapInv
    <3> QED
      BY <1>8, <2>2, <3>2 DEF ReplaysFrame
  <2>5. active' # None => state'.done["BaselineSnapshot"] # "no"
    <3>1. CASE active' = active
      BY <1>a, <2>1, <3>1 DEF MapInv
    <3>2. CASE proc.stage \in Checks \union Timed
      BY <1>a, <2>1, <3>2, BeforeAndAfter DEF Writes
    <3> QED
      BY <2>2, <3>1, <3>2 DEF ReplaysFrame
  <2>6. /\ ~Doing("BaselineSnapshot", "outcome")'
        /\ proc'.stage = "BaselineSnapshot" => proc'.step \notin {"body", "copied"}
    BY <1>8, <2>1 DEF Doing
  <2> QED
    BY <1>2, <2>1, <2>3, <2>4, <2>5, <2>6
<1> QED
  BY <1>a, <1>3, <1>4, <1>5, <1>6, <1>7, <1>8, NextIs

-----------------------------------------------------------------------------
(***************************************************************************)
(* The inductive invariant.                                                *)
(***************************************************************************)
LEMMA PlaceStays ==
    ASSUME RunInv, WorldTypes', RunTypes', CallTypes', [Next]_vars
    PROVE  PlaceInv'
<1>a. RunTypes /\ WorldTypes /\ PlaceInv
  BY DEF RunInv
<1>1. CASE Controller
  <2>1. CASE Create \/ SetPlan \/ ResumeRun \/ ArchiveUnplanned \/ End
    BY <1>a, <2>1 DEF Create, SetPlan, ResumeRun, ArchiveUnplanned, End, AtBoundary, Down,
       PlaceInv
  <2>2. CASE ExitFailed
    BY <2>2, ExitIs DEF ExitFailed, Down, PlaceInv
  <2>3. ASSUME NEW valid \in BOOLEAN, Complete(valid) PROVE PlaceInv'
    BY <2>3, ExitIs DEF Complete, AtBoundary, Down, PlaceInv
  <2>4. CASE Begin
    <3>1. proc'.at = "stage"
      BY <2>4 DEF Begin, AtBoundary, Down
    <3> QED
      BY <3>1 DEF PlaceInv
  <2> QED
    BY <1>1, <2>1, <2>2, <2>3, <2>4 DEF Controller
<1>2. CASE Stages
  BY <1>a, <1>2, StagesFrame, FailIs DEF PlaceInv
<1>3. CASE Crash
  BY <1>3, ExitIs DEF Crash, Down, PlaceInv
<1>4. CASE Checkpointing \/ Measuring \/ Breaking \/ Serving \/ Resting
  BY <1>a, <1>4 DEF Checkpointing, Measuring, Breaking, Serving, Resting, PlaceInv
<1> QED
  BY <1>a, <1>1, <1>2, <1>3, <1>4, NextIs

LEMMA InvStays ==
    ASSUME RunInv, [Next]_vars
    PROVE  RunInv'
<1>1. WorldTypes' /\ RunTypes' /\ CallTypes'
  BY TypesStay
<1>2. StageInv' /\ StepInv' /\ PlaceInv' /\ TurnInv' /\ CallInv' /\ WriterInv'
  BY <1>1, StageStays, StepStays, PlaceStays, TurnStays, CallStays, WriterStays
<1>3. CaptureInv' /\ MendInv' /\ SeedInv' /\ RecordInv' /\ MapInv'
  BY <1>1, CaptureStays, MendStays, SeedStays, RecordStays, MapStays
<1> QED
  BY <1>1, <1>2, <1>3 DEF RunInv

LEMMA InvStarts ==
    ASSUME Init
    PROVE  RunInv
<1>1. /\ mode \in {"Correctness", "Isolated"} /\ wal = [s \in Source |-> <<>>]
      /\ engine = [e \in Engine |-> Unloaded] /\ ledger \in Ledgers \union {<<>>}
      /\ writer = NoWriter /\ active = None /\ state = NoState /\ disk = EmptyDirectory
      /\ proc = Down /\ maps = [e \in Engine |-> <<>>]
      /\ cp = NoCheckpoint /\ win = NoWindow /\ fs = NoFailure
  BY DEF Init, WorldInit
<1>2. WorldTypes
  <2>1. ledger \in Seq(Nat)
    <3>1. CASE ledger \in Ledgers
      BY <3>1, WorldAssumption
    <3>2. CASE ledger = <<>>
      BY <3>2
    <3> QED
      BY <1>1, <3>1, <3>2
  <2>2. wal \in [Source -> Seq(BOOLEAN)]
    BY <1>1
  <2> QED
    BY <1>1, <2>1, <2>2, Starts DEF WorldTypes
<1>3. RunTypes
  <2>1. state \in StateRecord
    BY <1>1 DEF NoState, StateRecord
  <2>2. disk \in DiskRecord
    BY <1>1 DEF EmptyDirectory, DiskRecord
  <2>3. maps \in [Engine -> Seq(Entry)]
    BY <1>1
  <2> QED
    BY <1>1, <2>1, <2>2, <2>3, Starts DEF RunTypes
<1>4. CallTypes
  BY <1>1, Starts DEF CallTypes, NoFailure
<1>5. proc.at = "down" /\ proc.step = "none" /\ proc.stage = "none" /\ proc.todo = <<>>
      /\ proc.replayed = <<>>
  BY <1>1 DEF Down
<1>6. /\ \A s \in Stage : state.done[s] = "no"
      /\ ~state.invalid /\ ~disk.manifest /\ disk.result = "none"
  BY <1>1 DEF NoState, EmptyDirectory
<1>7. cp.at = "idle" /\ win.at = "idle" /\ fs.at = "idle" /\ ~fs.err
  BY <1>1 DEF NoCheckpoint, NoWindow, NoFailure
<1>8. {"Seed", "BaselineSnapshot", "Bootstrap", "FailureSequence", "FinalCheckpoint"} \subseteq Stage
      /\ Checks \subseteq Stage
  BY StageIs DEF Checks
<1>9. \A s \in Stage : ~Doing(s, "outcome")
  BY <1>5 DEF Doing
<1>10. StageInv
  <2>1. \A i \in 1 .. 12 : Ordered[i] \in Stage
    BY StageIs
  <2> QED
    BY <1>5, <1>6, <2>1 DEF StageInv
<1>11. StepInv /\ PlaceInv /\ TurnInv /\ CallInv
  BY <1>1, <1>5, <1>7 DEF StepInv, PlaceInv, TurnInv, CallInv, Turns
<1>12. WriterInv /\ CaptureInv
  BY <1>1, <1>5, <1>7 DEF WriterInv, CaptureInv, NoWriter
<1>13. MendInv
  BY <1>1, <1>6, <1>7, <1>8, <1>9 DEF MendInv, Unbroken, AllMended, Unloaded
<1>14. SeedInv
  <2>1. \A e \in Engine : engine[e].snap = 0
    BY <1>1 DEF Unloaded
  <2>2. Published("shared") = {}
    <3>1. wal["shared"] = <<>>
      BY <1>1, Engines
    <3> QED
      BY <3>1 DEF Published
  <2> QED
    BY <1>5, <1>6, <1>8, <1>9, <2>1, <2>2 DEF SeedInv
<1>15. RecordInv
  BY <1>5, <1>6, <1>8, <1>9 DEF RecordInv, FinalPassed
<1>16. MapInv
  BY <1>1, <1>5, <1>6, <1>8, <1>9 DEF MapInv
<1> QED
  BY <1>2, <1>3, <1>4, <1>10, <1>11, <1>12, <1>13, <1>14, <1>15, <1>16 DEF RunInv

\* Whatever fails, lags, is killed or resumed, the run's parts stay related as
\* RunInv says: the stages as run_to_terminal takes them, the writer, the
\* captured checkpoint, the engines, the replay maps and the records on disk.
THEOREM RunInvHolds == Spec => []RunInv
<1>1. Init => RunInv
  BY InvStarts
<1>2. RunInv /\ [Next]_vars => RunInv'
  BY InvStays
<1> QED
  BY <1>1, <1>2, PTL DEF Spec

-----------------------------------------------------------------------------
(***************************************************************************)
(* The run's properties.                                                   *)
(***************************************************************************)
\* The run's records keep their types, and of the calls a stage makes at most
\* one is under way, while its caller waits for it or has just failed.
THEOREM RunTypesHold == Spec => []RunTypeOK
<1>1. ASSUME RunInv PROVE RunTypeOK
  <2>1. /\ WorldTypes /\ RunTypes /\ CallInv /\ StageInv
    BY <1>1 DEF RunInv
  <2>2. ASSUME NEW s \in Source, NEW i \in DOMAIN wal[s] PROVE wal[s][i] \in BOOLEAN
    <3>1. wal[s] \in Seq(BOOLEAN)
      BY <2>1, <2>2 DEF WorldTypes
    <3> QED
      BY <2>2, <3>1
  <2>3. proc.at \in Where /\ (proc.at = "stage" => proc.stage \in Stage)
    BY <2>1, UnderWay DEF RunTypes, ProcRecord
  <2>4. /\ cp.at # "idle" => proc.step \in {"checking", "breaking"} \/ proc.at = "failed"
        /\ win.at # "idle" => proc.step = "measuring" \/ proc.at = "failed"
        /\ fs.at # "idle" => proc.step = "breaking" \/ proc.at = "failed"
    BY <2>1 DEF CallInv
  <2> QED
    BY <2>1, <2>2, <2>3, <2>4 DEF RunTypeOK, WorldTypes, RunTypes, StateRecord, DiskRecord, Where
<1> QED
  BY <1>1, RunInvHolds, PTL

\* The application writer is stopped on every path out of a window, a
\* checkpoint or the failure sequence, and is gone with its process.
THEOREM WriterIsParked == Spec => []WriterParked
<1>1. ASSUME RunInv PROVE WriterParked
  BY <1>1 DEF RunInv, WriterInv, Writing, StepInv, WriterParked
<1> QED
  BY <1>1, RunInvHolds, PTL

\* A failure sequence that counts as passed has left no engine stopped or cut
\* off the network (run_system_failure_sequence).
THEOREM EnginesAreMended == Spec => []EnginesMended
<1>1. ASSUME RunInv PROVE EnginesMended
  BY <1>1 DEF RunInv, MendInv, Unbroken, AllMended, EnginesMended
<1> QED
  BY <1>1, RunInvHolds, PTL

\* What capture_runtime_checkpoint compares is what the source held at the
\* captured LSN, and an engine that passed shows exactly that.
THEOREM CheckpointsAreSound == Spec => []CheckpointIsSound
<1>1. ASSUME RunInv PROVE CheckpointIsSound
  <2>1. WorldTypes /\ CallInv /\ StepInv /\ PlaceInv /\ CaptureInv
    BY <1>1 DEF RunInv
  <2>2. ASSUME Captured PROVE cp.captured = Commits(Here, cp.lsn)
    BY <2>1, <2>2, PublishedIs DEF Captured
  <2>3. cp.at = "resume" /\ ~cp.err => Captured
    BY <2>1 DEF CaptureInv
  <2>4. ASSUME proc.stage \in Checks, cp.at \in {"compare", "done"}, ~cp.err, cp.passed,
               NEW e \in Range(cp.engines) \ Range(cp.todo)
        PROVE  Shown(e, cp.lsn) = Commits(Here, cp.lsn)
    <3>1. proc.step = "checking"
      <4>1. proc.at = "stage"
        BY <2>1, <2>4 DEF PlaceInv, Checks
      <4>2. proc.step # "breaking"
        BY <2>1, <2>4 DEF StepInv, Checks
      <4> QED
        BY <2>1, <2>4, <4>1, <4>2 DEF CallInv
    <3>2. Captured /\ Matched(e)
      BY <2>1, <2>4, <3>1 DEF CaptureInv
    <3> QED
      BY <2>2, <3>2 DEF Matched
  <2> QED
    BY <2>2, <2>3, <2>4 DEF CheckpointIsSound
<1> QED
  BY <1>1, RunInvHolds, PTL

\* A valid result (write_system_report) stands for two checkpoints that passed
\* and, in a correctness run, for engines that have every commit of the source.
THEOREM ReportsAreTrue == Spec => []ReportIsTrue
<1>1. ASSUME RunInv, disk.result = "valid"
      PROVE  \A s \in Checks : disk.check[s] = "pass"
  <2>1. Checks \subseteq BeforeReport
    BY OrderedIs DEF Checks, BeforeReport
  <2> QED
    BY <1>1, <2>1 DEF RunInv, RecordInv
<1>2. ASSUME RunInv, disk.result = "valid", mode = "Correctness", NEW e \in Engine
      PROVE  /\ engine[e].lost = {}
             /\ Commits("shared", Len(wal["shared"])) \subseteq Shown(e, Len(wal["shared"]))
  <2>1. WorldTypes /\ TurnInv /\ SeedInv /\ RecordInv
    BY <1>2 DEF RunInv
  <2>2. HoldsAll(e)
    <3>1. "FinalCheckpoint" \in BeforeReport
      BY OrderedIs DEF BeforeReport
    <3> QED
      BY <1>2, <2>1, <3>1 DEF RecordInv, FinalPassed
  <2>3. Here = "shared" /\ WalHead = Len(wal["shared"])
    BY <1>2, <2>1 DEF TurnInv, Here, WalHead
  <2> DEFINE head == Len(wal["shared"])
  <2>4. /\ Commits("shared", head) = Published("shared") /\ head \in Nat
        /\ \A p \in Published("shared") : p <= head /\ p \in Nat
        /\ \A lsn : Commits(Here, lsn) = {p \in Published("shared") : p <= lsn}
    BY <2>1, <2>3, PublishedIs, HereIs
  <2>5. engine[e].snap # 0 /\ engine[e].snap <= head /\ engine[e].snap \in Nat
        /\ engine[e].from \in Nat
    BY <1>2, <2>1, <2>2 DEF HoldsAll, SeedInv, WorldTypes, EngineRecord
  <2> HIDE DEF head
  <2>6. ASSUME NEW p \in Published("shared") PROVE p \in engine[e].base \/ p \in Streamed(e)
    <3>1. p <= engine[e].applied /\ (p \in engine[e].base \/ engine[e].from < p)
          /\ engine[e].lost = {}
      BY <2>2, <2>6 DEF HoldsAll
    <3>2. p \in Commits(Here, engine[e].applied)
      BY <2>4, <2>6, <3>1
    <3>3. engine[e].from < p => p \notin Commits(Here, engine[e].from)
      BY <2>4, <2>5, <2>6
    <3> QED
      BY <3>1, <3>2, <3>3 DEF Streamed
  <2>7. Shown(e, head) = engine[e].base \union {p \in Streamed(e) : p <= head}
    BY <2>4, <2>5 DEF Shown
  <2>8. Commits("shared", head) \subseteq Shown(e, head)
    BY <2>4, <2>6, <2>7
  <2> QED
    BY <2>2, <2>8 DEF HoldsAll, head
<1>3. RunInv => ReportIsTrue
  BY <1>1, <1>2 DEF ReportIsTrue
<1> QED
  BY <1>3, RunInvHolds, PTL

\* The maps an isolated run measures by cover the ledger and lie right in their
\* sources (prepare_isolated_replay, IsolatedReplayEvidence::validate).
THEOREM ReplayMapsAgree == Spec => []MapsAgree
<1>1. ASSUME RunInv, mode = "Isolated", Doing("BaselineSnapshot", "outcome"), NEW e \in Engine
      PROVE  DOMAIN maps[e] = DOMAIN ledger
  <2>1. maps[e] \in Seq(Entry) /\ ledger \in Seq(Nat)
    BY <1>1 DEF RunInv, RunTypes, WorldTypes
  <2>2. Len(maps[e]) = Len(ledger)
    BY <1>1 DEF RunInv, MapInv, Whole
  <2> QED
    BY <2>1, <2>2
<1>2. ASSUME RunInv, mode = "Isolated", state.done["BaselineSnapshot"] = "valid"
      PROVE  /\ maps[Graydb] # <<>> /\ Len(maps[Graydb]) = Len(maps[Clickhouse])
             /\ \A e \in Engine : \A i \in DOMAIN maps[e] :
                  /\ i \in DOMAIN ledger /\ maps[e][i].original = ledger[i]
                  /\ Cardinality(Commits(e, maps[e][i].lsn)) = i + 1
  BY <1>2 DEF RunInv, MapInv, Agreed, StandsFor, CommitsOf, Commits
<1>3. RunInv => MapsAgree
  BY <1>1, <1>2 DEF MapsAgree
<1> QED
  BY <1>3, RunInvHolds, PTL

\* No transaction is committed for an invalid run: only the writer extends the
\* ledger, and it works only in stages of a run that is valid.
THEOREM LedgerIsFrozen == Spec => LedgerFrozen
<1>1. ASSUME RunInv, [Next]_vars PROVE state.invalid => ledger' = ledger
  <2>1. WorldTypes /\ RunTypes /\ StageInv
    BY <1>1 DEF RunInv
  <2>2. CASE Controller
    BY <2>1, <2>2, DoneIs
  <2>3. CASE Stages
    BY <2>1, <2>3, StagesFrame
  <2>4. CASE Checkpointing \/ Measuring \/ Breaking \/ Resting \/ Crash
    BY <2>4 DEF Checkpointing, Measuring, Breaking, Resting, Crash, sourceVars
  <2>5. CASE Serving
    <3>1. CASE WriterCommits
      BY <1>1, <3>1, WriterWorks DEF WriterCommits
    <3>2. CASE ~WriterCommits
      BY <2>5, <3>2 DEF Serving, Services, WriterDies, OtherRecord, EngineApplies, EngineLoses,
         sourceVars
    <3> QED
      BY <3>1, <3>2
  <2> QED
    BY <1>1, <2>1, <2>2, <2>3, <2>4, <2>5, NextIs
<1>2. RunInv /\ [Next]_vars => [state.invalid => ledger' = ledger]_vars
  BY <1>1
<1> QED
  BY <1>2, RunInvHolds, PTL DEF Spec, LedgerFrozen

-----------------------------------------------------------------------------
(***************************************************************************)
(* The run implements Lifecycle.                                           *)
(***************************************************************************)
Passed == {s \in Stage : state.done[s] # "no"}

\* The stages that are left are the open ones.
LEMMA RemainingIs ==
    ASSUME NextStage # "none"
    PROVE  Promise!Remaining # {} /\ Promise!Stages[Promise!Min(Promise!Remaining)] = NextStage
<1> DEFINE stages == IF state.invalid THEN Archival ELSE Ordered
           open == {i \in DOMAIN stages : state.done[stages[i]] = "no"}
<1>1. \A i \in DOMAIN stages : stages[i] \in Stage
  <2>1. \A i \in 1 .. 15 : Ordered[i] \in Stage
    BY StageIs
  <2>2. \A i \in 1 .. 2 : Archival[i] \in Stage
    <3>1. \A i \in 1 .. 2 : i = 1 \/ i = 2
      OBVIOUS
    <3> QED
      BY <3>1, OrderedIs, StageIs
  <2> QED
    BY <2>1, <2>2, OrderedIs
<1>2. Promise!Stages = stages
  BY DEF Promise!Stages
<1>3. Promise!Remaining = open
  BY <1>1, <1>2 DEF Promise!Remaining
<1>4. NextStage = IF open = {} THEN "none" ELSE stages[Min(open)]
  BY DEF NextStage, FirstOpen
<1>5. \A S : Promise!Min(S) = Min(S)
  BY DEF Promise!Min, Min
<1> QED
  BY <1>2, <1>3, <1>4, <1>5

\* The stages complete in order, none twice, and an invalidation is final
\* (run_to_terminal, next_stage, begin_stage, complete_stage): the safety half
\* of ImplementsLifecycle.
THEOREM RunImplementsLifecycle == Spec => Promise!LifecycleSafety
<1>1. Init => Promise!LifecycleInit
  BY DEF Init, NoState, Promise!LifecycleInit
<1>2. ASSUME RunInv, [Next]_vars
      PROVE  [Promise!LifecycleNext]_(Promise!lifecycleVars)
  <2>1. WorldTypes /\ RunTypes /\ StageInv /\ state \in StateRecord
    BY <1>2 DEF RunInv, RunTypes
  <2>2. ASSUME state'.done = state.done, state'.invalid = state.invalid
        PROVE  UNCHANGED Promise!lifecycleVars
    BY <2>2 DEF Promise!lifecycleVars
  <2>3. ASSUME state'.done = state.done, state'.invalid
        PROVE  Promise!LifecycleNext
    BY <2>3 DEF Promise!LifecycleNext, Promise!Spoil
  <2>4. CASE Controller
    <3>1. CASE Create \/ SetPlan \/ ResumeRun \/ Begin \/ End \/ ExitFailed
      BY <2>1, <2>2, <3>1 DEF Create, SetPlan, ResumeRun, Begin, End, ExitFailed, StateRecord
    <3>2. CASE ArchiveUnplanned
      BY <2>1, <2>3, <3>2 DEF ArchiveUnplanned, StateRecord
    <3>3. ASSUME NEW valid \in BOOLEAN, Complete(valid) PROVE Promise!LifecycleNext
      <4>1. /\ state'.done = [state.done EXCEPT ![proc.stage] = IF valid THEN "valid" ELSE "invalid"]
            /\ state'.invalid = (state.invalid \/ ~valid)
            /\ state.done \in [Stage -> {"no", "valid", "invalid"}] /\ state.invalid \in BOOLEAN
            /\ proc.at = "stage"
        BY <2>1, <3>3 DEF Complete, StateRecord
      <4>2. proc.stage = NextStage /\ NextStage # "none" /\ proc.stage \in Stage
        BY <2>1, <4>1, UnderWay DEF StageInv
      <4>3. Promise!Remaining # {} /\ Promise!Stages[Promise!Min(Promise!Remaining)] = proc.stage
        BY <4>2, RemainingIs
      <4>4. Passed' = Passed \union {proc.stage}
        BY <4>1, <4>2 DEF Passed
      <4>5. state'.invalid \in {state.invalid, TRUE}
        BY <4>1
      <4>6. Promise!CompleteNext
        BY <4>3, <4>4, <4>5 DEF Promise!CompleteNext, Passed
      <4> QED
        BY <4>6 DEF Promise!LifecycleNext
    <3> QED
      BY <2>4, <3>1, <3>2, <3>3 DEF Controller
  <2>5. CASE Stages
    <3>1. UNCHANGED state \/ Fail
      BY <2>1, <2>5, StagesFrame
    <3>2. CASE UNCHANGED state
      BY <2>2, <3>2
    <3>3. CASE Fail
      BY <2>1, <2>3, <3>3, FailIs
    <3> QED
      BY <3>1, <3>2, <3>3
  <2>6. CASE Crash \/ Checkpointing \/ Measuring \/ Breaking \/ Serving \/ Resting
    BY <2>2, <2>6 DEF Crash, Checkpointing, Measuring, Breaking, Serving, Resting
  <2> QED
    BY <1>2, <2>1, <2>4, <2>5, <2>6, NextIs
<1> QED
  BY <1>1, <1>2, RunInvHolds, PTL DEF Spec, Promise!LifecycleSafety
=============================================================================
