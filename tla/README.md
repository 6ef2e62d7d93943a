# A TLA+ verification of GrayDB

GrayDB attaches to a PostgreSQL server, copies its tables under an exported
snapshot, follows its logical replication stream, keeps the raw stream in a
durable log of its own, and materializes from that log two *shapes* of every
table: immutable columnar segments with time travel, and a full-text index.
Queries read the shapes at a chosen consistency class. A second program, the R1
harness, drives the same log and shapes in a benchmark against ClickHouse: it
writes a deterministic workload into PostgreSQL, keeps a ledger of what it
committed, and takes both engines through windows of queries, checkpoints and
failures.

These modules model the part where mistakes cost data or make a measurement
false: what the log promises the source, what a restart takes back, how snapshot
and stream meet, what the shapes have applied, what a reader may conclude, what
the benchmark's ledger says, and when its report may call a run valid. Paths
below are relative to the repository; `lib.rs` etc. are under `crates/`.

## 1. Inventory

| Component | State | Operations | Interacts with |
|---|---|---|---|
| **FrameLog** `graydb-log/src/lib.rs` | segment files, open segment, `next_seq`, `pending_commit`, published `DurableMark`, rung-3 flag and staged frames | `create`, `append`, `append_deferred`, `flush_pending`, `roll_segment`, `set_stalled`, `resume`, `verify_log` | owned by the pump or by R1's control stream; its files are read by LogTail; its mark is watched by the engine |
| **LogTail** `graydb-log/src/tail.rs` | cursor: segment name and byte offset | `read_new` | reads the live files without a lock; tells the apply loop `rewound` |
| **StreamDecoder, Registry, replay** `graydb-registry/src/decoder.rs`, `lib.rs` | open transaction, expected sequence number, last commit, live relations, schema versions by LSN | `feed`, `abort_open_txn`, `record_version`, `schema_at`, `replay_log` | fed by the apply loop and by offline replay |
| **Pump** `graydb-ingest/src/stream.rs` | replication session, `stream_lsn`, `acked_lsn` | `run_pump`: frames, keepalives, 1 s status ticks, commands | source session on one side, FrameLog on the other |
| **Attach and snapshot** `graydb-ingest/src/attach.rs`, `snapshot.rs`, `Engine::attach` | publication, slot, exported snapshot, job queue, parts, manifest | eligibility, slot, parallel COPY at LSN0, building the shapes | the source; the pump it starts; the stores it loads |
| **Engine** `graydb-studio/src/engine.rs`, `main.rs` | `pipeline` (RwLock), `pump` (Mutex), event log | apply loop, `query`/`resolve_class`, `status`, kill, restart, stall, freeze | everything above, and both shapes |
| **TableStore** `graydb-columnar/src/store.rs`, `reader.rs`, `copytext.rs` | open rows, segments, delete sidecars, key index, `live_rows`, `applied_lsn`; files | `load_copy_part`, `apply`, `flush`, `finalize`, `scan_at`, `read_visible_batches` | the apply loop; queries; readers of the directory |
| **SearchStore** `graydb-search/src/lib.rs` | tantivy writer, committed index, `graydb-meta.json` | `index_backfill_row`, `apply`, `commit_batch`, `SearchReader::open`/`search` | the apply loop; queries without a lock |
| **R1 control stream, writer, ledger** `graydb-r1/src/replication.rs`, `ledger.rs` | marker table, mapping channel, intents, ledger file and its chain | mapping, batches of acknowledgements, `execute_and_record`, `submit_plan`, `recover_and_record`, `run`, replay map | FrameLog with `append_deferred`; the source; readers of the ledger file |
| **R1 workload and oracle** `graydb-r1/src/workload.rs`, `oracle.rs` | none; rows with their history | `plan`; `apply`, rows at an LSN, `compare_at` | the writer, the checkpoints |
| **R1 ClickHouse task** `graydb-r1/src/runtime.rs`, `clickhouse.rs` | window of received frames, adapter's decoder, `applied_lsn`, `last_visibility_lsn`; ClickHouse's rows, markers, visibility positions | receive, flush a window, keepalive, reconnect, stop; `wait_visible`, `query` | a replication slot of its own; the ledger; ClickHouse over HTTP |
| **R1 controller** `graydb-r1/src/controller.rs`, `bin/r1ctl.rs` | `run-state.json`, evidence files | create, plan, resume, begin/complete stage, invalidate | the runtime |
| **R1 runtime and failure injector** `graydb-r1/src/runtime.rs`, `failure.rs` | the writer's coordinator, the CDC task, the active isolated engine | the stages' bodies, query windows, checkpoints, the failure sequence, isolated replay | engines, docker, the source, all of R1 |
| **R1 seed data** `graydb-r1/src/generator.rs`, `manifest.rs` | none; the loop of a load | `row`, `single_cycle_ranges`; `load_until` | the source, before a run |
| **R1 verdict and gates** `graydb-r1/src/verdict.rs`, `metrics.rs`, parts of `controller.rs`, `runtime.rs` | none | cell and card verdicts, percentiles, policies, freshness, stop rules | the report |

**What is hard here.** The pump, the apply loop and the queries are separate
tasks that share files, two locks and a watch channel. The pump can be aborted
at any `await` and the machine can stop at any moment; a fresh session then
delivers again everything after the mark, while the tail, the decoder and the
shapes live on and learn of the restart only from the files. The copy runs in
several sessions while the source writes and the pump already streams. A
`strong` read samples two locks at two moments, and the proof of an answer is
made from a third. A transaction is applied row by row to two stores that become
visible in different ways. In R1 the answer to a COMMIT can be lost, the ledger
is read while it is written, the writer is started and stopped by windows,
checkpoints and failures that can themselves fail, and the controller can be
killed between any two of its files. PROJECT.json lists the hazards, each at its
line, with the properties that cover it or the reason why none does.

**What makes the parts correct.**

* Log: *the ack law* - a mark is published only over a complete, fsync'd
  prefix - and no crash or resume takes a published mark back; nothing is
  stored twice.
* Attach: snapshot and stream meet at LSN0 without gap or overlap.
* Pipeline: the slot is never told more than the disk holds; the shapes receive
  each transaction once and in order; a cut of the log is noticed and survived;
  every commit arrives; a replay of the log gives the same.
* Queries: a read shows what its class promises, its proof claims no more than
  the answer shows, and it ends.
* TableStore: every applied LSN stays readable exactly as the source had it.
* Search: an answer is the table at one commit.
* Writer: the ledger is the source's history, whatever answer was lost.
* ClickHouse task: neither a marker nor the slot's position is ahead of the
  rows; a query at a target sees every transaction up to it.
* Runs: stages complete in order, once; what a checkpoint compares is what was
  there; a run that calls itself valid has lost nothing.

## 2. Modules

| Module | Models | Extends |
|---|---|---|
| `Custody` | the abstract promise of a durable log (no files, no fsync) | |
| `FrameLog` | FrameLog, with kills and power losses | |
| `LogTail` | the cursor, as operators on the files | |
| `StreamDecoder` | the decoder, the registry and `replay_log`, as operators | |
| `Pipeline` | source, session, pump, log, tail, decoder, apply loop | the three above |
| `Attach` | `Engine::attach` and the parallel copy, before and beside the pipeline | `Pipeline` |
| `StudioQuery` | one query with its class, its snapshot and its proof | `Pipeline` |
| `TableStore` | one table's columnar store, its files, and the source's table | |
| `SearchStore` | the index's operations, as operators on its documents | |
| `Shapes` | both stores behind the apply loop, and a search | `TableStore`, `SearchStore` |
| `RowText` | COPY text and the bytes of a key, as operators | |
| `ControlStream` | R1's control replication over a log of its own | `FrameLog` |
| `Workload`, `LedgerOracle` | the planner and the oracle, as operators | |
| `Writer` | the application writer, PostgreSQL's commits, the ledger and its readers | `ControlStream`, `LedgerOracle` |
| `WriterLoop` | the writer's loop of chunks, `run` | |
| `ClickHouseCdc` | R1's ClickHouse task, its session, ClickHouse and a query | `StreamDecoder` |
| `R1World` | what a run works on: source, engines, ledger, the writer's coordinator | |
| `R1Checkpoint`, `R1Window`, `R1Failure` | the three long calls a stage makes | `R1World` |
| `R1Run` | controller, stages, run directory, isolated replay | the three calls |
| `Lifecycle` | the abstract promise of a run: stages in order, once, and an end | |
| `Verdict` | cell and card verdicts | |
| `Gates` | policies, freshness, stop rules, percentiles | |
| `Dataset` | seed rows and what they refer to; when a load ends | |
| `MCRules` | the three above against the design's words, as assumptions TLC evaluates | all three |

Modules of theorems:

| Module | Proves about | Extends |
|---|---|---|
| `RunLemmas` | recursion along a sequence, for the recursive functions below | |
| `FrameLogProofs` | the log, and that it implements `Custody` | `FrameLog` |
| `PipelineProofs` | the pump and the apply loop, the attach, the bounded read | `Attach`, `StudioQuery`, `FrameLogProofs`, `RunLemmas` |
| `WriterProofs` | the control stream, the writer, the ledger, its oracle | `Writer`, `FrameLogProofs`, `RunLemmas` |
| `CdcProofs` | the ClickHouse task | `ClickHouseCdc`, `RunLemmas` |
| `StoreProofs` | a keyed table's columnar store, its files and its search index | `Shapes`, `RunLemmas` |
| `RulesProofs` | the verdict rules, the seed data | `Verdict`, `Dataset`, `RunLemmas` |
| `R1Proofs` | a benchmark run, and that it implements `Lifecycle` (safety) | `R1Run`, `RunLemmas` |

Each `MC...` module instantiates the module it is named after; its `.cfg` files
give the constants.


### FrameLog

`files` maps a segment's number (the name `seg-{n}.gdl`) to its frames,
`synced[n]` counts the frames an fsync has covered. An action is one stretch of
code between two awaits at which the rest of the system can see a difference:
`append` of a commit is `AppendFrame` (write) and then `SyncCommit` (fsync, roll
if full, publish); `set_stalled(false)` is `DrainStart`, one `DrainFrame` per
staged frame, and `DrainSync`. `Kill` drops the owner's memory at any such
point; `PowerLoss` also takes any suffix of what no fsync covers; `Resume` is
the whole of `resume`: scan, cut after the last commit, fsync, delete later
segments, new segment. Transactions are numbered in delivery order and the
number stands for the commit's end LSN, because the code only compares LSNs and
a slot delivers in commit order.

Abstractions: a frame is one unit of segment length here; a torn frame at the
end of the log is a flag (neither `resume` nor the tail uses its bytes);
creating a file is durable at once (the code does not fsync the directory, see
the hazards); fsync and write do not fail (the callers give the log up when one
does); `resume` runs as one step (nobody else owns the log meanwhile, and a
crash inside it leaves files that `resume` reads in the same way: it cuts
before it creates).

### LogTail, StreamDecoder, Pipeline

`LogTail` keeps byte offsets, since what matters after a file has been recreated
is whether the old offset falls on a frame boundary: a Relation frame has
`RelationSize` bytes and the others one. `ReadNew` has every branch of
`read_new`: first call, vanished segment, shrunk segment, undecodable frame in
the last segment (silent) or before it (an error), and moving on to later
segments. `StreamDecoder` has one operator per message kind, the contiguity
check and `abort_open_txn`; after an error the batch's changes are dropped and
the decoder keeps what it consumed, as in the code. It also keeps the registry's
versions: a Relation message is live for its session and is recorded when its
transaction commits. `Altered` names the transactions before which the table was
altered (an ALTER between transactions; the rows a trigger writes to
`ddl_events` within one are not modelled). `ReplayLog` is `replay_log` over the
files.

`Pipeline` puts them together. `ReceiveFrame` moves `stream_lsn` and then
appends, in the order of `stream.rs`; the slot is acknowledged in the four places
the code does so (`PromptAck` after a commit and after a drain, `Keepalive` with
reply, `StatusTick`). `KillPump`/`RestartPump` are `chaos_kill_decoder` and
`restart_decoder`. `ApplyNewFrames` is one turn of the apply loop, under the
pipeline's write lock. Every transaction has one change, of a table whose
Relation message the session sends before its first change.

`KillScope` says when a kill may fall: at `"any"` time, after the first durable
commit (`"committed"`), or while the open segment holds a commit (`"segment"`).
The last is the condition under which the rewind contract of tail and decoder
holds; `silent_wedge` and section 6 say what happens outside it.

Left out: the pump's final status at shutdown (it restates the mark), a pump
that dies of an error while its handle stays, empty transactions, the freeze
button (`crash_before_materialize`), which only suspends the apply loop, and a
`restart_decoder` over a live pump: it checks nothing (`engine.rs:671`), the
model's `Resume` asks that no pump be up. Section 6 says what it would do.

### Attach

`Engine::attach` one call after the other: `DropSlot`, `DropPublication`,
`EnsurePublication`, `CreateSlot` (whose snapshot is the source's rows at LSN0),
`CreateLog`, `StartPump`, `Plan` (the job queue, in parts of pages the source's
statistics suggest), then the workers, each pinning the exported snapshot and
taking jobs until the queue is empty, and `BuildShapes`. The source commits and
the pump streams throughout. `AttachFails` ends an attempt at any call and leaves
behind what the code leaves: the slot, and from `StartPump` on a running pump,
because of which the next attempt cannot drop the slot (`SlotIsActive`).
Transactions are the pipeline's; `base` rows were there before LSN0. A row lies
on a page, and `RelPages` holds the sizes the statistics may claim, right or not.

Left out, by guards that say so: a second attach over a running pipeline, workers
that outlive a failed attempt, and a restart between the log's creation and the
pump's start. `FollowedByKey` is what the stores need of the tables' identities;
the eligibility scan lets one more kind through (REPLICA IDENTITY FULL without a
primary key).

### StudioQuery

`resolve_class` for the four classes: `eventual` takes what is there, `target`
the LSN it is given, without waiting, `bounded` refuses if one sample of the lag exceeds its
bound, `strong` takes the WAL head as its barrier and polls the pump, under its
lock, and `applied_lsn`, under the pipeline's, until both conditions hold. Then
`Capture` takes the snapshot, and `Prove` samples the status from which the HTTP
handler computes `visible_lsn`. The limit of 600 polls is left out: a read it
ends returns an error and no data. `framed` is the pump's "has received a frame",
which decides what the status shows.

### TableStore, SearchStore, Shapes, RowText

`TableStore` keeps the store's fields in the record `store` (segment 0 is
`OPEN_SEGMENT`), what `finalize` has written in `disk`, and beside them the
source's table, `image`, with its `history` at every LSN, which is what a scan
has to return. A scan is a number of copies per row, so that duplicates count.
`apply` is one action per kind of change, each with the flush at its end;
`finalize` is a flush, one step per sidecar and the manifest, since a reader of
the directory can look between any two files. A file write is one step: a torn
JSON file is a parse error to its reader, not an answer. The changes offered are
those PostgreSQL can send: inserts of free keys, updates and deletes of existing
rows, an old image when the key changes. `Identity = "none"` is an append-only
table; the run has a keyed one.

`Shapes` applies every change to both stores and commits the index at the end
of a batch, which ends at some transaction's end; `commit_batch` is two steps,
the commit and the metadata file. The search reader takes two steps and no
lock: `open` reads the metadata, `search` reloads the index. A document built
from an update image without its unchanged TOASTed text carries `NoText`, as in
the code.

`RowText` has the bytes: lines and fields of COPY text, its escapes, and the
bytes a row's key is indexed by. `MCShapes` compares them with what COPY writes
(`CopyRoundTrip`) and shows which keys have the same bytes (`KeysApart`, see
section 6), as assumptions TLC evaluates.

### ControlStream, Writer, Workload, LedgerOracle, WriterLoop

`ControlStream` is R1's second owner of a FrameLog: it sends a commit's mapping
to the writer before the frames are fsync'd, flushes after `AckBatch` commits,
and acknowledges then. `markers[t]` is the marker's sequence number in the
source's t-th commit, and t stands for its LSN.

`Writer` is one plan at a time, step by step: intent, SQL, COMMIT, its answer or
the loss of it, the wait for the mapping, the ledger line (a line that is being
written is visible to readers before it is fsync'd). `execute_and_record`,
`submit_plan`, a new writer and `recover_and_record` are what a caller may call.
A COMMIT whose answer is lost is classified from the marker table. `Refresh` is
any task that follows the file, `Die` a crash. The module models these calls at
their interface, as the isolated replay and the tests use them; `WriterLoop` is
`run`, the loop around them, which the benchmark's coordinator uses.

`Workload` plans transaction n from the seed and n, with the code's cycle lengths
as constants so that a short stream has every kind of operation; `Mix` stands for
`mix64`. `LedgerOracle` replays plans into rows with history (`Replay`, a
recursive function whose value at n is the oracle after n plans) and compares a
candidate at an LSN.

### ClickHouseCdc

`Receive` is one `XLogData` message: it goes to the frame log and the window and
may start a flush. A flush runs to its end before the task looks at anything
else, but the world goes on meanwhile, so it is a chain of steps: `Resolve`
(the poll of the ledger, then the decoder), `PostRows` once per raw table,
`PostMarkers`, `VerifyMarkers`, `Acknowledge`. `Request` is what the four HTTP
steps share: the request works; or ClickHouse is gone; or it goes away with the
request, before or after it took effect. In the code each error ends the task,
and nothing retries. `Keepalive` answers and publishes its position as visible;
`Reconnect` makes a new adapter with a new decoder, while window and frame log
go on; `Query` is the adapter's three checks and the answer, taken together.

A transaction is its number and its commit LSN, and changes one row in every
table. The last table is the events': `EventOf` says which event a transaction
inserts or, if an earlier one has inserted it, deletes, and the delete's tombstone
is a row with the same event id, as in `r1_order_events_raw`. A query counts a
transaction it sees in every table, whatever the tables' engines later merge, and
is refused if an event has two rows (`EventIdsUnique`). The deduplication token is the tuple that is
hashed. `MaxOutages` bounds how often ClickHouse goes away; the record's
`outages` counts it.

Left out: I/O errors of the task's own frame log, keepalives without a reply
request (they do nothing), the snapshot load, the single-transaction path, SQL.

### R1World, R1Checkpoint, R1Window, R1Failure, R1Run, Lifecycle

`R1World` has what a run works on. The engines and PostgreSQL stand at their
ports (`RuntimeEngines`, the compose project): an engine has loaded a snapshot,
has applied the WAL up to some position, is up or not, linked or not, catches up
by any number of records at a time, and may have lost a commit. The WAL is a sequence of records that are commits or not, so
a position is an LSN; a commit and its ledger entry are one step, since what lies
between them is `Writer`'s. The writer's coordinator keeps a rate, a task that may
have ended unnoticed (`Parked`: stopping one loses its writer) and one session per
process; ClickHouse follows only while the
controller's process has its CDC task.

A stage's long calls are modules of their own, which the stage starts and waits
for: `R1Checkpoint` (pause, capture, resume, raise the LSN, compare each engine),
`R1Window` (rate, rounds of queries at exact targets, samples) and `R1Failure`
(kill and cut each engine, stop the writer, validate after each). `R1Run` is the
controller: create, plan, resume, begin, the stages' bodies with the files they
leave, completion with its policies, isolated restore and replay. `Crash` kills
the process anywhere, `StageFails` fails any call of a stage's own, `WriterDies`
and `EngineLoses` are faults beside it; `MaxFaults` bounds them together.
`R1Window` takes the outcomes of the policies as choices; `Gates` computes them.

`Lifecycle` is what a run promises: stages in order, none twice, the first thing
wrong spoils it for good, and it ends.

### Verdict, Gates, Dataset, MCRules

The verdict of a cell (two latencies per engine, with 128-bit saturating
arithmetic) and of a card, the percentiles, the sample, freshness and stop rules,
as operators. `DesignCell` is the cell rule in the design's own words. `MCRules`
compares the code's rules with the design's over bounded inputs (`CellRule`, `PercentileRule`, `StopRule`, `FreshnessRule`, `SampleRule`);
`r1_run` evaluates these assumptions.

`Dataset` is the seed data: the four tables' rows of a cycle in the order they
are copied, the tenant, customer or order each row names, and the loop that loads
cycles until a measured size is enough. The generator's draw is a constant
operator. `OwnersRule` and `RankRule` check its relations and its ranks around
the first cycles and the 64th, `LoadRule` that a load ends at a sufficient size,
late by less than an interval.

## 3. Runs

| Run | Module, bounds | Result |
|---|---|---|
| `log_pump` | `MCFrameLog`: 6 frames, segments of 2, either owner, unlimited stalls, kills, power losses | passes |
| `pipeline` | `MCAttach`: 3 transactions, segments of 5, 1 stall, 2 kills (`"segment"`), an ALTER before the second; 2 tables, 2 workers, statistics of 0 or 2 pages, at most 2 rows before LSN0, 2 attempts | passes |
| `studio_live` | `MCStudioQuery`: 2 transactions, segments of 4, 1 kill, a query once both have committed | passes |
| `shapes` | `MCShapes`: 2 keys, 2 values, 3 LSNs, 5 changes (4 with an index), flush at 2 rows | passes |
| `clickhouse_cdc` | `MCClickHouseCdc`: 2 tables, 3 transactions of which the third deletes the first's event, windows of 2, 1 lost connection, 1 outage | passes |
| `control_writer` | `MCWriter`: 3 plans from 3 seeds, batches and channel of 2, segments of 4, any number of lost connections | passes |
| `r1_run` | `MCR1Run`: both modes, WAL of 3 records, ledgers of 0 to 2 transactions for an isolated run, 1 fault, windows of 1 or 2 rounds, 1 sample | passes |
| `writer_executes_nothing` | `MCWriterLoop`: chunks of 2, 6 plans | `IntentsAreCommitted` violated |
| `silent_wedge` | `MCPipeline`: 3 transactions, segments of 5, 1 kill after a commit | `AppliedOrReported` violated |
| `strong_misses_barrier` | `MCStudioQuery`: 1 transaction | `StrongSeesBarrier` violated |
| `proof_after_scan` | `MCStudioQuery`: 1 transaction | `ProofCoversAnswer` violated |
| `cdc_visibility` | `MCClickHouseCdc`: 2 tables, 2 transactions, windows of 2 | `AnswerIsExact` violated |

What they show, and why the bounds are enough to show it:

* **`log_pump`.** `MarkIsSyncedPrefix` (the mark names a commit frame that is on
  stable disk with all before it), `ExactlyOnce`, `VerifyLogPasses` (what
  `verify_log` would report at any moment) and `KeepsCustody` (the refinement of
  `Custody`: no step takes back a promise). Six frames in segments of two give
  three rolls, a drain of several transactions, and several crash-resume rounds
  with re-delivery, under either owner.
* **`pipeline`.** `SnapshotPlusStream`: whatever committed, stalled or was killed
  while the copy ran, each row is in the shapes once. `AckIsCustody`: what the
  slot may forget is on stable disk, also while no pump lives. `AppliedIsPrefix`:
  the shapes hold a prefix of the source's transactions, each once, decoded under
  its own schema. `NoApplyError`: the decoder meets re-delivered frames where it
  expects them. `ReplayAgrees`: `replay_log` over the files gives the same
  transactions and versions. Segments of five bytes against transactions of four
  or five frames bring rolls, segments with a transaction's tail only, and cuts
  before and after the cursor; statistics that are too small make the last part
  open-ended, those that are too large leave parts empty. A behaviour starts
  either before the attach, with two transactions, one kill and no WAL records
  other than commits, or right after one, with the full bounds.
* **`studio_live`.** `EventuallyApplied`: every commit reaches the shapes unless
  the pump is dead or stalled. `QueryEnds`: a strong read ends although its
  barrier lies past the last commit. `BoundedIsFresh`: the lag is measured before
  the snapshot is taken, which errs on the safe side only.
* **`shapes`.** `TimeTravel` (every applied LSN, from memory, whatever is
  half applied), `DiskTimeTravel` (the same from the files at every moment of a
  `finalize`), `HeadIsIndexed` and `ApplySucceeds`; `SearchAtBoundary`: an answer
  is the table at one commit, never half a transaction, and not older than the
  LSN it reports. (It can be newer: documents are committed before the metadata
  is written, and are read after it.) Five changes suffice for a row that is
  loaded, flushed, updated twice around a flush and deleted, and for two keys
  that trade places within a transaction.
* **`clickhouse_cdc`.** `MarkerProves`: below the greatest marker no transaction
  misses a row in any table, whatever request failed and whatever was sent
  twice. `FeedbackIsApplied`: what PostgreSQL may forget is in ClickHouse with
  its marker. `FullWindowApplies`: a transaction followed by a window's worth of
  others is applied, or the task ends. Three transactions and windows of two
  give full and partial windows, a window with the beginning of the next
  transaction in it, and a reconnect in each of these.
* **`control_writer`.** `LedgerIsHistory`, `OneUnresolved`, `NothingRefused`: the
  ledger is the source's history, no plan is committed twice, and no mapping is
  out of place, whatever answer was lost and whatever was recovered.
  `SlotIsCustody`, `BatchIsDurable`: the acknowledged position is fsync'd,
  although mappings went ahead of it. `ReaderFollows`: a reader has a prefix.
  `OracleIsSource`, `CompareRefuses`: the oracle's rows at every LSN are the
  source's, and a candidate with a gap, a duplicate, an old version or a revived
  row is refused. `WaitEnds`: the writer does not wait for a batch that only it
  could fill. Three plans of 1, 4 and 8 rows insert, update and delete in two
  tables, from three seeds.
* **`r1_run`.** `CheckpointIsSound`: what a checkpoint captures is what the
  source held there, and an engine that passes shows exactly that.
  `ReportIsTrue`: a report that says valid has both checkpoints and engines that
  lack nothing. `MapsAgree`: the replay maps of both engines cover the ledger when
  they have been made, and fit their sources from then on; the run's own writer
  may append to the ledger later, so the maps are not compared with its length
  then.
  `WriterParked`, `EnginesMended`, `LedgerFrozen`: what windows, failures and
  invalidation leave behind (a failure sequence that a crash interrupts is invalid
  when it is started over; see section 6). `ImplementsLifecycle`: the refinement, with the end
  of the run. One fault anywhere, be it a crash, a failing call, a dead writer or
  a lost commit, meets every stage; a second one would meet an already invalid
  run or the same resume again.

The violations, each a disagreement between the code and what it says of
itself (PROJECT.json quotes the lines):

* **`writer_executes_nothing`.** `ApplicationWriter::run` zips the chunk it has
  planned with the results of the chunk before, of which there are none in the
  first iteration: the chunk is cut to nothing, again and again. Intents are
  recorded and no transaction is executed.
* **`silent_wedge`.** When the open segment holds no commit, `resume` recreates
  it under the same name. The cursor's offset then belongs to a file that no
  longer exists: depending on how far the new one has grown the tail reports
  nothing, skips re-delivered frames (a gap), or stands in the middle of a frame
  and takes it for one that is still being written, for ever.
* **`strong_misses_barrier`.** `stream_lsn` reaches a commit's end before its
  frame is appended and fsync'd; a strong read that samples in between answers
  without a transaction that committed before its barrier.
* **`proof_after_scan`.** The status that proves an answer is sampled after the
  snapshot was taken; what is applied in between raises `visible_lsn` to the
  target of an answer that lacks it.
* **`cdc_visibility`.** A keepalive publishes the received position as visible
  while commits wait in the window, which no timer flushes; a query at that
  position passes every check and misses them.

Deadlock is checked except where a system really stops: in `ClickHouseCdc`'s runs
the task may have ended, in `r1_run` the run ends, and in `WriterLoop`'s the
writer is stopped. Every property of a passing run has a mutant in PROJECT.json,
an alternative body of a modelled operation (kept beside it and marked `Mutant
of ...`) under which the run fails.

**Symmetry.** Keys and values of `shapes` and the workers of `pipeline` are
interchangeable: no definition chooses among them except through the state.
Runs with liveness use no symmetry.

**Fairness.** `studio_live` and `silent_wedge`: weak fairness of the pump's own
steps (tokio polls a ready task, and `select!` takes a ready branch), of
keepalives (the source answers the status ticks of every second), of the apply
loop (a 500 ms interval) and of the query's polls (100 ms); the freeze button is
taken to be off. `clickhouse_cdc`: the task's steps (a reconnect either succeeds
or ends the task after 30 minutes) and the writer's entry in the ledger, which
follows every commit. `control_writer`: the control task's steps, the writer's
and PostgreSQL's, and strong fairness of receiving, because the session's
messages are read in their order, so that no number of keepalives keeps a row or
a commit back. `r1_run`: the
controller's process runs, and whoever started it resumes it when it has exited;
nothing is assumed of the engines, whose absence the code meets with timeouts.
Nothing obliges anyone to kill, restart, stall, unstall, attach or commit.

## 4. Proofs

A run checks a property on one small instance; a theorem states it for every
value of the constants that the named assumptions of the modules allow (segment
sizes, batch and window sizes, numbers of tables, keys and values, bounds, sets
of ALTERs, kill scopes). TLC evaluates those assumptions. Every inductive
invariant below was first an invariant of a TLC run of its module.

None of the properties is inductive as it stands. Each part's invariant is
written at the end of its module, as a conjunction of named parts; its proof is
one lemma per action, and what a property needs of it is a lemma of its own.

### The log

| Theorem of `FrameLogProofs` | Statement |
|---|---|
| `TypeCorrect` | `Spec => []TypeOK` |
| `Inductive` | `Spec => []IInv` |
| `AckInvariant` | `Spec => []MarkIsSyncedPrefix` |
| `OnceEach` | `Spec => []ExactlyOnce` |
| `VerifyPasses` | `Spec => []VerifyLogPasses` |
| `Refinement` | `Spec => KeepsCustody` |

That the mark stays on stable disk when a segment is cut needs to know that no
commit lies after the cut; that a resume never goes below the mark needs the
order of transactions over files *and* staged frames, since a drain makes the
second into the first; that re-delivery neither skips nor doubles needs the
position of the source. `IInv` says this in named parts:

* geometry - `Contiguous`, `Tiled`, `EarlierSynced`: files are named after their
  first frame, tile the numbers from 0 on, and only the open one has unsynced
  frames;
* `Numbering`: staged frames continue the files, and `next_seq` continues both;
* `Order`, `Covered`, `HeadHeld`: transactions appear in delivery order, closed
  by their commit, none missing before another, and `head` is the last one held
  in full;
* `MarkHeld`, `PendingHeld`: the mark's frame is on stable disk, and a commit
  that waits for its mark is in the open file and not before the mark;
* `Modes`: which parts of the memory state occur together.

The order of transactions rests on lemmas about sets of frames that know nothing
of files (what appending, staging or cutting does to `Order` and `Covered`). The
refinement maps an append of a commit to `Receive`, the three places that publish
to `Promise`, `Resume` to `Recover`, and the rest to a stutter.

### The pipeline, the attach, the bounded read

| Theorem of `PipelineProofs` | Statement |
|---|---|
| `PumpInductive` | `PipelineSpec => []PumpInv` |
| `PumpDrivesLog` | `PipelineSpec => Spec`: the pump uses the log only as `FrameLog` says |
| `PumpAcksCustody` | `PipelineSpec => []AckIsCustody` |
| `PipelineTypes` | `PipelineSpec => []PipelineTypeOK` |
| `AttachInductive` | `AttachSpec => []AttachInv` |
| `AttachAcksCustody` | `AttachSpec => []AckIsCustody` |
| `AttachTypes` | `AttachSpec => []PipelineTypeOK` |
| `QueryInductive` | `QuerySpec => []QueryInv` |
| `BoundedReads` | `QuerySpec => []BoundedIsFresh` |
| `StreamInductive` | `KillScope = "segment" => (PipelineSpec => []StreamInv)` |
| `PipelineAppliesPrefix` | `KillScope = "segment" => (PipelineSpec => []AppliedIsPrefix)` |
| `PipelineNeverErrs` | `KillScope = "segment" => (PipelineSpec => []NoApplyError)` |
| `AttachStreamInductive` | `KillScope = "segment" => (AttachSpec => []AttachStreamInv)` |
| `AttachAppliesPrefix` | `KillScope = "segment" => (AttachSpec => []AppliedIsPrefix)` |
| `AttachNeverErrs` | `KillScope = "segment" => (AttachSpec => []NoApplyError)` |
| `RegistryInductive` | `KillScope = "segment" => (PipelineSpec => []RegistryInv)` |
| `PipelineReplays` | `KillScope = "segment" => (PipelineSpec => []ReplayAgrees)` |
| `AttachReplays` | `KillScope = "segment" => (AttachSpec => []ReplayAgrees)` |
| `CopyInductive` | `RowsPlaced => (AttachSpec => []CopyInv)` |
| `AttachMeetsStream` | `RowsPlaced /\ KillScope = "segment" => (AttachSpec => []SnapshotPlusStream)` |

`AckIsCustody` is about the slot's position and the disk; between them stands the
mark, which a kill destroys. `PumpInv` therefore keeps `confirmed <= durable.lsn`
beside the log's `IInv`, of which every step of the pump is a step or a stutter.
An attach deletes the log, so `AttachInv` also says that it does so only while
the slot is new and nothing has been confirmed. `QueryInv` carries a bounded
read's lag over the time between its one sample and its snapshot, during which
the apply loop can only bring more. About half of these proofs are the types of
what the tail reads and the decoder emits, whose loops are recursive functions:
`RunLemmas` shows that such a function exists and what each of its steps keeps.

`AppliedIsPrefix` is about the two ends of a chain of four positions that
different code keeps: the session's next message, the log's last frame, the byte
offset at which the tail reads on, and the sequence number the decoder expects.
`StreamInv` ties them, in named parts:

* `Chained`, `Upcoming`: the log is what the sessions have sent, each message
  follows the one before it, and a Change comes after a Relation of its own
  schema with no other announced between, also where the session of the Relation
  is gone and a resume has cut the log behind it;
* `InStep`: `Resumed` is the decoder the next read will feed, which is the
  decoder as it is, or `abort_open_txn` of it when the tail is past the end of a
  cut file; the byte the tail reads on from is where the frame begins that it
  expects;
* `DecoderAt`: what it has applied are the transactions closed below that frame,
  and an open one holds what its last frame left in it;
* `Readable`: a Change still to come is decoded under its own schema, because it
  is live in the decoder or announced again before the Change. A rewind leaves
  `live_rel` of the lost transaction behind, so this needs the re-sent Relation;
* `CutInOpenSegment`: a pump that is gone has left a commit in the open segment,
  or an empty log.

The last part is `KillScope = "segment"`, and it is where the code needs it: only
then does a resume cut the file the tail may be in and no other, and
`last_commit_seq + 1`, to which the decoder rewinds, is where the cut is. Outside
it a kill before the first commit makes `NoApplyError` false (section 6), and a
later one can leave the tail behind a cut for good (`silent_wedge`). `NoSegmentAssumption`
and `NoTxnAssumption` say that `None` is no number and no transaction.

`ReplayAgrees` compares two decoders that never meet: the live one, which has
been cut and rewound, and one that reads the files once from the first frame on.
Both are measured against `Versions(n)`, the registry a log of n transactions
should leave: one version per schema, from the first transaction under it on.
`RegistryInv` says that the live registry is `Versions(Len(applied))`, and what
the open transaction may hold: its own Relation, or none if it is under the
schema of the one before. Without the second half a Commit could miss a version,
because a session that has sent the Relation in an earlier transaction does not
send it again. The offline half reuses the live one: `StreamInv` says enough of
the files for a fresh decoder to consume them from frame 0 without an error
(`ReplayOfFiles`), and frame by frame `replay_log` does what that decoder does
(`ReplayStep`), so it ends with the changes and `Versions` of every transaction
in the files, which are at least those applied.

`CopyInv` follows each row of the snapshot through an attach: it belongs to one
job that waits, or one session that copies, or one staged part (`CopiedOnce`),
because the jobs of a table tile its pages, the last without an end, and no
session leaves before the queue is empty. It needs `TableAssumption` (the tables
are listed once each) and `RowsPlaced` (each row is on some page of one of them);
rows are not bounded, so the second is a hypothesis and not an assumption TLC
could evaluate. With it, `AppliedIsPrefix` and LSN0 as the base of both,
`SnapshotPlusStream` follows.

### The writer and the ledger

| Theorem of `WriterProofs` | Statement |
|---|---|
| `WriterInductive` | `WriterSpec => []WriterInv` |
| `LedgerCorrect` | `WriterSpec => []LedgerIsHistory` |
| `NeverTwice` | `WriterSpec => []OneUnresolved` |
| `NoRefusal` | `WriterSpec => []NothingRefused` |
| `ReaderCorrect` | `WriterSpec => []ReaderFollows` |
| `SlotCustody` | `WriterSpec => []SlotIsCustody` |
| `BatchCorrect` | `WriterSpec => []BatchIsDurable` |
| `OracleCorrect` | `(\A s \in Seeds : MixIsU64(s)) => (WriterSpec => []OracleIsSource)` |
| `ComparisonCorrect` | `(\A s \in Seeds : MixIsU64(s)) => (WriterSpec => []CompareRefuses)` |

`ControlInv` (in `ControlStream`) stands on `IInv` and relates the task's place to
the log: the last commit received is the one that waits for its mark, or the
mark's. `WriterInv` adds that at most one plan is committed and not in the ledger,
and that everything in flight is about this plan: a COMMIT whose session is gone,
the one mapping in the channel or still to be sent, the line being written. With
it the stash stays empty and no error of order can be raised, and a COMMIT
that lands after its session is lost is still the first of its plan.

The last two theorems are about the oracle that replays the ledger, for every
seed, number of tenants and length of the workload's cycles. Their hypothesis is
the type of `mix64`: for a seed of the run it returns a number. From `WriterInv`
they take only that the ledger's entries, and the markers they are a prefix of,
are the plans 1, 2, ... at those LSNs (`LedgerFollows`); the rest is about what a
plan and a replay are, by induction along the plans (`RunLemmas`):

* *the workload* (`PlannedOperation`, `PlanIs`): a row's tenant follows from its
  key, so a delete that finds the key finds the tenant it asks for; and the image
  of the operation at an ordinal is that ordinal's alone (`ImagesDiffer`, from
  the division of the ordinals into cycles), so no key has an image twice;
* *the oracle* (`Mirrored`): a key's last version is its row, or says that it is
  gone. Then its rows at the last LSN are its `rows` (`MirrorNow`), which change
  as PostgreSQL's do (`ExecuteIs`, `PlanMirrors`), and a later version takes
  nothing from an earlier LSN (`LatestOfEarlier`);
* *the books* (`BooksAre`): a replay has the hash, LSN and count of just the plans
  it applied, as often as it applied them.

`OracleCorrect` is `ReplayMirrors` at each LSN. `ComparisonCorrect` finds the
difference of each corruption: the sequence missing, the count of two, and, for a
last state replaced by an earlier one, the two images, which differ by
`ImagesDiffer`, or the row where there is none (`LastRefused`). An oracle that
forgot a version, or an update that made a row, would break `Mirrored`; two
operations with one image would let a stale row pass.

### The ClickHouse task

| Theorem of `CdcProofs` | Statement |
|---|---|
| `CdcInductive` | `CdcSpec => []CdcInv` |
| `CdcTypes` | `CdcSpec => []CdcTypeOK` |
| `MarkerCorrect` | `CdcSpec => []MarkerProves` |
| `FeedbackCorrect` | `CdcSpec => []FeedbackIsApplied` |

`applied_lsn` can go back: a window that holds a transaction twice, after a
reconnect, may end with an earlier one. So `CdcInv` never compares positions. A
transaction that was received is done (a row in every table, and its marker) or
its Commit is still in the window, which only a flush that did all of it empties;
no commit in the window has a predecessor that is neither; and a token that
ClickHouse has seen is the token of rows it holds, so that a request it
deduplicates had nothing left to do.

### The two shapes

For a table with a key (`HasKey`):

| Theorem of `StoreProofs` | Statement |
|---|---|
| `StoreInductive` | `HasKey /\ ShapesSpec => []TableInv` |
| `ApplyCorrect` | `HasKey /\ ShapesSpec => []ApplySucceeds` |
| `TimeTravelCorrect` | `HasKey /\ ShapesSpec => []TimeTravel` |
| `IndexCorrect` | `HasKey /\ ShapesSpec => []HeadIsIndexed` |
| `DiskCorrect` | `HasKey /\ ShapesSpec => []DiskTimeTravel` |
| `SearchInductive` | `HasKey /\ ShapesSpec => []SearchInv` |
| `SearchCorrect` | `HasKey /\ ShapesSpec => []SearchAtBoundary` |

`HasKey` is needed and not a convenience: a TRUNCATE of a table without a key
marks nothing in the code (`store.rs:353`, a listed hazard), and time travel is
then false.

A scan counts copies; the invariant speaks of *places*, a segment and a row of it
(segment 0 being the open rows). Below the LSN that is being applied each row is
visible at one place at most (`ShownOnce`), and at one exactly where `history`
has it (`ShowsHistory`); at it, the places nothing has deleted are those the index
has, and they are the table (`IndexIsLive`). What is done at an LSN is invisible
below it (`LaterKeeps`, `MarksKeep`), which carries inserts, updates, deletes and
truncates; a flush only renames places (`RenamesKeep`); and the end of a
transaction turns the table of the index into the next page of history
(`TransactionEnds`). `DiskIsOlder` says of the files that they differ from the
store by later transactions only, and `Boundaries` which sidecars a running
`finalize` has replaced already. That a scan's counts are 0 or 1 (`SegmentCount`,
`OpenCount`) comes last.

`SearchInv` stands on `TableInv`. The writer's view of the index `Mirrors` the
source's table as it is, also in the middle of a transaction: one document for the
only row of each key, and none for a key without one. It is committed only at a
boundary, where the table is the last page of `history`, so what is committed, and
what a search has read, mirrors one page, not before the metadata's; while
`commit_batch` is between its two writes nothing is applied.

### A benchmark run

| Theorem of `R1Proofs` | Statement |
|---|---|
| `RunInvHolds` | `Spec => []RunInv` |
| `RunTypesHold` | `Spec => []RunTypeOK` |
| `WriterIsParked` | `Spec => []WriterParked` |
| `CheckpointsAreSound` | `Spec => []CheckpointIsSound` |
| `ReportsAreTrue` | `Spec => []ReportIsTrue` |
| `EnginesAreMended` | `Spec => []EnginesMended` |
| `ReplayMapsAgree` | `Spec => []MapsAgree` |
| `LedgerIsFrozen` | `Spec => LedgerFrozen` |
| `RunImplementsLifecycle` | `Spec => Promise!LifecycleSafety` |

They hold for any two engine names, any set of ledgers, any non-empty ladder of
search rates and all bounds (`WorldAssumption`, `SearchRatesAssumption`).

`RunInv` has fourteen parts, because a run's promises are about files written
several stages ago, and what makes them true is in memory that a crash destroys:

* `WorldTypes`, `RunTypes`, `CallTypes`: the records, and the sequences whose
  head some step takes;
* `StageInv`, `StepInv`, `PlaceInv`, `TurnInv`: the stage under way is the next
  one, each step belongs to its stages and its mode, and in an isolated run the
  engines take turns;
* `CallInv`: of checkpoint, window and failure sequence at most one is under way,
  except the checkpoint that the sequence itself makes;
* `WriterInv`: the writer has a rate only inside a window or the failure
  sequence, and none between a checkpoint's snapshot and its LSN, which are not
  taken together;
* `CaptureInv`: the capture is what the source holds, from there to the end of a
  checkpoint stage, and what an engine was matched with stays so;
* `MendInv`: a failure sequence has mended what it has passed; after it nothing
  breaks an engine;
* `SeedInv`: until the engines are loaded the source holds only the seed, so both
  start from the same;
* `RecordInv`: what state and result on disk say was true when it was written,
  and still is: no commit follows the final checkpoint of a valid run, so
  `ReportIsTrue` can be about a later state than the one that was compared;
* `MapInv`: the source of an isolated engine is restored once and holds one
  commit more than the entries of the replay under way; a map on disk is that
  replay's, and no commit comes between.

`LedgerIsFrozen` and `RunImplementsLifecycle` are about steps: only the writer
extends the ledger, in stages of a valid run; a stage completes as `Lifecycle`'s
`CompleteNext`, an invalidation is `Spoil`, everything else a stutter.

### The verdict and the seed data

| Theorem of `RulesProofs` | Statement |
|---|---|
| `CellIsFair` | exchanging the engines' latencies exchanges the winner |
| `CellIsTheDesigns` | the code's verdict of a cell is the design's (`DesignCell`) |
| `OneVictor` | if GrayDB beat ClickHouse, it did not with the engines' names exchanged |
| `OwnersLoaded` | every row a seed row names was copied before it, under the same tenant |

The first three are for `Measurable` latencies, those whose hundredfold does not
saturate, for every bound of the integers (`U128Assumption`); products that
saturate compare as equal, and a tie can then be a win too. `OneVictor` combines
`CellIsFair` with the card's rule: the wins at 1,000 rows/s are the other side's
losses, of which a card that beats has none. `OwnersLoaded` is for every cycle
and whatever is drawn (`ZipfAssumption`, a table of 64 weights that TLC evaluates,
because folds are beyond the prover). Its core is `RankIsBounded` (a draw gives
one of the ranks asked for, so that `bounded_zipf_rank` never reaches its
`unreachable!`) and `BaseOfCycle` (an id leads back to its cycle).

### Only model-checked

* Liveness (`EventuallyApplied`, `QueryEnds`, `FullWindowApplies`, `WaitEnds`, the
  end of a run): the prover has neither fairness nor ENABLED.
* The assumptions of `MCRules` and `MCShapes` beyond `RulesProofs`: TLC evaluates
  them over bounded inputs. What a fold computes for every input (a COPY field's
  text, the rows of a load) needs induction with an operator as parameter, which
  no installed prover can instantiate. `RunLemmas` proves what each step of a
  recursive function keeps, by induction over a set; `ReplayAgrees`,
  `OracleIsSource` and `CompareRefuses` are within its reach because an invariant
  of the replay says what each frame, or each plan, adds.
* Kills outside `KillScope = "segment"`: nothing is proved of the stream there, and
  the runs show what goes wrong (`silent_wedge`, section 6).
* Of `ImplementsLifecycle` the fairness of `Lifecycle`: that a run comes to its end.

## 5. Not modelled

Not modelled because there is nothing for a model to decide: the replication
client's wire protocol, the pgoutput parser, Parquet, Arrow and DataFusion
plumbing, HTTP handlers other than the query's, budget and configuration, the
retrying directory, the dictionaries of the seed data and SQL text, the rendering of reports and
file lists, preflight, command lines, and the drivers of `graydb-check`.

Not modelled within modelled components: rows of `ddl_events` inside a
transaction; documents of keyless tables and their synthetic keys; ClickHouse's
snapshot load and its single-transaction path; the analytical queries over the
oracle; I/O errors of fsync and of the segment writer; the durability of
directory entries. PROJECT.json says so at each component.

## 6. What a plain reading shows

Disagreements and sharp edges met while modelling that have no run of their own,
because one branch decides them or because what they lead to lies outside the
modules:

* *Kill before the first commit.* `abort_open_txn` rewinds to
  `last_commit_seq + 1`, which is 1 when nothing has committed
  (`decoder.rs:69`); `resume` starts again at 0, and apply reports a gap from
  then on. `KillScope` excludes it.
* *TRUNCATE of an append-only table* marks nothing (`store.rs:353`); *unchanged
  TOASTed text* is lost from the search index (`graydb-search/src/lib.rs:181`).
* *Keys with byte 0x1F.* A composite key's fields are joined by 0x1F, so two keys
  whose text holds that byte can have the same bytes (`KeysApart`).
* *An attempt to attach after a failed one* finds the slot active, since the pump
  of the first still runs; a second attach over a running pipeline deletes the
  log under the first apply loop.
* *A checkpoint raises its LSN* to the greatest position an engine has applied,
  after the writer may have been resumed; in the failure sequence the engines can
  hold commits the capture does not.
* *Tombstones and the duplicate check.* `verify_event_ids_unique`
  (`clickhouse.rs:965-989`) compares the rows of `r1_order_events_raw` with its
  distinct event ids. The table is a plain MergeTree in which a delete is one more
  row with its event's id, and the workload deletes events it has inserted
  (`workload.rs:247`), so from the first such delete on every query is refused,
  on a stream that was never interrupted. The comment asks for less
  (`clickhouse.rs:962`: "a retry that duplicates one must fail"), and a test takes
  events for "insert-only" (`tests/cdc_phase_a.rs:228`). `EventIdsUnique` is the
  check as it is.
* *The ledger before the fsync.* The header of `replication.rs` (1-5, 180-182) says
  that a marker is decoded only from a durable commit frame and that a "receipt on
  a socket is never a commit proof". The code maps a commit and sends it to the
  writer before its frames are fsync'd (267-276), as its comment there says
  (265-266), so a ledger entry can be there whose control frames a power loss
  would take. `ControlStream` follows the code, and `LedgerIsHistory` holds all the
  same, because the slot delivers them again.
* *Restart over a live pump.* `restart_decoder` (`engine.rs:671`, reached from
  `main.rs:165`) resumes the log whether or not a pump appends to it, so it may
  cut or delete the segment that one has open; then it asks for the slot every
  500 ms, forty times, while the first pump has it. Only if that one ends
  meanwhile is there a new pump, over a log whose end it read before.
* *A failure sequence that is started over* errs at the control slot: the
  interrupted process's writer has created it and nothing drops it. So a sequence
  that a crash interrupts with an engine stopped or cut off never counts as passed,
  and `EnginesMended` sees only uninterrupted ones pass.
* *Isolated runs.* After the first engine's measurements the writer's session
  belongs to a source that is gone, and a fresh process finds the control slot
  there (`InitErr`); `rate_observation` asks both engines although one is down.
  Windows that need a writer cannot succeed in this mode.
* *Quiet and warm-up windows* of a run whose ledger is empty ask for LSN 0, and
  queries of an isolated run may ask below the LSN GrayDB's snapshot is labelled
  with; both return no rows and count as answers.
* *Rate observation* divides by the time since the writer's start, so a late
  slowdown shows little.
* *After the failure sequence* the process ends on purpose (exit code 75), and the
  resumed one has no ClickHouse task: the final checkpoint can pass only if
  ClickHouse had nothing left to receive.
* *A reconnect of the ClickHouse task* makes a decoder that expects frame 0 and
  keeps a window that may end inside a transaction; the next window is an error
  and ends the task.
* *Ownership in the workload.* The benchmark design (section 4.2, lines 82 and 87)
  has generator and writer keep ownership valid. The generator does
  (`OwnersLoaded`). `make_insert_order` (`workload.rs:303`) names customer
  `tenant_id + customer_slot + 1`, that is ids 2 to 6 of a cycle: the sixth does
  not exist, a seeded customer's tenant is drawn and is mostly another one, and
  all 64 cycles it takes tenants from need not have been loaded.
* *A crash may leave half a ledger line*; the file is then opened for appending
  without cutting it.
* *`replay_log`* fails on a torn tail that `resume` would cut.
* *The failure sequence and the studio's status.* It reads fields the status of
  the real studio does not have.
* *The report.* The runtime never sets a scorecard or a winner, so a valid run
  always says it has no overall winner; `result.json` can say valid although
  `Checksums` failed afterwards, and the sums are not renewed.
