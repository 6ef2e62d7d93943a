------------------------------- MODULE Attach -------------------------------
(***************************************************************************)
(* Engine::attach, from the button to the running pipeline: the leftovers  *)
(* of an earlier run are dropped, a slot is created with an exported       *)
(* snapshot, the pump is started, several workers copy the tables as the   *)
(* snapshot has them, and the shapes built from the copy are handed to the *)
(* apply loop.  The source commits, and the pump runs, is killed and is    *)
(* restarted, while the copy goes on.                                      *)
(*                                                                         *)
(* A transaction inserts one row.  Row h is the source's h'th; those up to *)
(* base were committed before the slot's consistent point LSN0, and the    *)
(* transactions of Pipeline are numbered from there.                       *)
(***************************************************************************)
EXTENDS Pipeline, FiniteSets

CONSTANTS
    Table,        \* the schema's ordinary tables, in the order they are listed
    Identity,     \* table -> [replident, pk, ri_index]: its pg_class and pg_index rows
    TableOf(_),   \* row -> its table
    PageOf(_),    \* row -> the heap page it is on
    RelPages,     \* what the statistics may say of a table's size, in pages
    Worker,       \* initial_load.copy_streams sessions
    NoJob,
    MaxBase,      \* bound: rows committed before the slot exists
    MaxAttaches   \* bound: calls of attach

ASSUME CopyAssumption == IsFiniteSet(Worker) /\ Worker # {} /\ RelPages \subseteq Nat
ASSUME TableAssumption ==
    /\ Table \in Seq({Table[i] : i \in DOMAIN Table})
    /\ \A i, j \in DOMAIN Table : Table[i] = Table[j] => i = j
ASSUME AttachBounds == MaxBase \in Nat /\ MaxAttaches \in Nat

VARIABLES
    base,      \* rows committed at or before LSN0
    slot,      \* the replication slot exists
    published, \* the publication exists
    exported,  \* rows the exported snapshot shows; NoJob while there is none
    at,        \* where attach is
    jobs,      \* run_parallel_copy's queue
    workers,   \* worker -> [at, job]: "new", "idle", "copying" its job, "done"
    parts,     \* the parts that were staged: [job, rows]
    loaded,    \* row -> how often the shapes were built with it, or NoJob: no Pipeline
    attaches

copyVars == <<jobs, workers, parts>>
attachVars == <<base, slot, published, exported, at, copyVars, loaded, attaches>>
allVars == <<vars, attachVars>>

Being(state) == [at |-> state, job |-> NoJob]

All(state) == [w \in Worker |-> Being(state)]

-----------------------------------------------------------------------------
(***************************************************************************)
(* eligibility_scan, and the key columns the snapshot's manifest records.  *)
(***************************************************************************)
Eligibility(t) ==
    CASE Identity[t].replident = "full"                            -> "full, WAL inflation"
      [] Identity[t].replident = "index" /\ Identity[t].ri_index # {} -> "full"
      [] Identity[t].replident = "default" /\ Identity[t].pk # {}  -> "full"
      [] OTHER                                                     -> "append-only"

KeyColumns(t) == IF Identity[t].ri_index # {} THEN Identity[t].ri_index ELSE Identity[t].pk

\* A table that may be updated can be followed by key.  A REPLICA IDENTITY FULL
\* table without a primary key is eligible as well, and cannot.
ASSUME FollowedByKey == \A i \in DOMAIN Table :
    Eligibility(Table[i]) # "append-only" => KeyColumns(Table[i]) # {}

\* The boundaries of a table's parts: equal chunks, one per stream at most.
Streams == Cardinality(Worker)

Chunk(relpages) == Greater(relpages \div Streams, 1)

PartCount(relpages) ==
    CHOOSE n \in 1..Streams :
        /\ \A i \in 1..(n - 1) : (i - 1) * Chunk(relpages) < relpages
        /\ n = Streams \/ (n - 1) * Chunk(relpages) >= relpages

\* Mutant of PlanTable: the last range ends where the statistics say.
PlanToRelpages(t, relpages) ==
    [i \in 1..PartCount(relpages) |->
        [table |-> t, first |-> (i - 1) * Chunk(relpages), open |-> FALSE,
         end |-> IF i < PartCount(relpages) THEN i * Chunk(relpages) ELSE relpages]]

\* make_job for each range of a table; the last one is open-ended.
PlanTable(t, relpages) ==
    [i \in 1..PartCount(relpages) |->
        [table |-> t, first |-> (i - 1) * Chunk(relpages),
         open |-> i = PartCount(relpages), end |-> i * Chunk(relpages)]]

\* The ctid range of a job, and its COPY as of the moment when `upto` rows
\* were committed.
Within(job, h) ==
    /\ TableOf(h) = job.table
    /\ PageOf(h) >= job.first
    /\ job.open \/ PageOf(h) < job.end

CopyOut(job, upto) == {h \in 1..upto : Within(job, h)}

-----------------------------------------------------------------------------
(***************************************************************************)
(* A Studio that has just started.  An earlier one may have left its slot  *)
(* and its publication, and a log without commits.                         *)
(***************************************************************************)
AttachInit ==
    /\ PipelineStart
    /\ Empty /\ up = FALSE
    /\ base = 1
    /\ slot \in BOOLEAN /\ published = slot
    /\ exported = NoJob
    /\ at = "idle"
    /\ jobs = <<>> /\ workers = All("done") /\ parts = {}
    /\ loaded = NoJob
    /\ attaches = 0

\* A second attach over a running pipeline, and one while copy_worker tasks of
\* a failed attempt still run, are left out.
Attach ==
    /\ at = "idle" /\ loaded = NoJob
    /\ attaches < MaxAttaches
    /\ \A w \in Worker : workers[w].at = "done"
    /\ at' = "slot"
    /\ attaches' = attaches + 1
    /\ UNCHANGED <<vars, base, slot, published, exported, copyVars, loaded>>

\* drop_slot_if_exists: a slot that a session streams from is not dropped.
SlotIsActive ==
    /\ at = "slot" /\ slot /\ up
    /\ at' = "idle"
    /\ UNCHANGED <<vars, base, slot, published, exported, copyVars, loaded, attaches>>

DropSlot ==
    /\ at = "slot" /\ ~(slot /\ up)
    /\ slot' = FALSE
    /\ at' = "publication"
    /\ UNCHANGED <<vars, base, published, exported, copyVars, loaded, attaches>>

\* drop_publication_if_exists, install_attach_pack, ensure_publication: one
\* session, one statement after the other, each idempotent.
DropPublication ==
    /\ at = "publication"
    /\ published' = FALSE
    /\ at' = "pack"
    /\ UNCHANGED <<vars, base, slot, exported, copyVars, loaded, attaches>>

EnsurePublication ==
    /\ at = "pack"
    /\ published' = TRUE
    /\ at' = "create"
    /\ UNCHANGED <<vars, base, slot, exported, copyVars, loaded, attaches>>

\* create_slot_with_snapshot: LSN0 is here, and the snapshot shows every row
\* committed so far for as long as repl_a stays open.
CreateSlot ==
    /\ at = "create"
    /\ slot' = TRUE
    /\ base' = base + wal
    /\ exported' = base + wal
    /\ wal' = 0 /\ wal_past' = FALSE /\ confirmed' = 0
    /\ at' = "log"
    /\ UNCHANGED <<logVars, msg, rel_sent, ack_due, stream_lsn, acked_lsn, applyVars, boundVars,
                   published, copyVars, loaded, attaches>>

\* FrameLog::create: what the directory held is deleted.
CreateLog ==
    /\ at = "log"
    /\ files' = [n \in {0} |-> <<>>] /\ synced' = [n \in {0} |-> 0] /\ cur' = 0
    /\ torn' = FALSE /\ next_seq' = 0 /\ durable' = Unset /\ head' = 0
    /\ at' = "pump"
    /\ UNCHANGED <<pending_commit, stalled, spill, last_commit, pc, up, sourceVars, sessionVars,
                   applyVars, boundVars, base, slot, published, exported, copyVars, loaded, attaches>>

\* start_replication opens a session at the position the log ends with.
NewSession ==
    /\ slot /\ published
    /\ msg' = "begin" /\ rel_sent' = 0
    /\ stream_lsn' = 0 /\ acked_lsn' = 0

\* start_pump: the pump owns the log from here on.
StartPump ==
    /\ at = "pump"
    /\ NewSession
    /\ up' = TRUE
    /\ at' = "plan"
    /\ UNCHANGED <<files, synced, torn, cur, next_seq, pending_commit, durable, stalled, spill,
                   last_commit, pc, head, sourceVars, confirmed, ack_due, applyVars, boundVars,
                   base, slot, published, exported, copyVars, loaded, attaches>>

-----------------------------------------------------------------------------
(***************************************************************************)
(* run_parallel_copy.                                                      *)
(***************************************************************************)
\* begin_snapshot_txn: a session imports the snapshot while it is exported.
Pinnable == exported # NoJob

\* The planning session: every table is cut along its relpages, largest first.
Plan ==
    /\ at = "plan" /\ Pinnable
    /\ \E relpages \in [DOMAIN Table -> RelPages] :
         /\ \A i, j \in DOMAIN Table : i < j => relpages[i] >= relpages[j]
         /\ jobs' = FlattenSeq([i \in DOMAIN Table |-> PlanTable(Table[i], relpages[i])])
    /\ workers' = All("new")
    /\ parts' = {}
    /\ at' = "copy"
    /\ UNCHANGED <<vars, base, slot, published, exported, loaded, attaches>>

\* copy_worker: pin a session, then take jobs until there are none.
PinWorker(w) ==
    /\ workers[w].at = "new" /\ Pinnable
    /\ workers' = [workers EXCEPT ![w] = Being("idle")]
    /\ UNCHANGED <<vars, base, slot, published, exported, at, jobs, parts, loaded, attaches>>

TakeJob(w) ==
    /\ workers[w].at = "idle"
    /\ IF jobs = <<>>
       THEN workers' = [workers EXCEPT ![w] = Being("done")] /\ UNCHANGED jobs
       ELSE workers' = [workers EXCEPT ![w] = [at |-> "copying", job |-> Head(jobs)]] /\ jobs' = Tail(jobs)
    /\ UNCHANGED <<vars, base, slot, published, exported, at, parts, loaded, attaches>>

\* Mutant of StagePart: the session is not pinned to the snapshot.
StageUnpinned(w) ==
    /\ workers[w].at = "copying"
    /\ parts' = parts \union {[job |-> workers[w].job, rows |-> CopyOut(workers[w].job, base + wal)]}
    /\ workers' = [workers EXCEPT ![w] = Being("idle")]
    /\ UNCHANGED <<vars, base, slot, published, exported, at, jobs, loaded, attaches>>

StagePart(w) ==
    /\ workers[w].at = "copying"
    /\ parts' = parts \union {[job |-> workers[w].job, rows |-> CopyOut(workers[w].job, base)]}
    /\ workers' = [workers EXCEPT ![w] = Being("idle")]
    /\ UNCHANGED <<vars, base, slot, published, exported, at, jobs, loaded, attaches>>

\* The manifest is assembled when every worker has returned; repl_a closes.
AssembleManifest ==
    /\ at = "copy" /\ \A w \in Worker : workers[w].at = "done"
    /\ exported' = NoJob
    /\ at' = "build"
    /\ UNCHANGED <<vars, base, slot, published, copyVars, loaded, attaches>>

\* Every part is loaded into the stores, the pipeline is set and the apply
\* loop is spawned, with a tail and a decoder of its own.
BuildShapes ==
    /\ at = "build"
    /\ loaded' = [h \in UNION {p.rows : p \in parts} |-> Cardinality({p \in parts : h \in p.rows})]
    /\ tail' = NewTail /\ decoder' = NewDecoder
    /\ applied' = <<>> /\ applied_lsn' = 0 /\ apply_error' = "none"
    /\ at' = "idle"
    /\ parts' = {} /\ UNCHANGED <<jobs, workers>>
    /\ UNCHANGED <<logVars, sourceVars, sessionVars, boundVars, base, slot, published,
                   exported, attaches>>

\* Any of the calls fails: attach returns, its sessions close, and what it has
\* made so far stays, the slot and the running pump included.
AttachFails ==
    /\ at \in {"slot", "publication", "pack", "create", "log", "pump", "plan", "copy", "build"}
    /\ attaches < MaxAttaches
    /\ at' = "idle"
    /\ exported' = NoJob
    /\ jobs' = <<>> /\ parts' = {} /\ workers' = All("done")
    /\ UNCHANGED <<vars, base, slot, published, loaded, attaches>>

-----------------------------------------------------------------------------
AttachStep ==
    \/ Attach
    \/ SlotIsActive
    \/ DropSlot
    \/ DropPublication
    \/ EnsurePublication
    \/ CreateSlot
    \/ CreateLog
    \/ StartPump
    \/ Plan
    \/ \E w \in Worker : PinWorker(w) \/ TakeJob(w) \/ StagePart(w)
    \/ AssembleManifest
    \/ BuildShapes
    \/ AttachFails

\* restart_decoder while attach is between its log and its pump would make two
\* owners of one log; it is left out.
RestartAllowed == slot /\ published /\ at \notin {"log", "pump"}

\* Before the slot exists the source's commits only add to what it will show.
CommitAllowed == slot \/ base + wal < MaxBase

\* The apply loop returns at once while there is no Pipeline.
ApplyTick == loaded # NoJob /\ ApplyNewFrames

Running ==
    /\ \/ CommitAllowed /\ SourceCommit
       \/ SourceCheckpoint
       \/ Pump
       \/ \E reply_requested \in BOOLEAN : Keepalive(reply_requested)
       \/ StatusTick
       \/ StallLog
       \/ UnstallLog
       \/ KillPump
       \/ RestartAllowed /\ RestartPump
       \/ ApplyTick
    /\ UNCHANGED attachVars

AttachNext == AttachStep \/ Running

AttachSpec == AttachInit /\ [][AttachNext]_allVars

-----------------------------------------------------------------------------
(***************************************************************************)
(* Properties.                                                             *)
(***************************************************************************)
Times(h) == (IF h \in DOMAIN loaded THEN loaded[h] ELSE 0)
            + (IF h - base \in DOMAIN applied THEN 1 ELSE 0)

\* The snapshot and the stream meet at LSN0 without a gap and without an
\* overlap (snapshot.rs 1-6, "every staged byte is the database exactly at
\* LSN0"; "stale relpages statistics can never lose rows"): whatever committed,
\* stalled or was killed during the copy, the shapes hold every row of the
\* source up to the transaction they report, once, and no other row.
SnapshotPlusStream ==
    loaded # NoJob =>
        \A h \in 1..(base + wal) :
            Times(h) = IF h <= base + applied_lsn THEN 1 ELSE 0

\* While attach has no slot, or a new one without a log of its own, nothing
\* streams: the pump comes after the log, and the log after the slot.
AttachInv ==
    /\ PumpInv
    /\ slot \in BOOLEAN
    /\ up => slot
    /\ at \in {"publication", "pack", "create"} => ~slot
    /\ at \in {"log", "pump"} => ~up /\ confirmed = 0
    /\ at = "pump" => Empty

\* Until the shapes are handed over there is nobody who reads the log, and
\* attach comes no further than that with a pipeline there is.
NothingRead ==
    /\ tail = NewTail /\ decoder = NewDecoder
    /\ applied = <<>> /\ applied_lsn = 0 /\ apply_error = "none"

AttachStreamInv ==
    /\ StreamInv
    /\ loaded = NoJob => NothingRead
    /\ at # "idle" => loaded = NoJob

\* Every row is on a page of one of the tables.  (Rows are not bounded, so this
\* is a hypothesis of the theorems that need it and not an ASSUME.)
RowsPlaced ==
    \A h \in Nat : PageOf(h) \in Nat /\ \E i \in DOMAIN Table : Table[i] = TableOf(h)

Job == [table : {Table[i] : i \in DOMAIN Table}, first : Nat, open : BOOLEAN, end : Nat]

\* Who has row h to copy: a job that waits, a session, or a part that is staged.
ForRow(js, h) == {i \in DOMAIN js : Within(js[i], h)}

Waiting(h) == ForRow(jobs, h)

Copying(h) == {w \in Worker : workers[w].at = "copying" /\ Within(workers[w].job, h)}

InParts(h) == {p \in parts : Within(p.job, h)}

One(S) == \E x \in S : S = {x}

CopiedOnce(h) ==
    \/ One(Waiting(h)) /\ Copying(h) = {} /\ InParts(h) = {}
    \/ Waiting(h) = {} /\ One(Copying(h)) /\ InParts(h) = {}
    \/ Waiting(h) = {} /\ Copying(h) = {} /\ One(InParts(h))

\* Every row of the snapshot is copied by one job, whoever takes it; nobody
\* leaves before the queue is empty, and what was loaded is every row, once.
CopyInv ==
    /\ base \in Nat
    /\ jobs \in Seq(Job)
    /\ workers \in [Worker -> [at : {"new", "idle", "copying", "done"}, job : Job \union {NoJob}]]
    /\ \A w \in Worker : workers[w].at = "copying" => workers[w].job \in Job
    /\ at # "copy" => \A w \in Worker : workers[w].at = "done"
    /\ at \in {"copy", "build"} =>
          /\ \A h \in 1..base : CopiedOnce(h)
          /\ \A p \in parts : p.rows = CopyOut(p.job, base)
          /\ \A w \in Worker : workers[w].at = "done" => jobs = <<>>
    /\ loaded # NoJob => loaded = [h \in 1..base |-> 1]
    /\ at # "idle" => loaded = NoJob
=============================================================================
