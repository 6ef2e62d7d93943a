------------------------------ MODULE FrameLog ------------------------------
(***************************************************************************)
(* graydb-log's FrameLog: the durable, LSN-ordered log of raw pgoutput     *)
(* frames that every other part of GrayDB reads from, and whose durable    *)
(* mark is the only position the replication slot is ever acknowledged to. *)
(*                                                                         *)
(* A frame is [seq, txn, txn_complete, payload].  Transactions are         *)
(* numbered 1, 2, ... in the order PostgreSQL delivers their commits, and  *)
(* a transaction's number stands for its commit's end LSN: the code only   *)
(* ever compares commit LSNs, and delivery order is LSN order.  A frame    *)
(* that is not a commit carries the number of the transaction it belongs   *)
(* to.  A frame is the unit of length of a segment.                        *)
(*                                                                         *)
(* A segment file seg-{n}.gdl is the entry n of the function files; the    *)
(* code sorts the file names, that is, the numbers.  synced[n] counts the  *)
(* frames of file n that an fsync has covered: a power loss may take any   *)
(* suffix of the others, the death of the process takes none of them.      *)
(***************************************************************************)
EXTENDS Integers, Sequences

CONSTANTS
    Payload,      \* what a frame can carry (the raw message, abstracted)
    SegMax,       \* segment_max_bytes, in frames
    Deferred,     \* TRUE: the owner uses append_deferred (R1's control stream),
                  \* FALSE: it uses append (the ingest pump)
    NoCommit,     \* Option::None of a (seq, lsn) pair
    MaxSeq        \* bound: sequence numbers a behaviour may use

ASSUME SegMaxAssumption == SegMax \in Nat \ {0}
ASSUME DeferredAssumption == Deferred \in BOOLEAN
ASSUME MaxSeqAssumption == MaxSeq \in Nat
ASSUME NoCommitAssumption == NoCommit \notin Nat \X Nat

VARIABLES
    files,          \* segment files on disk: [first seq -> frames]
    synced,         \* [first seq -> number of frames an fsync has covered]
    torn,           \* a partial frame follows the last one of the last file
    cur,            \* the file `file` is open on
    next_seq,       \* FrameLog::next_seq
    pending_commit, \* FrameLog::pending_commit
    durable,        \* the DurableMark last published on durable_tx
    stalled,        \* FrameLog::stalled (rung 3)
    spill,          \* FrameLog::spill, the staged frames
    last_commit,    \* set_stalled's local: last commit frame drained so far
    pc,             \* where the log's owner is inside an awaiting call
    up,             \* a process owns the log
    head            \* the last transaction the source has delivered in full

logVars == <<files, synced, torn, cur, next_seq, pending_commit, durable,
             stalled, spill, last_commit, pc, up, head>>

Frame == [seq : Nat, txn : Nat, txn_complete : BOOLEAN, payload : Payload]

DurableMark == [seq : Nat, lsn : Nat, valid : BOOLEAN]

Unset == [seq |-> 0, lsn |-> 0, valid |-> FALSE]

Mark(c) == [seq |-> c[1], lsn |-> c[2], valid |-> TRUE]

\* Every frame a reader of the directory can decode.
OnDisk == UNION {{files[n][i] : i \in DOMAIN files[n]} : n \in DOMAIN files}

\* The frames a power loss cannot take.
OnStableDisk == UNION {{files[n][i] : i \in 1..synced[n]} : n \in DOMAIN files}

Staged == {spill[i] : i \in DOMAIN spill}

-----------------------------------------------------------------------------
(***************************************************************************)
(* FrameLog::create: an empty directory, seg-0, no mark.                   *)
(***************************************************************************)
Empty ==
    /\ files = [n \in {0} |-> <<>>]
    /\ synced = [n \in {0} |-> 0]
    /\ torn = FALSE
    /\ cur = 0
    /\ next_seq = 0
    /\ pending_commit = NoCommit
    /\ durable = Unset
    /\ stalled = FALSE
    /\ spill = <<>>
    /\ last_commit = NoCommit
    /\ pc = "idle"
    /\ head = 0

Create == Empty /\ up = TRUE

NextFrame(c, p) ==
    [seq |-> next_seq, txn |-> head + 1, txn_complete |-> c, payload |-> p]

\* write_all on the open segment: the bytes reach the page cache.
Write(f) == files' = [files EXCEPT ![cur] = Append(@, f)]

\* Mutant of Sync: the fsync is left out.
SyncNothing == synced' = synced

\* sync_all on the open segment.
Sync == synced' = [synced EXCEPT ![cur] = Len(files[cur])]

Full(s) == Len(s) >= SegMax

\* Mutant of RollSegment: the name moves on, the file is not created.
RollWithoutFile ==
    /\ cur' = next_seq
    /\ UNCHANGED files
    /\ synced' = [synced EXCEPT ![cur] = Len(files[cur])]

\* roll_segment: a new, empty file named after the next sequence number.
RollSegment ==
    /\ cur' = next_seq
    /\ files' = [n \in DOMAIN files \union {next_seq} |->
                    IF n = next_seq THEN <<>> ELSE files[n]]
    /\ synced' = [n \in DOMAIN files \union {next_seq} |->
                    IF n = next_seq THEN 0
                    ELSE IF n = cur THEN Len(files[cur]) ELSE synced[n]]

\* sync_all, then the roll when the segment has reached its size.
SyncAndRoll ==
    IF Full(files[cur])
    THEN RollSegment
    ELSE Sync /\ UNCHANGED <<files, cur>>

\* One frame enters the log: the sequence number is taken, then the frame is
\* staged (rung 3) or written.
Take(c, p) ==
    /\ up
    /\ pc = "idle"
    /\ next_seq < MaxSeq
    /\ next_seq' = next_seq + 1
    /\ head' = IF c THEN head + 1 ELSE head
    /\ IF stalled
       THEN /\ spill' = Append(spill, NextFrame(c, p))
            /\ UNCHANGED files
       ELSE /\ Write(NextFrame(c, p))
            /\ UNCHANGED spill

(***************************************************************************)
(* append: a commit frame is written, then fsync'd and published by        *)
(* SyncCommit; the two are separated by an await, where the task can die   *)
(* and where other tasks can look.                                         *)
(***************************************************************************)
AppendFrame(c, p) ==
    /\ ~Deferred
    /\ Take(c, p)
    /\ IF c /\ ~stalled
       THEN /\ pending_commit' = <<next_seq, head + 1>>
            /\ pc' = "sync"
       ELSE UNCHANGED <<pending_commit, pc>>
    /\ UNCHANGED <<synced, torn, cur, durable, stalled, last_commit, up>>

SyncCommit ==
    /\ up
    /\ pc = "sync"
    /\ SyncAndRoll
    /\ durable' = Mark(pending_commit)
    /\ pending_commit' = NoCommit
    /\ pc' = "idle"
    /\ UNCHANGED <<torn, next_seq, stalled, spill, last_commit, up, head>>

(***************************************************************************)
(* append_deferred: the mark waits for flush_pending; a commit that fills  *)
(* the segment flushes and rolls before the call returns.                  *)
(***************************************************************************)
AppendDeferred(c, p) ==
    /\ Deferred
    /\ Take(c, p)
    /\ IF c /\ ~stalled
       THEN /\ pending_commit' = <<next_seq, head + 1>>
            /\ pc' = IF Full(Append(files[cur], NextFrame(c, p)))
                     THEN "sync" ELSE "idle"
       ELSE UNCHANGED <<pending_commit, pc>>
    /\ UNCHANGED <<synced, torn, cur, durable, stalled, last_commit, up>>

\* flush_pending: take the pending commit, fsync, publish.
FlushPending ==
    /\ up
    /\ pc = "idle"
    /\ pending_commit # NoCommit
    /\ Sync
    /\ durable' = Mark(pending_commit)
    /\ pending_commit' = NoCommit
    /\ UNCHANGED <<files, torn, cur, next_seq, stalled, spill, last_commit,
                   pc, up, head>>

(***************************************************************************)
(* set_stalled.  Entering rung 3 sets a flag.  Leaving it writes the       *)
(* staged frames back one by one, fsyncs, publishes the last commit among  *)
(* them and only then clears the flag.  Only the pump's log is ever        *)
(* stalled.                                                                *)
(***************************************************************************)
Stall ==
    /\ up
    /\ pc = "idle"
    /\ ~Deferred
    /\ ~stalled
    /\ stalled' = TRUE
    /\ UNCHANGED <<files, synced, torn, cur, next_seq, pending_commit, durable,
                   spill, last_commit, pc, up, head>>

DrainStart ==
    /\ up
    /\ pc = "idle"
    /\ stalled
    /\ pc' = "drain"
    /\ last_commit' = NoCommit
    /\ UNCHANGED <<files, synced, torn, cur, next_seq, pending_commit, durable,
                   stalled, spill, up, head>>

DrainFrame ==
    /\ up
    /\ pc = "drain"
    /\ spill # <<>>
    /\ LET f == Head(spill) IN
         /\ Write(f)
         /\ last_commit' = IF f.txn_complete THEN <<f.seq, f.txn>> ELSE last_commit
    /\ spill' = Tail(spill)
    /\ UNCHANGED <<synced, torn, cur, next_seq, pending_commit, durable,
                   stalled, pc, up, head>>

DrainSync ==
    /\ up
    /\ pc = "drain"
    /\ spill = <<>>
    /\ SyncAndRoll
    /\ durable' = IF last_commit = NoCommit THEN durable ELSE Mark(last_commit)
    /\ last_commit' = NoCommit
    /\ stalled' = FALSE
    /\ pc' = "idle"
    /\ UNCHANGED <<torn, next_seq, pending_commit, spill, up, head>>

-----------------------------------------------------------------------------
(***************************************************************************)
(* The owner dies.  Its memory goes (the staged frames, the pending        *)
(* commit); durable keeps the last mark anyone was told.                   *)
(***************************************************************************)
LoseMemory ==
    /\ up' = FALSE
    /\ pc' = "idle"
    /\ spill' = <<>>
    /\ pending_commit' = NoCommit
    /\ last_commit' = NoCommit
    /\ stalled' = FALSE
    /\ UNCHANGED <<cur, next_seq, durable, head>>

\* The task is aborted or the process is killed, perhaps inside a write.
Kill ==
    /\ up
    /\ torn' \in BOOLEAN
    /\ LoseMemory
    /\ UNCHANGED <<files, synced>>

\* The machine stops: of what no fsync has covered, any suffix is lost.
Unsynced == {n \in DOMAIN files : synced[n] < Len(files[n])}

PowerLoss ==
    /\ \E keep \in [Unsynced -> 0..MaxSeq] :
         /\ \A n \in Unsynced : keep[n] \in synced[n]..Len(files[n])
         /\ files' = [n \in DOMAIN files |->
                        IF n \in Unsynced THEN SubSeq(files[n], 1, keep[n]) ELSE files[n]]
         /\ synced' = [n \in DOMAIN files |->
                        IF n \in Unsynced THEN keep[n] ELSE synced[n]]
    /\ torn' \in BOOLEAN
    /\ LoseMemory

(***************************************************************************)
(* FrameLog::resume: scan every segment for the last transaction-complete  *)
(* frame, cut the log after it, fsync the cut segment, start a new one.    *)
(***************************************************************************)
\* Mutant of IsBoundary: the scan does not look into later segments.
LastOfItsFile(n, i) ==
    /\ files[n][i].txn_complete
    /\ \A j \in DOMAIN files[n] : j > i => ~files[n][j].txn_complete

IsBoundary(n, i) ==
    /\ files[n][i].txn_complete
    /\ \A j \in DOMAIN files[n] : j > i => ~files[n][j].txn_complete
    /\ \A m \in DOMAIN files : m > n =>
         \A j \in DOMAIN files[m] : ~files[m][j].txn_complete

\* The cut itself: the segments up to n, n cut after its frame i, and a new
\* segment named after the next sequence number, seq.
Cut(n, i, seq) ==
    LET kept == {m \in DOMAIN files : m <= n} IN
    /\ next_seq' = seq
    /\ cur' = seq
    /\ files' = [m \in kept \union {seq} |->
                   IF m = seq THEN <<>>
                   ELSE IF m = n THEN SubSeq(files[n], 1, i) ELSE files[m]]
    /\ synced' = [m \in kept \union {seq} |->
                   IF m = seq THEN 0 ELSE IF m = n THEN i ELSE synced[m]]

\* Mutant of ResumeAt: a sequence number is skipped.
ResumeSkipsSeq(n, i) ==
    /\ Cut(n, i, files[n][i].seq + 2)
    /\ durable' = Mark(<<files[n][i].seq, files[n][i].txn>>)
    /\ head' = files[n][i].txn

\* Mutant of ResumeAt: the source goes on from where it was, not from the mark.
ResumeKeepsPosition(n, i) ==
    /\ Cut(n, i, files[n][i].seq + 1)
    /\ durable' = Mark(<<files[n][i].seq, files[n][i].txn>>)
    /\ UNCHANGED head

\* Mutant of ResumeAt: the source goes on from one transaction too early.
ResumeRepeats(n, i) ==
    /\ Cut(n, i, files[n][i].seq + 1)
    /\ durable' = Mark(<<files[n][i].seq, files[n][i].txn>>)
    /\ head' = files[n][i].txn - 1

ResumeAt(n, i) ==
    LET b == files[n][i] IN
    /\ Cut(n, i, b.seq + 1)
    /\ durable' = Mark(<<b.seq, b.txn>>)
    /\ head' = b.txn

ResumeEmpty ==
    /\ next_seq' = 0
    /\ cur' = 0
    /\ durable' = Unset
    /\ head' = 0
    /\ files' = [m \in {0} |-> <<>>]
    /\ synced' = [m \in {0} |-> 0]

Resume ==
    /\ ~up
    /\ up' = TRUE
    /\ torn' = FALSE
    /\ \/ \E n \in DOMAIN files : \E i \in DOMAIN files[n] :
            IsBoundary(n, i) /\ ResumeAt(n, i)
       \/ (\A f \in OnDisk : ~f.txn_complete) /\ ResumeEmpty
    /\ UNCHANGED <<pending_commit, stalled, spill, last_commit, pc>>

-----------------------------------------------------------------------------
(***************************************************************************)
(* verify_log: read every segment in name order, compare each frame with   *)
(* the one read before it, and each commit with the commits before it.     *)
(***************************************************************************)
Places == UNION {{<<n, i>> : i \in DOMAIN files[n]} : n \in DOMAIN files}

FrameAt(p) == files[p[1]][p[2]]

ReadBefore(p, q) == p[1] < q[1] \/ (p[1] = q[1] /\ p[2] < q[2])

SeqContiguous ==
    \A p, q \in Places :
        ReadBefore(p, q) /\ (\A r \in Places : ~(ReadBefore(p, r) /\ ReadBefore(r, q)))
            => FrameAt(q).seq = FrameAt(p).seq + 1

LsnMonotone ==
    \A p, q \in Places :
        ReadBefore(p, q) /\ FrameAt(p).txn_complete /\ FrameAt(q).txn_complete
            => FrameAt(p).txn <= FrameAt(q).txn

-----------------------------------------------------------------------------
Owner ==
    \/ \E c \in BOOLEAN, p \in Payload : AppendFrame(c, p) \/ AppendDeferred(c, p)
    \/ SyncCommit
    \/ FlushPending
    \/ Stall
    \/ DrainStart
    \/ DrainFrame
    \/ DrainSync

Next ==
    \/ Owner
    \/ Kill
    \/ PowerLoss
    \/ Resume

Spec == Create /\ [][Next]_logVars

-----------------------------------------------------------------------------
(***************************************************************************)
(* Properties.                                                             *)
(***************************************************************************)

\* Type correctness of the log's disk and memory state.
TypeOK ==
    /\ DOMAIN files \in SUBSET Nat
    /\ files \in [DOMAIN files -> Seq(Frame)]
    /\ synced \in [DOMAIN files -> Nat]
    /\ torn \in BOOLEAN
    /\ cur \in DOMAIN files
    /\ next_seq \in Nat
    /\ pending_commit \in (Nat \X Nat) \union {NoCommit}
    /\ durable \in DurableMark
    /\ stalled \in BOOLEAN
    /\ spill \in Seq(Frame)
    /\ last_commit \in (Nat \X Nat) \union {NoCommit}
    /\ pc \in {"idle", "sync", "drain"}
    /\ up \in BOOLEAN
    /\ head \in Nat

\* The ack invariant (lib.rs 3-6, Amendment A A3): the published mark names a
\* commit frame, and that frame and every frame before it are where a power
\* loss cannot take them, through stalls, drains, rolls, kills and resumes.
MarkIsSyncedPrefix ==
    durable.valid =>
        /\ \E f \in OnStableDisk : f.seq = durable.seq /\ f.txn_complete
                                    /\ f.txn = durable.lsn
        /\ \A s \in 0..durable.seq : \E f \in OnStableDisk : f.seq = s

\* Zero loss, zero duplication in the log: every transaction up to the mark
\* has exactly one commit frame on disk, however often the source had to
\* deliver it again after a resume.
ExactlyOnce ==
    \A t \in 1..durable.lsn :
        \E f \in OnDisk : /\ f.txn_complete /\ f.txn = t
                         /\ \A g \in OnDisk : g.txn_complete /\ g.txn = t => g = f

\* What verify_log reports of the directory, read at any moment: sequence
\* numbers without gap or repetition, commit LSNs in delivery order.
VerifyLogPasses == SeqContiguous /\ LsnMonotone

(***************************************************************************)
(* The inductive invariant behind them, in named parts.                    *)
(***************************************************************************)
Held == OnDisk \union Staged

\* One past the last sequence number in the files.
End == cur + Len(files[cur])

\* A file is named after its first frame and numbers its frames upwards.
Contiguous ==
    \A n \in DOMAIN files : \A i \in 1..Len(files[n]) : files[n][i].seq = n + i - 1

\* The files tile 0 .. End - 1, and the open one is the last.
Tiled ==
    /\ \A n \in DOMAIN files : n <= cur
    /\ \A n, m \in DOMAIN files : n < m => n + Len(files[n]) <= m
    /\ \A s \in 0..(End - 1) : \E n \in DOMAIN files : n <= s /\ s < n + Len(files[n])

\* Only the open file has frames no fsync has covered.
EarlierSynced ==
    \A n \in DOMAIN files : synced[n] <= Len(files[n])
                           /\ (n # cur => synced[n] = Len(files[n]))

\* The staged frames continue the numbering of the files.
Numbering ==
    /\ \A i \in 1..Len(spill) : spill[i].seq = End + i - 1
    /\ up => next_seq = End + Len(spill)

\* Transactions appear in delivery order, each closed by its commit frame.
Order ==
    \A f, g \in Held : f.seq < g.seq => f.txn <= g.txn /\ (f.txn_complete => f.txn < g.txn)

\* No frame without the commits of all earlier transactions before it.
Covered ==
    \A f \in Held : /\ f.txn >= 1
                   /\ \A t \in 1..(f.txn - 1) :
                        \E g \in Held : g.txn_complete /\ g.txn = t /\ g.seq < f.seq

\* head is the last transaction the log holds in full.
HeadHeld ==
    /\ \A f \in Held : f.txn <= head + 1 /\ (f.txn_complete => f.txn <= head)
    /\ up => \A t \in 1..head : \E f \in Held : f.txn_complete /\ f.txn = t

MarkHeld ==
    /\ durable.valid => \E f \in OnStableDisk : f.seq = durable.seq /\ f.txn_complete
                                                /\ f.txn = durable.lsn
    /\ ~durable.valid => durable.lsn = 0

HasCommit(s, c) ==
    \E i \in 1..Len(s) : s[i].txn_complete /\ s[i].seq = c[1] /\ s[i].txn = c[2]

\* A commit waiting for its mark is in the open file, and not before the mark.
PendingHeld ==
    /\ pending_commit # NoCommit => /\ HasCommit(files[cur], pending_commit)
                                   /\ durable.lsn <= pending_commit[2]
    /\ last_commit # NoCommit => /\ HasCommit(files[cur], last_commit)
                                /\ durable.lsn <= last_commit[2]

\* Which parts of the memory state occur together.
Modes ==
    /\ Deferred => ~stalled
    /\ pending_commit # NoCommit => Deferred \/ pc = "sync"
    /\ pc = "sync" => pending_commit # NoCommit /\ ~stalled
    /\ pc = "drain" => stalled
    /\ last_commit # NoCommit => pc = "drain"
    /\ ~stalled => spill = <<>>
    /\ ~up => pc = "idle" /\ pending_commit = NoCommit /\ ~stalled

IInv ==
    /\ TypeOK
    /\ Contiguous
    /\ Tiled
    /\ EarlierSynced
    /\ Numbering
    /\ Order
    /\ Covered
    /\ HeadHeld
    /\ MarkHeld
    /\ PendingHeld
    /\ Modes

\* The log keeps its promise: seen from outside, a step receives, promises or
\* recovers, and no step (no resume after a power loss in particular) takes
\* back a mark that has been published.
C == INSTANCE Custody WITH received <- head, promised <- durable.lsn
KeepsCustody == C!Spec
=============================================================================
