------------------------------ MODULE Pipeline ------------------------------
(***************************************************************************)
(* The live path of GrayDB Studio, from the source's commits to the        *)
(* materialized shapes:                                                    *)
(*                                                                         *)
(*   PostgreSQL slot --session--> run_pump --> FrameLog (disk)             *)
(*                                                |                        *)
(*       shapes <-- apply_new_frames <-- StreamDecoder <-- LogTail         *)
(*                                                                         *)
(* The pump task owns the log and can be killed and restarted; the apply   *)
(* loop, the tail cursor and the decoder live on in the engine and learn   *)
(* of a restart only from the files.                                       *)
(***************************************************************************)
EXTENDS FrameLog, LogTail, StreamDecoder

CONSTANTS
    MaxTxn,     \* bound: transactions the source commits
    MaxStalls,  \* bound: rung-3 stalls
    MaxKills,   \* bound: kills of the pump
    KillScope   \* when the pump may be killed: "any" time, once something is
                \* "committed", or while its open "segment" holds a commit

ASSUME PayloadAssumption == Payload = {"begin", "relation", "change", "commit"}
ASSUME BoundsAssumption == MaxTxn \in Nat /\ MaxStalls \in Nat /\ MaxKills \in Nat
ASSUME KillScopeAssumption == KillScope \in {"any", "committed", "segment"}

VARIABLES
    wal,          \* transactions committed at the source
    wal_past,     \* the WAL head sits past the last commit (checkpoints)
    confirmed,    \* the slot's confirmed_flush_lsn
    msg,          \* the session's next message within a transaction
    rel_sent,     \* the schema this session has sent a Relation message of, or 0
    ack_due,      \* the pump is between a durable commit and its status update
    stream_lsn,   \* IngestMetrics::stream_lsn, a WAL position
    acked_lsn,    \* IngestMetrics::acked_lsn
    tail,         \* Pipeline::tail
    decoder,      \* Pipeline::decoder
    applied,      \* the changes applied to the shapes, in order
    applied_lsn,  \* Pipeline::applied_lsn
    apply_error,  \* the first error apply_new_frames reported, or "none"
    stalls,       \* stalls so far
    kills         \* kills so far

sourceVars == <<wal, wal_past>>
sessionVars == <<confirmed, msg, rel_sent, ack_due, stream_lsn, acked_lsn>>
applyVars == <<tail, decoder, applied, applied_lsn, apply_error>>
boundVars == <<stalls, kills>>
vars == <<logVars, sourceVars, sessionVars, applyVars, boundVars>>

\* WAL positions: transaction t's commit ends at 2t, and the head can sit one
\* further, past records that belong to no published transaction.
EndOf(t) == 2 * t

WalHead == EndOf(wal) + (IF wal_past THEN 1 ELSE 0)

Greater(a, b) == IF a > b THEN a ELSE b

-----------------------------------------------------------------------------
PipelineStart ==
    /\ wal = 0 /\ wal_past = FALSE
    /\ confirmed = 0
    /\ msg = "begin" /\ rel_sent = 0
    /\ ack_due = FALSE
    /\ stream_lsn = 0 /\ acked_lsn = 0
    /\ tail = NewTail
    /\ decoder = NewDecoder
    /\ applied = <<>> /\ applied_lsn = 0
    /\ apply_error = "none"
    /\ stalls = 0 /\ kills = 0

PipelineInit == Create /\ PipelineStart

(***************************************************************************)
(* The source: it commits transactions, moves its WAL head for other       *)
(* reasons, and sends a transaction's messages once it has committed.      *)
(***************************************************************************)
SourceCommit ==
    /\ wal < MaxTxn
    /\ wal' = wal + 1
    /\ wal_past' = FALSE
    /\ UNCHANGED <<logVars, sessionVars, applyVars, boundVars>>

SourceCheckpoint ==
    /\ ~wal_past
    /\ wal_past' = TRUE
    /\ UNCHANGED <<wal, logVars, sessionVars, applyVars, boundVars>>

\* The message after this one: a session sends Relation before the first
\* change it carries and after an ALTER, and a fresh session sends it again.
FollowingMessage ==
    CASE msg = "begin"    -> IF rel_sent = SchemaOf(head + 1) THEN "change" ELSE "relation"
      [] msg = "relation" -> "change"
      [] msg = "change"   -> "commit"
      [] msg = "commit"   -> "begin"

-----------------------------------------------------------------------------
(***************************************************************************)
(* run_pump's select loop.  One iteration runs to its end, kills aside,    *)
(* before the next begins.                                                 *)
(***************************************************************************)
PumpIdle == up /\ pc = "idle" /\ ~ack_due

\* XLogData: the stream position moves first, then the frame is appended.
ReceiveFrame ==
    /\ PumpIdle
    /\ head < wal
    /\ AppendFrame(msg = "commit", msg)
    /\ stream_lsn' = IF msg = "commit" THEN Greater(stream_lsn, EndOf(head + 1)) ELSE stream_lsn
    /\ ack_due' = (msg = "commit" /\ ~stalled)
    /\ msg' = FollowingMessage
    /\ rel_sent' = IF msg = "relation" THEN SchemaOf(head + 1) ELSE rel_sent
    /\ UNCHANGED <<sourceVars, confirmed, acked_lsn, applyVars, boundVars>>

PumpSync ==
    /\ SyncCommit
    /\ UNCHANGED <<sourceVars, sessionVars, applyVars, boundVars>>

\* send_standby_status: the slot is told the durable mark, and nothing else.
Acknowledge ==
    /\ confirmed' = durable.lsn
    /\ acked_lsn' = durable.lsn

\* The prompt status update after a durable commit, or after a drain.
PromptAck ==
    /\ up /\ pc = "idle" /\ ack_due
    /\ ack_due' = FALSE
    /\ IF durable.valid /\ durable.lsn > acked_lsn
       THEN Acknowledge ELSE UNCHANGED <<confirmed, acked_lsn>>
    /\ UNCHANGED <<logVars, sourceVars, msg, rel_sent, stream_lsn, applyVars, boundVars>>

\* Mutant of Keepalive: the reply acknowledges what was received.
KeepaliveAcksReceived(reply_requested) ==
    /\ PumpIdle
    /\ stream_lsn' = Greater(stream_lsn, IF head = wal THEN WalHead ELSE EndOf(head))
    /\ confirmed' = IF reply_requested THEN head ELSE confirmed
    /\ UNCHANGED <<logVars, sourceVars, msg, rel_sent, ack_due, acked_lsn, applyVars, boundVars>>

\* Mutant of Keepalive: its WAL position is not looked at.
KeepaliveIgnored(reply_requested) ==
    /\ PumpIdle
    /\ confirmed' = IF reply_requested THEN durable.lsn ELSE confirmed
    /\ UNCHANGED <<logVars, sourceVars, msg, rel_sent, ack_due, stream_lsn, acked_lsn,
                   applyVars, boundVars>>

\* A keepalive carries how far the session has got through the WAL.
Keepalive(reply_requested) ==
    /\ PumpIdle
    /\ stream_lsn' = Greater(stream_lsn, IF head = wal THEN WalHead ELSE EndOf(head))
    /\ confirmed' = IF reply_requested THEN durable.lsn ELSE confirmed
    /\ UNCHANGED <<logVars, sourceVars, msg, rel_sent, ack_due, acked_lsn, applyVars, boundVars>>

StatusTick ==
    /\ PumpIdle
    /\ ~stalled
    /\ Acknowledge
    /\ UNCHANGED <<logVars, sourceVars, msg, rel_sent, ack_due, stream_lsn, applyVars, boundVars>>

\* PumpCommand { stalled: true }, and false: drain, then acknowledge.
StallLog ==
    /\ PumpIdle
    /\ stalls < MaxStalls
    /\ stalls' = stalls + 1
    /\ Stall
    /\ UNCHANGED <<kills, sourceVars, sessionVars, applyVars>>

UnstallLog ==
    /\ PumpIdle
    /\ DrainStart
    /\ UNCHANGED <<sourceVars, sessionVars, applyVars, boundVars>>

Drain ==
    /\ DrainFrame
    /\ UNCHANGED <<sourceVars, sessionVars, applyVars, boundVars>>

DrainEnd ==
    /\ DrainSync
    /\ ack_due' = TRUE
    /\ UNCHANGED <<sourceVars, confirmed, msg, rel_sent, stream_lsn, acked_lsn,
                   applyVars, boundVars>>

-----------------------------------------------------------------------------
(***************************************************************************)
(* chaos_kill_decoder takes the handle and aborts the pump task at one of  *)
(* its awaits; restart_decoder resumes the log and opens a fresh session   *)
(* at its mark.  It does not look whether a pump lives; the guard ~up of    *)
(* Resume keeps a second pump over a live one out of the model.            *)
(***************************************************************************)
KillAllowed ==
    \/ KillScope = "any"
    \/ KillScope = "committed" /\ durable.valid
    \/ KillScope = "segment" /\ \E i \in DOMAIN files[cur] : files[cur][i].txn_complete

KillPump ==
    /\ kills < MaxKills
    /\ kills' = kills + 1
    /\ KillAllowed
    /\ Kill
    /\ ack_due' = FALSE
    /\ UNCHANGED <<stalls, sourceVars, confirmed, msg, rel_sent, stream_lsn, acked_lsn, applyVars>>

RestartPump ==
    /\ Resume
    /\ msg' = "begin"
    /\ rel_sent' = 0
    /\ stream_lsn' = 0
    /\ acked_lsn' = 0
    /\ UNCHANGED <<sourceVars, confirmed, ack_due, applyVars, boundVars>>

-----------------------------------------------------------------------------
(***************************************************************************)
(* apply_new_frames, under the pipeline's write lock: read what is new,    *)
(* drop the open transaction if the log was cut, decode, apply.  An error  *)
(* of the tail or of the decoder is reported and the loop carries on.      *)
(***************************************************************************)
Decode(batch) ==
    Feed(IF batch.rewound THEN AbortOpenTxn(decoder) ELSE decoder, batch.frames)

ApplyNewFrames ==
    \E cursor \in {Cursor(files, tail)} :
    \E batch \in {ReadNew(files, tail, cursor)} : \E decoded \in Decode(batch) :
        LET error == IF batch.corrupt THEN "corrupt" ELSE decoded.error IN
        /\ tail' = batch.tail
        /\ decoder' = IF batch.corrupt THEN decoder ELSE decoded.decoder
        /\ apply_error' = IF apply_error = "none" THEN error ELSE apply_error
        /\ IF error = "none" /\ decoded.changes # <<>>
           THEN /\ applied' = applied \o decoded.changes
                /\ applied_lsn' = Greater(decoded.lsn, applied_lsn)
           ELSE UNCHANGED <<applied, applied_lsn>>
        /\ UNCHANGED <<logVars, sourceVars, sessionVars, boundVars>>

-----------------------------------------------------------------------------
Pump ==
    \/ ReceiveFrame
    \/ PumpSync
    \/ PromptAck
    \/ Drain
    \/ DrainEnd

PipelineNext ==
    \/ SourceCommit
    \/ SourceCheckpoint
    \/ Pump
    \/ \E reply_requested \in BOOLEAN : Keepalive(reply_requested)
    \/ StatusTick
    \/ StallLog
    \/ UnstallLog
    \/ KillPump
    \/ RestartPump
    \/ ApplyNewFrames

\* tokio polls every ready task: the pump finishes what it has begun and
\* takes what the session has sent, the source answers the 1s status ticks
\* with keepalives, and the apply loop ticks.  Nobody owes a kill, a stall or
\* their end.
Fairness ==
    /\ WF_vars(Pump)
    /\ WF_vars(Keepalive(FALSE))
    /\ WF_vars(ApplyNewFrames)

PipelineSpec == PipelineInit /\ [][PipelineNext]_vars

FairPipelineSpec == PipelineSpec /\ Fairness

-----------------------------------------------------------------------------
(***************************************************************************)
(* Properties.                                                             *)
(***************************************************************************)

\* Type correctness of the session, the tail, the decoder and the shapes.
PipelineTypeOK ==
    /\ TypeOK
    /\ wal \in 0..MaxTxn /\ wal_past \in BOOLEAN
    /\ confirmed \in Nat /\ acked_lsn \in Nat /\ stream_lsn \in Nat
    /\ msg \in Payload
    /\ rel_sent \in Nat /\ ack_due \in BOOLEAN
    /\ tail \in LogCursor
    /\ decoder \in DecoderState
    /\ applied \in Seq(TypedChange)
    /\ applied_lsn \in Nat
    /\ apply_error \in {"none", "gap", "decode", "corrupt"}

\* The ack law (stream.rs 2-4) seen from the source: what the slot has been
\* told it may forget is on stable disk, also while the pump is dead and
\* nobody remembers the mark.
AckIsCustody ==
    \A t \in 1..confirmed : \E f \in OnStableDisk : f.txn_complete /\ f.txn = t

\* What makes both inductive: the slot never knows more than the mark.
PumpInv ==
    /\ IInv
    /\ PipelineTypeOK
    /\ confirmed <= durable.lsn

\* Exactly-once materialization (README 76, "zero loss, zero dup"): the shapes
\* hold every change of a prefix of the source's transactions, each once, in
\* commit order and decoded under the schema it was made under, and
\* applied_lsn names the last of them.
AppliedIsPrefix ==
    /\ applied = [t \in 1..Len(applied) |->
                     [row |-> t, schema |-> SchemaOf(t), commit_lsn |-> t]]
    /\ applied_lsn = Len(applied)

\* "Same frames -> same result" (registry lib.rs 123-126): whatever kills,
\* rewinds and re-sent Relations the live decoder went through, replaying the
\* files now gives what was applied and perhaps more, and both registries
\* know the schema in force at every commit.  (replay_log allows no torn frame.)
ReplayAgrees ==
    LET offline == ReplayLog(AllFrames(files)) IN
    ~torn => /\ ~offline.error
             /\ IsPrefix(applied, offline.changes)
             /\ IsPrefix(decoder.registry, offline.registry)
             /\ \A t \in 1..Len(offline.changes) :
                    SchemaAt(offline.registry, t) = SchemaOf(t)
             /\ \A t \in 1..Len(applied) : SchemaAt(decoder.registry, t) = SchemaOf(t)

\* The rewind contract of tail.rs 6-10 and decoder.rs 5-8: after a cut the
\* decoder meets the re-delivered frames where it expects them, and
\* apply_new_frames never reports "log custody violated" or a corrupt frame.
NoApplyError == apply_error = "none"

\* Nothing stays in the log for ever: as long as the pump lives and is not
\* stalled, every commit of the source reaches the shapes.
EventuallyApplied ==
    \A t \in 1..MaxTxn : wal >= t ~> applied_lsn >= t \/ ~up \/ stalled

\* tail.rs 3-4: a frame that does not decode at the end of the last segment is
\* "still being written", so stopping before it loses nothing; whatever else
\* keeps a commit from the shapes is reported.
AppliedOrReported ==
    \A t \in 1..MaxTxn :
        wal >= t ~> applied_lsn >= t \/ ~up \/ stalled \/ apply_error # "none"

-----------------------------------------------------------------------------
(***************************************************************************)
(* Why they hold while the pump is only killed when its open segment holds *)
(* a commit: a resume then cuts that segment and no other.                 *)
(***************************************************************************)
\* The session's messages follow one another within a transaction.
Follows(g, payload, txn) ==
    CASE g.payload = "begin"    -> payload \in {"relation", "change"} /\ txn = g.txn
      [] g.payload = "relation" -> payload = "change" /\ txn = g.txn
      [] g.payload = "change"   -> payload = "commit" /\ txn = g.txn
      [] g.payload = "commit"   -> payload = "begin" /\ txn = g.txn + 1

\* A change of schema v at sequence number s comes after a Relation of v, and
\* no other schema was announced between the two.
Announced(v, s) ==
    \E r \in Held : /\ r.payload = "relation" /\ r.seq < s /\ SchemaOf(r.txn) = v
                    /\ \A x \in Held : x.payload = "relation" /\ r.seq < x.seq /\ x.seq < s
                                        => SchemaOf(x.txn) = v

\* The log is what the sessions have sent, and the next message continues it.
Chained ==
    \A f \in Held : /\ f.txn_complete <=> f.payload = "commit"
                    /\ f.seq = 0 => f.payload = "begin"
                    /\ f.payload = "change" => Announced(SchemaOf(f.txn), f.seq)
                    /\ \A g \in Held : g.seq + 1 = f.seq => Follows(g, f.payload, f.txn)

Upcoming ==
    up => /\ next_seq = 0 => msg = "begin"
          /\ \A g \in Held : g.seq + 1 = next_seq => Follows(g, msg, head + 1)
          /\ rel_sent # 0 => Announced(rel_sent, next_seq)
          /\ msg = "change" => rel_sent = SchemaOf(head + 1)

\* Where the next read starts, and the decoder it feeds.
ReadAt == Established(files, tail)

Resumed == IF Shrunk(files, ReadAt) THEN AbortOpenTxn(decoder) ELSE decoder

\* Byte c.offset of file c.current is where the frame number p begins.
AtFrame(fs, c, p) ==
    /\ c.current \in DOMAIN fs
    /\ \E j \in 0..Len(fs[c.current]) :
          c.offset = Bytes(SubSeq(fs[c.current], 1, j)) /\ p = c.current + j

\* The tail finds the frame its decoder expects; a cut it has not seen yet is
\* not in the file that is being written.
InStep ==
    /\ ~Gone(files, tail)
    /\ AtFrame(files, Cursor(files, tail), Resumed.next_seq)
    /\ Shrunk(files, ReadAt) => ReadAt.current # cur

\* What the frame before next_seq has left a decoder with.
LeftBy(d, g) ==
    /\ d.txn = NoTxn <=> g.payload = "commit"
    /\ g.payload \in {"begin", "relation"} => d.txn.changes = <<>>
    /\ g.payload = "begin" => d.txn.relations = <<>>
    /\ g.payload = "relation" => /\ d.live_rel = SchemaOf(g.txn)
                                 /\ d.txn.relations = <<SchemaOf(g.txn)>>
    /\ g.payload = "change" => d.txn.changes = <<[row |-> g.txn, schema |-> SchemaOf(g.txn)]>>

\* A decoder that has consumed the frames below next_seq, n transactions among
\* them in full.
DecoderAt(d, n, frames) ==
    /\ d.started <=> d.next_seq # 0
    /\ d.next_seq = 0 => d.txn = NoTxn
    /\ \A f \in frames : f.txn_complete /\ f.seq < d.next_seq => f.txn <= n
    /\ n # 0 => \E f \in frames : /\ f.txn_complete /\ f.txn = n
                                  /\ f.seq = d.last_commit_seq /\ f.seq < d.next_seq
    /\ \A g \in frames : g.seq + 1 = d.next_seq => LeftBy(d, g)

\* A change of schema v at s is decoded under v: it is the live one, or it is
\* announced again before s.
ReadsAs(v, s, d) ==
    \/ d.live_rel = v
    \/ \E r \in Held : /\ r.payload = "relation" /\ SchemaOf(r.txn) = v
                       /\ d.next_seq <= r.seq /\ r.seq < s

Readable ==
    /\ \A f \in Held : f.payload = "change" /\ Resumed.next_seq <= f.seq
                        => ReadsAs(SchemaOf(f.txn), f.seq, Resumed)
    /\ up /\ rel_sent # 0 => ReadsAs(rel_sent, next_seq, Resumed)

\* Nobody is gone but after a commit in the open segment, or from an empty log.
CutInOpenSegment ==
    up \/ OnDisk = {} \/ \E i \in DOMAIN files[cur] : files[cur][i].txn_complete

StreamInv ==
    /\ Chained
    /\ Upcoming
    /\ InStep
    /\ DecoderAt(Resumed, Len(applied), OnDisk)
    /\ Readable
    /\ CutInOpenSegment
    /\ AppliedIsPrefix
    /\ NoApplyError

\* The first transaction under schema v, and the versions of the first n.
FirstUnder(v) ==
    CHOOSE t \in Altered \union {1} : t >= 1 /\ SchemaOf(t) = v /\ \A u \in 1..(t - 1) : SchemaOf(u) # v

Versions(n) ==
    [i \in 1..(IF n = 0 THEN 0 ELSE SchemaOf(n) - SchemaOf(1) + 1) |->
        [valid_from |-> FirstUnder(SchemaOf(1) + i - 1), schema |-> SchemaOf(1) + i - 1]]

\* A decoder that has consumed n transactions knows their versions, and what
\* the open one adds: a change without a Relation of its own transaction has
\* the schema of the one before.
RegistryAt(d, n) ==
    /\ d.registry = Versions(n)
    /\ d.txn # NoTxn =>
          /\ d.txn.relations = <<>> \/ d.txn.relations = <<SchemaOf(n + 1)>>
          /\ d.txn.changes # <<>> /\ d.txn.relations = <<>>
                => n # 0 /\ SchemaOf(n) = SchemaOf(n + 1)

RegistryInv == RegistryAt(decoder, Len(applied))
=============================================================================
