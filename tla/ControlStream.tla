--------------------------- MODULE ControlStream ---------------------------
(***************************************************************************)
(* graydb-r1's control replication task: it streams the publication of     *)
(* r1_control.tx_marker into a FrameLog of its own with append_deferred,   *)
(* tells the application writer at which commit LSN each marker became     *)
(* visible, and acknowledges the control slot in batches.                  *)
(*                                                                         *)
(* markers[t] is the sequence number in the marker of the t-th committed   *)
(* transaction, and t stands for its commit-end LSN.  A transaction has    *)
(* two frames, its marker row and its commit.                              *)
(***************************************************************************)
EXTENDS FrameLog

CONSTANTS
    AckBatch,        \* CONTROL_ACK_BATCH_COMMITS
    ChannelCapacity  \* of the channel of mapped commits

ASSUME ControlAssumption ==
    /\ Deferred
    /\ AckBatch \in Nat \ {0}
    /\ ChannelCapacity \in Nat \ {0}

VARIABLES
    markers,   \* r1_control.tx_marker, in commit order
    row_sent,  \* the session has delivered the next transaction's marker row
    ctl,       \* where run_control_replication is
    mapped,    \* the channel of LedgerCommits to the writer
    unacked,   \* unacked_commits
    confirmed  \* the position the control slot has been acknowledged to

controlVars == <<logVars, markers, row_sent, ctl, mapped, unacked, confirmed>>

ControlInit ==
    /\ Create
    /\ markers = <<>>
    /\ row_sent = FALSE
    /\ ctl = "streaming"
    /\ mapped = <<>>
    /\ unacked = 0
    /\ confirmed = 0

\* The mapper has nothing more to say: mapped_tx is dropped.
ControlGone == ctl \in {"stopped", "failed"}

\* XLogData of a row: it is appended and kept in `pending`.
ReceiveRow ==
    /\ ctl = "streaming"
    /\ head < Len(markers)
    /\ ~row_sent
    /\ \E p \in Payload : AppendDeferred(FALSE, p)
    /\ row_sent' = TRUE
    /\ UNCHANGED <<markers, ctl, mapped, unacked, confirmed>>

\* XLogData of a commit: it is appended; the call returns after a roll, if the
\* segment is full, and the pending frames are then given to the mapper.
ReceiveCommit ==
    /\ ctl = "streaming"
    /\ row_sent
    /\ \E p \in Payload : AppendDeferred(TRUE, p)
    /\ row_sent' = FALSE
    /\ ctl' = "map"
    /\ UNCHANGED <<markers, mapped, unacked, confirmed>>

RollControlLog ==
    /\ SyncCommit
    /\ UNCHANGED <<markers, row_sent, ctl, mapped, unacked, confirmed>>

\* Mutant of Mapping: the position of the marker's row, before the commit's end.
MappingAtRow(t) == [sequence |-> markers[t], source_lsn |-> t - 1]

\* ControlLsnMapper::feed of the transaction's last frame gives its marker with
\* the commit-end LSN.
Mapping(t) == [sequence |-> markers[t], source_lsn |-> t]

\* Mutant of SendMapping: the writer is told once the batch is full.
SendWithBatch ==
    mapped' = IF unacked + 1 >= AckBatch THEN Append(mapped, Mapping(head)) ELSE mapped

SendMapping == mapped' = Append(mapped, Mapping(head))

\* The mapping is sent at once; every AckBatch commits the log is flushed.
MapCommit ==
    /\ ctl = "map"
    /\ pc = "idle"
    /\ Len(mapped) < ChannelCapacity
    /\ SendMapping
    /\ unacked' = unacked + 1
    /\ ctl' = IF unacked + 1 >= AckBatch THEN "flush" ELSE "streaming"
    /\ UNCHANGED <<logVars, markers, row_sent, confirmed>>

\* A keepalive that asks for a reply flushes too.
ReplyRequested ==
    /\ ctl = "streaming"
    /\ pc = "idle"
    /\ ctl' = "flush"
    /\ UNCHANGED <<logVars, markers, row_sent, mapped, unacked, confirmed>>

\* Mutant of FlushBatch: the batch is acknowledged without a flush.
SkipFlush ==
    /\ ctl = "flush"
    /\ ctl' = IF unacked >= AckBatch THEN "batch" ELSE "reply"
    /\ UNCHANGED <<logVars, markers, row_sent, mapped, unacked, confirmed>>

\* flush_pending: nothing is pending when a roll has just published the mark.
FlushBatch ==
    /\ ctl = "flush"
    /\ FlushPending \/ (pc = "idle" /\ pending_commit = NoCommit /\ UNCHANGED logVars)
    /\ ctl' = IF unacked >= AckBatch THEN "batch" ELSE "reply"
    /\ UNCHANGED <<markers, row_sent, mapped, unacked, confirmed>>

\* Mutant of AckPosition: the last commit received is acknowledged.
AckReceived == head

\* The durable mark, or where the session started.
AckPosition == IF durable.valid THEN durable.lsn ELSE 0

SendStatus ==
    /\ ctl \in {"batch", "reply"}
    /\ confirmed' = AckPosition
    /\ unacked' = 0
    /\ ctl' = "streaming"
    /\ UNCHANGED <<logVars, markers, row_sent, mapped>>

\* stop: the durable mark is acknowledged once more, without a flush.
StopControl ==
    /\ ctl = "streaming"
    /\ pc = "idle"
    /\ confirmed' = IF durable.valid THEN AckPosition ELSE confirmed
    /\ ctl' = "stopped"
    /\ UNCHANGED <<logVars, markers, row_sent, mapped, unacked>>

\* The replication connection breaks, which ends the task with an error; its
\* log is dropped with it, and what a partial write left stays on disk.
ControlConnectionLost ==
    /\ ~ControlGone
    /\ Kill
    /\ ctl' = "failed"
    /\ UNCHANGED <<markers, row_sent, mapped, unacked, confirmed>>

ControlNext ==
    \/ ReceiveRow
    \/ ReceiveCommit
    \/ RollControlLog
    \/ MapCommit
    \/ ReplyRequested
    \/ FlushBatch
    \/ SendStatus
    \/ StopControl
    \/ ControlConnectionLost

(***************************************************************************)
(* SlotIsCustody: every transaction the control slot has been acknowledged *)
(* to is on disk as a complete transaction no power loss can take,         *)
(* although the writer was told of it before.                              *)
(***************************************************************************)
SlotIsCustody ==
    \A t \in 1..confirmed : \E f \in OnStableDisk : f.txn_complete /\ f.txn = t

\* The assertion of replication.rs:280 ("control frame log has no durable commit
\* mark"): after a batch's flush the mark is the commit just received, also when
\* a roll or a keepalive has published it before.
BatchIsDurable == ctl = "batch" => durable.valid /\ durable.lsn = head

-----------------------------------------------------------------------------
(***************************************************************************)
(* The inductive invariant behind them, on top of the log's IInv.          *)
(***************************************************************************)
\* Where the task is: an awaiting call of the log is inside the receipt of a
\* commit, and a log without an owner has no task.
ControlModes ==
    /\ ctl \in {"streaming", "map", "flush", "batch", "reply", "stopped", "failed"}
    /\ pc = "sync" => ctl = "map"
    /\ ~up => ControlGone

\* The log has received a prefix of what PostgreSQL has committed.
Received == head <= Len(markers) /\ (row_sent => head < Len(markers))

\* The last commit received is the one that waits for the mark, or the mark's.
LastIsPending ==
    /\ pending_commit # NoCommit => pending_commit[2] = head
    /\ up /\ pending_commit = NoCommit /\ head > 0 => durable.valid /\ durable.lsn = head

\* unacked counts commits received since the last status.
UnackedReceived ==
    /\ unacked \in Nat
    /\ unacked > 0 \/ ctl = "map" => head > 0

\* The slot has only been acknowledged to a published mark.
AckIsMark == confirmed \in Nat /\ confirmed <= durable.lsn

ControlInv ==
    /\ IInv
    /\ markers \in Seq(Nat)
    /\ ControlModes
    /\ Received
    /\ LastIsPending
    /\ UnackedReceived
    /\ AckIsMark
    /\ BatchIsDurable
=============================================================================
