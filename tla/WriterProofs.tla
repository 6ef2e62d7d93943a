---------------------------- MODULE WriterProofs ----------------------------
(***************************************************************************)
(* The control stream's and the application writer's invariants, for every *)
(* batch size, channel capacity, segment size, workload and bound; and the *)
(* ledger's oracle: its state is the source's, and its comparison refuses  *)
(* the corruptions of mutation_fixtures, for every seed and workload.      *)
(***************************************************************************)
EXTENDS Writer, FrameLogProofs, RunLemmas

-----------------------------------------------------------------------------
(***************************************************************************)
(* The control stream.                                                     *)
(***************************************************************************)
\* What ControlInv says of the types the steps below reason with.
LEMMA ControlTypes ==
    ASSUME ControlInv
    PROVE  /\ head \in Nat /\ durable.lsn \in Nat /\ durable.valid \in BOOLEAN
           /\ durable.lsn <= head
           /\ pending_commit \in (Nat \X Nat) \union {NoCommit}
           /\ Len(markers) \in Nat /\ DOMAIN markers = 1..Len(markers)
           /\ ~stalled /\ pc \in {"idle", "sync"}
BY MarkBelowHead, ControlAssumption DEF ControlInv, IInv, TypeOK, DurableMark, Modes

\* What a received frame does to the control stream's view of the log.
LEMMA ReceiveEffect ==
    ASSUME ControlInv, NEW c \in BOOLEAN, NEW p \in Payload, AppendDeferred(c, p)
    PROVE  /\ [Next]_logVars
           /\ UNCHANGED <<durable, up>> /\ up /\ pc = "idle"
           /\ head' = IF c THEN head + 1 ELSE head
           /\ c => pending_commit' = <<next_seq, head + 1>>
           /\ ~c => pending_commit' = pending_commit /\ pc' = pc
<1>1. ~stalled
  BY ControlTypes
<1>2. Next
  BY DEF Next, Owner
<1> QED
  BY <1>1, <1>2 DEF AppendDeferred, Take

\* A flush or a roll publishes the pending commit.
LEMMA PublishEffect ==
    ASSUME ControlInv, SyncCommit \/ FlushPending
    PROVE  /\ [Next]_logVars
           /\ UNCHANGED <<head, up>> /\ up /\ pc' = "idle"
           /\ pending_commit # NoCommit /\ pending_commit' = NoCommit
           /\ durable'.valid /\ durable'.lsn = pending_commit[2]
<1>1. pending_commit # NoCommit
  BY DEF SyncCommit, FlushPending, ControlInv, IInv, Modes
<1>2. pending_commit \in Nat \X Nat
  BY <1>1, ControlTypes
<1>3. durable' = Mark(pending_commit)
  BY DEF SyncCommit, FlushPending
<1>4. durable'.valid /\ durable'.lsn = pending_commit[2]
  BY <1>2, <1>3, MarkType
<1>5. Next
  BY DEF Next, Owner
<1> QED
  BY <1>1, <1>4, <1>5 DEF SyncCommit, FlushPending

\* The end of the log's owner.
LEMMA KillEffect ==
    ASSUME Kill \/ PowerLoss
    PROVE  /\ [Next]_logVars
           /\ UNCHANGED <<head, durable>>
           /\ ~up' /\ pc' = "idle" /\ pending_commit' = NoCommit
BY DEF Next, Kill, PowerLoss, LoseMemory

\* The position a status carries.
LEMMA AckPositionIsMark ==
    ASSUME ControlInv
    PROVE  AckPosition = durable.lsn
BY ControlTypes DEF AckPosition, ControlInv, IInv, MarkHeld

\* Every step of the control task keeps the control stream's invariant.
LEMMA ControlKeeps ==
    ASSUME ControlInv, ControlNext
    PROVE  ControlInv'
<1> DEFINE Rest == /\ markers' = markers
                   /\ ControlModes' /\ Received' /\ LastIsPending' /\ UnackedReceived'
                   /\ AckIsMark' /\ BatchIsDurable'
<1>1. /\ head \in Nat /\ durable.lsn \in Nat /\ durable.valid \in BOOLEAN
      /\ pending_commit \in (Nat \X Nat) \union {NoCommit}
      /\ Len(markers) \in Nat /\ pc \in {"idle", "sync"} /\ durable.lsn <= head
  BY ControlTypes
<1>2. /\ markers \in Seq(Nat) /\ IInv
      /\ ControlModes /\ Received /\ LastIsPending /\ UnackedReceived /\ AckIsMark
      /\ BatchIsDurable
  BY DEF ControlInv
<1>3. ASSUME [Next]_logVars, Rest
      PROVE  ControlInv'
  <2>1. IInv'
    BY <1>2, <1>3, NextIInv
  <2> QED
    BY <1>2, <1>3, <2>1 DEF ControlInv
<1>4. CASE ReceiveRow
  <2>1. PICK p \in Payload : AppendDeferred(FALSE, p)
    BY <1>4 DEF ReceiveRow
  <2>2. /\ [Next]_logVars /\ UNCHANGED <<durable, up, head, pending_commit, pc>>
    BY <2>1, ReceiveEffect
  <2>3. UNCHANGED <<markers, ctl, mapped, unacked, confirmed>> /\ head < Len(markers)
    BY <1>4 DEF ReceiveRow
  <2>4. Rest
    BY <1>2, <2>2, <2>3
    DEF ControlModes, Received, LastIsPending, UnackedReceived, AckIsMark, BatchIsDurable,
        ControlGone
  <2> QED
    BY <1>3, <2>2, <2>4
<1>5. CASE ReceiveCommit
  <2>1. PICK p \in Payload : AppendDeferred(TRUE, p)
    BY <1>5 DEF ReceiveCommit
  <2>2. /\ [Next]_logVars /\ UNCHANGED <<durable, up>> /\ up
        /\ head' = head + 1 /\ pending_commit' = <<next_seq, head + 1>>
    BY <2>1, ReceiveEffect
  <2>3. /\ UNCHANGED <<markers, mapped, unacked, confirmed>>
        /\ row_sent /\ ~row_sent' /\ ctl' = "map"
    BY <1>5 DEF ReceiveCommit
  <2>4. pending_commit' # NoCommit /\ pending_commit'[2] = head'
    BY <1>1, <2>2, NoCommitAssumption DEF IInv, TypeOK, ControlInv
  <2>5. Rest
    BY <1>1, <1>2, <2>2, <2>3, <2>4
    DEF ControlModes, Received, LastIsPending, UnackedReceived, AckIsMark, BatchIsDurable,
        ControlGone
  <2> QED
    BY <1>3, <2>2, <2>5
<1>6. CASE RollControlLog
  <2>1. /\ [Next]_logVars /\ UNCHANGED <<head, up>> /\ up /\ pc' = "idle"
        /\ pending_commit # NoCommit /\ pending_commit' = NoCommit
        /\ durable'.valid /\ durable'.lsn = pending_commit[2]
    BY <1>6, PublishEffect DEF RollControlLog
  <2>2. UNCHANGED <<markers, row_sent, ctl, mapped, unacked, confirmed>>
    BY <1>6 DEF RollControlLog
  <2>3. durable'.lsn \in Nat /\ durable.lsn <= durable'.lsn
    BY <1>2, <2>1, MarkNeverBack
  <2>4. Rest
    BY <1>1, <1>2, <2>1, <2>2, <2>3
    DEF ControlModes, Received, LastIsPending, UnackedReceived, AckIsMark, BatchIsDurable,
        ControlGone
  <2> QED
    BY <1>3, <2>1, <2>4
<1>7. CASE MapCommit
  <2>1. /\ UNCHANGED <<logVars, markers, row_sent, confirmed>>
        /\ ctl = "map" /\ pc = "idle" /\ unacked' = unacked + 1
        /\ ctl' \in {"flush", "streaming"}
    BY <1>7 DEF MapCommit
  <2>2. Rest
    BY <1>1, <1>2, <2>1
    DEF ControlModes, Received, LastIsPending, UnackedReceived, AckIsMark, BatchIsDurable,
        ControlGone, logVars
  <2> QED
    BY <1>3, <2>1, <2>2
<1>8. CASE ReplyRequested
  <2>1. Rest
    BY <1>1, <1>2, <1>8
    DEF ControlModes, Received, LastIsPending, UnackedReceived, AckIsMark, BatchIsDurable,
        ControlGone, logVars, ReplyRequested
  <2> QED
    BY <1>3, <1>8, <2>1 DEF ReplyRequested
<1>9. CASE FlushBatch
  <2>1. /\ UNCHANGED <<markers, row_sent, mapped, unacked, confirmed>>
        /\ ctl = "flush"
        /\ ctl' = IF unacked >= AckBatch THEN "batch" ELSE "reply"
    BY <1>9 DEF FlushBatch
  <2>2. unacked >= AckBatch => head > 0
    BY <1>2, ControlAssumption DEF UnackedReceived
  <2>3. CASE FlushPending
    <3>1. /\ [Next]_logVars /\ UNCHANGED <<head, up>> /\ up /\ pc' = "idle"
          /\ pending_commit # NoCommit /\ pending_commit' = NoCommit
          /\ durable'.valid /\ durable'.lsn = pending_commit[2]
      BY <2>3, PublishEffect
    <3>2. durable'.lsn \in Nat /\ durable.lsn <= durable'.lsn
      BY <1>2, <3>1, MarkNeverBack
    <3>3. Rest
      BY <1>1, <1>2, <2>1, <3>1, <3>2
      DEF ControlModes, Received, LastIsPending, UnackedReceived, AckIsMark, BatchIsDurable,
          ControlGone
    <3> QED
      BY <1>3, <3>1, <3>3
  <2>4. CASE pc = "idle" /\ pending_commit = NoCommit /\ UNCHANGED logVars
    <3>1. up
      BY <1>2, <2>1 DEF ControlModes, ControlGone
    <3>2. Rest
      BY <1>1, <1>2, <2>1, <2>2, <2>4, <3>1
      DEF ControlModes, Received, LastIsPending, UnackedReceived, AckIsMark, BatchIsDurable,
          ControlGone, logVars
    <3> QED
      BY <1>3, <2>4, <3>2
  <2> QED
    BY <1>9, <2>3, <2>4 DEF FlushBatch
<1>10. CASE SendStatus
  <2>1. /\ UNCHANGED <<logVars, markers, row_sent, mapped>>
        /\ confirmed' = durable.lsn /\ unacked' = 0 /\ ctl' = "streaming"
        /\ ctl \in {"batch", "reply"}
    BY <1>10, AckPositionIsMark DEF SendStatus
  <2>2. Rest
    BY <1>1, <1>2, <2>1
    DEF ControlModes, Received, LastIsPending, UnackedReceived, AckIsMark, BatchIsDurable,
        ControlGone, logVars
  <2> QED
    BY <1>3, <2>1, <2>2
<1>11. CASE StopControl
  <2>1. /\ UNCHANGED <<logVars, markers, row_sent, mapped, unacked>>
        /\ confirmed' \in {durable.lsn, confirmed} /\ ctl' = "stopped"
        /\ ctl = "streaming" /\ pc = "idle"
    BY <1>11, AckPositionIsMark DEF StopControl
  <2>2. Rest
    BY <1>1, <1>2, <2>1
    DEF ControlModes, Received, LastIsPending, UnackedReceived, AckIsMark, BatchIsDurable,
        ControlGone, logVars
  <2> QED
    BY <1>3, <2>1, <2>2
<1>12. CASE ControlConnectionLost
  <2>1. /\ [Next]_logVars /\ UNCHANGED <<head, durable>>
        /\ ~up' /\ pc' = "idle" /\ pending_commit' = NoCommit
    BY <1>12, KillEffect DEF ControlConnectionLost
  <2>2. UNCHANGED <<markers, row_sent, mapped, unacked, confirmed>> /\ ctl' = "failed"
    BY <1>12 DEF ControlConnectionLost
  <2>3. Rest
    BY <1>1, <1>2, <2>1, <2>2
    DEF ControlModes, Received, LastIsPending, UnackedReceived, AckIsMark, BatchIsDurable,
        ControlGone
  <2> QED
    BY <1>3, <2>1, <2>3
<1> QED
  BY <1>4, <1>5, <1>6, <1>7, <1>8, <1>9, <1>10, <1>11, <1>12 DEF ControlNext

LEMMA InitControl == ControlInit => ControlInv
<1> SUFFICES ASSUME ControlInit PROVE ControlInv
  OBVIOUS
<1>1. IInv
  BY InitIInv DEF ControlInit
<1>2. durable.lsn = 0 /\ head = 0 /\ pc = "idle" /\ up /\ pending_commit = NoCommit
  BY DEF ControlInit, Create, Empty, Unset
<1> QED
  BY <1>1, <1>2
  DEF ControlInit, ControlInv, ControlModes, Received, LastIsPending, UnackedReceived,
      AckIsMark, BatchIsDurable

\* The channel is not part of it.
LEMMA ControlStutter ==
    ASSUME ControlInv, UNCHANGED <<logVars, markers, row_sent, ctl, unacked, confirmed>>
    PROVE  ControlInv'
<1>1. IInv'
  BY NextIInv DEF ControlInv
<1>2. UNCHANGED <<durable, head, up, pc, pending_commit, markers, row_sent, ctl, unacked,
                  confirmed>>
  BY DEF logVars
<1>3. ControlGone' <=> ControlGone
  BY <1>2 DEF ControlGone
<1>4. ControlModes' /\ Received' /\ LastIsPending'
  BY <1>2, <1>3 DEF ControlInv, ControlModes, Received, LastIsPending
<1>5. UnackedReceived' /\ AckIsMark' /\ BatchIsDurable'
  BY <1>2 DEF ControlInv, UnackedReceived, AckIsMark, BatchIsDurable
<1> QED
  BY <1>1, <1>2, <1>4, <1>5 DEF ControlInv

\* PostgreSQL commits another transaction.
LEMMA ControlCommit ==
    ASSUME ControlInv, NEW n \in Nat, markers' = Append(markers, n),
           UNCHANGED <<logVars, row_sent, ctl, unacked, confirmed>>
    PROVE  ControlInv'
<1>0. IInv'
  BY NextIInv DEF ControlInv
<1>1. markers \in Seq(Nat) /\ Len(markers) \in Nat /\ head \in Nat
  BY ControlTypes DEF ControlInv
<1>2. markers' \in Seq(Nat) /\ Len(markers') = Len(markers) + 1
  BY <1>1
<1>3. Received'
  BY <1>1, <1>2 DEF ControlInv, Received, logVars
<1> QED
  BY <1>0, <1>1, <1>2, <1>3
  DEF ControlInv, ControlModes, LastIsPending, UnackedReceived, AckIsMark, BatchIsDurable,
      ControlGone, logVars

\* The process of the control task ends.
LEMMA ControlDies ==
    ASSUME ControlInv, ctl' \in {"stopped", "failed"},
           (up /\ (Kill \/ PowerLoss)) \/ (~up /\ UNCHANGED logVars),
           UNCHANGED <<markers, row_sent, unacked, confirmed>>
    PROVE  ControlInv'
<1>1. [Next]_logVars /\ UNCHANGED <<head, durable>> /\ ~up' /\ pc' = "idle"
  BY KillEffect DEF logVars, ControlInv, IInv, Modes
<1>2. pending_commit' = NoCommit
  BY KillEffect DEF logVars, ControlInv, IInv, Modes
<1>3. IInv'
  BY <1>1, NextIInv DEF ControlInv
<1> QED
  BY <1>1, <1>2, <1>3
  DEF ControlInv, ControlModes, Received, LastIsPending, UnackedReceived, AckIsMark,
      BatchIsDurable, ControlGone

\* What a step of the control task does that the writer can see.
LEMMA StreamEffect ==
    ASSUME ControlInv, ControlNext
    PROVE  /\ markers' = markers
           /\ \/ /\ head < Len(markers) /\ head' = head + 1
                 /\ ctl' = "map" /\ mapped' = mapped
              \/ /\ head' = head
                 /\ ctl = "map" /\ ctl' # "map" /\ mapped' = Append(mapped, Mapping(head))
              \/ /\ head' = head /\ mapped' = mapped
                 /\ ctl' # "map" \/ ctl' = ctl
<1>1. CASE ReceiveRow
  <2>1. PICK p \in Payload : AppendDeferred(FALSE, p)
    BY <1>1 DEF ReceiveRow
  <2>2. head' = head
    BY <2>1, ReceiveEffect
  <2> QED
    BY <1>1, <2>2 DEF ReceiveRow
<1>2. CASE ReceiveCommit
  <2>1. PICK p \in Payload : AppendDeferred(TRUE, p)
    BY <1>2 DEF ReceiveCommit
  <2>2. head' = head + 1
    BY <2>1, ReceiveEffect
  <2>3. head < Len(markers)
    BY <1>2 DEF ReceiveCommit, ControlInv, Received
  <2> QED
    BY <1>2, <2>2, <2>3 DEF ReceiveCommit
<1>3. CASE RollControlLog
  BY <1>3, PublishEffect DEF RollControlLog
<1>4. CASE MapCommit
  BY <1>4 DEF MapCommit, SendMapping, logVars
<1>5. CASE FlushBatch
  <2>1. head' = head
    BY <1>5, PublishEffect DEF FlushBatch, logVars
  <2> QED
    BY <1>5, <2>1 DEF FlushBatch
<1>6. CASE ReplyRequested \/ SendStatus \/ StopControl
  BY <1>6 DEF ReplyRequested, SendStatus, StopControl, logVars
<1>7. CASE ControlConnectionLost
  BY <1>7, KillEffect DEF ControlConnectionLost
<1> QED
  BY <1>1, <1>2, <1>3, <1>4, <1>5, <1>6, <1>7 DEF ControlNext

-----------------------------------------------------------------------------
(***************************************************************************)
(* The writer.                                                             *)
(***************************************************************************)
LedgerEntry == [sequence : Nat, source_lsn : Nat]

LEMMA EntryFields ==
    ASSUME NEW n \in Nat
    PROVE  EntryOf(n) \in LedgerEntry /\ EntryOf(n).sequence = n /\ EntryOf(n).source_lsn = n
BY DEF EntryOf, LedgerEntry

\* What WriterInv says of the types the steps below reason with.
LEMMA WriterTypes ==
    ASSUME WriterInv
    PROVE  /\ head \in Nat /\ head <= Len(markers)
           /\ markers \in Seq(Nat) /\ Len(markers) \in Nat /\ DOMAIN markers = 1..Len(markers)
           /\ ledger \in Seq(LedgerEntry) /\ Len(ledger) \in Nat
           /\ DOMAIN ledger = 1..Len(ledger)
           /\ view \in Seq(LedgerEntry) /\ Len(view) \in Nat /\ DOMAIN view = 1..Len(view)
           /\ Len(ledger) <= Len(markers)
<1>1. markers \in Seq(Nat) /\ head \in Nat /\ head <= Len(markers)
  BY ControlTypes DEF WriterInv, ControlInv, Received
<1>2. ledger \in Seq(LedgerEntry) /\ view \in Seq(LedgerEntry)
  BY DEF WriterInv, LedgerEntry
<1>3. Len(ledger) <= head
  BY DEF WriterInv, History
<1> QED
  BY <1>1, <1>2, <1>3

\* The ledger asks for the plan after its last entry's.
LEMMA NextIsNext ==
    ASSUME WriterInv
    PROVE  NextSequence(ledger) = Len(ledger) + 1
<1>1. ledger \in Seq(LedgerEntry) /\ Len(ledger) \in Nat
  BY WriterTypes
<1>2. CASE ledger = <<>>
  BY <1>2 DEF NextSequence
<1>3. CASE ledger # <<>>
  <2>1. Len(ledger) \in DOMAIN ledger
    BY <1>1, <1>3
  <2>2. ledger[Len(ledger)] = EntryOf(Len(ledger))
    BY <2>1 DEF WriterInv, History
  <2>3. Last(ledger).sequence = Len(ledger)
    BY <1>1, <2>2, EntryFields DEF Last
  <2> QED
    BY <1>3, <2>3 DEF NextSequence
<1> QED
  BY <1>2, <1>3

\* PostgreSQL has a plan's marker exactly when it has committed that many.
LEMMA MarkedIsCommitted ==
    ASSUME WriterInv, NEW n \in Nat \ {0}
    PROVE  Marked(n) <=> n <= Len(markers)
<1>1. /\ Len(markers) \in Nat /\ DOMAIN markers = 1..Len(markers)
      /\ \A t \in DOMAIN markers : markers[t] = t
  BY WriterTypes DEF WriterInv, History
<1> QED
  BY <1>1 DEF Marked

\* Everything of WriterInv but the control stream's part.
WriterRest ==
    /\ ledger \in Seq(LedgerEntry)
    /\ view \in Seq(LedgerEntry)
    /\ History
    /\ Working
    /\ CommitIsNext
    /\ MappingIsNext
    /\ LineIsNext
    /\ ViewFollows
    /\ NothingRefused

LEMMA WriterParts == ControlInv' /\ WriterRest' => WriterInv'
BY DEF WriterInv, WriterRest, LedgerEntry

\* Steps that touch neither the control stream nor the ledger: where the writer
\* is, what it works on and the COMMIT under way may change.
LEMMA CallKeeps ==
    ASSUME WriterInv, UNCHANGED <<controlVars, ledger, view, refused, tail, entry>>,
           stash' = {}, Working', CommitIsNext',
           wpc' # wpc => wpc \notin {"append", "dead"} /\ wpc' # "append"
    PROVE  WriterInv'
<1>1. /\ UNCHANGED <<head, markers, row_sent, ctl, mapped, unacked, confirmed>>
      /\ UNCHANGED logVars
  BY DEF controlVars, logVars
<1>2. ControlInv'
  BY <1>1, ControlStutter DEF WriterInv
<1>3. /\ ledger' \in Seq(LedgerEntry) /\ view' \in Seq(LedgerEntry)
      /\ ViewFollows' /\ NothingRefused'
  BY <1>1, WriterTypes DEF WriterInv, ViewFollows, NothingRefused
<1>4. Resolved' <=> Resolved
  BY <1>1 DEF Resolved
<1>5. History'
  BY <1>1, <1>4 DEF WriterInv, History
<1>6. MappingIsNext'
  BY <1>1, <1>4 DEF WriterInv, MappingIsNext
<1>7. LineIsNext'
  BY <1>1, <1>4 DEF WriterInv, LineIsNext
<1> QED
  BY <1>2, <1>3, <1>5, <1>6, <1>7, WriterParts DEF WriterRest

LEMMA BeginKeeps ==
    ASSUME WriterInv, ExecuteAndRecord \/ SubmitPlan \/ RecoverAndRecord
    PROVE  WriterInv'
<1>1. /\ wpc = "idle" /\ wpc' \in {"operations", "recover"}
      /\ current' = Len(ledger) + 1
      /\ UNCHANGED <<controlVars, commit, stash, entry, tail, ledger, view, refused>>
  BY NextIsNext
  DEF ExecuteAndRecord, SubmitPlan, Begin, NextPlan, RecoverAndRecord
<1>2. Working'
  BY <1>1 DEF Working
<1>3. CommitIsNext'
  BY <1>1 DEF WriterInv, CommitIsNext, Resolved, controlVars
<1> QED
  BY <1>1, <1>2, <1>3, CallKeeps DEF WriterInv, MappingIsNext

LEMMA NewWriterKeeps ==
    ASSUME WriterInv, NewWriter
    PROVE  WriterInv'
<1>1. /\ stash' = {}
      /\ UNCHANGED <<controlVars, commit, wpc, current, entry, tail, ledger, view, refused>>
  BY DEF NewWriter
<1>2. Working'
  BY <1>1 DEF WriterInv, Working, Resolved, controlVars, logVars
<1>3. CommitIsNext'
  BY <1>1 DEF WriterInv, CommitIsNext, Resolved, controlVars
<1> QED
  BY <1>1, <1>2, <1>3, CallKeeps

\* The marker's primary key: a COMMIT is sent for a plan that PostgreSQL does
\* not have and no other session is about to give it.
LEMMA SendCommitKeeps ==
    ASSUME WriterInv, SendCommit
    PROVE  WriterInv'
<1>1. /\ wpc = "operations" /\ wpc' = "commit" /\ ~Marked(current)
      /\ commit' = [plan |-> current, live |-> TRUE]
      /\ UNCHANGED <<controlVars, current, stash, entry, tail, ledger, view, refused>>
  BY DEF SendCommit
<1>2. current = Len(ledger) + 1 /\ Len(ledger) \in Nat
  BY <1>1, WriterTypes DEF WriterInv, Working
<1>3. ~Resolved
  BY <1>1, <1>2, MarkedIsCommitted DEF Resolved
<1>4. Working'
  BY <1>1, <1>2 DEF Working
<1>5. CommitIsNext'
  BY <1>1, <1>2, <1>3 DEF CommitIsNext, Resolved, controlVars
<1> QED
  BY <1>1, <1>4, <1>5, CallKeeps DEF WriterInv, MappingIsNext

LEMMA SqlFailsKeeps ==
    ASSUME WriterInv, SqlFails
    PROVE  WriterInv'
<1>1. /\ wpc = "operations" /\ wpc' \in {"idle", "recover"}
      /\ UNCHANGED <<controlVars, commit, current, stash, entry, tail, ledger, view, refused>>
  BY DEF SqlFails, AfterSqlError
<1>2. Working'
  BY <1>1 DEF WriterInv, Working
<1>3. CommitIsNext'
  BY <1>1 DEF WriterInv, CommitIsNext, Resolved, controlVars
<1> QED
  BY <1>1, <1>2, <1>3, CallKeeps DEF WriterInv, MappingIsNext

\* A lost session's COMMIT may still be executed.
LEMMA LoseConnectionKeeps ==
    ASSUME WriterInv, LoseConnection
    PROVE  WriterInv'
<1>1. /\ wpc \in {"operations", "commit"} => wpc' \in {"idle", "recover"}
      /\ wpc \notin {"operations", "commit"} => wpc' = wpc
      /\ commit.live => commit' \in {[commit EXCEPT !.live = FALSE], NoLiveCommit}
      /\ ~commit.live => commit' = commit
      /\ UNCHANGED <<controlVars, current, stash, entry, tail, ledger, view, refused>>
  BY DEF LoseConnection, AfterSqlError
<1>2. Working'
  BY <1>1 DEF WriterInv, Working, Resolved, controlVars, logVars
<1>3. /\ commit' \in [plan : Nat, live : BOOLEAN] /\ ~commit'.live
      /\ commit'.plan \in {commit.plan, 0} /\ wpc' # "commit"
  <2>1. commit \in [plan : Nat, live : BOOLEAN] /\ (commit.live <=> wpc = "commit")
    BY DEF WriterInv, CommitIsNext
  <2>2. CASE commit.live
    <3>1. CASE commit' = [commit EXCEPT !.live = FALSE]
      <4>1. commit'.live = FALSE /\ commit'.plan = commit.plan
            /\ commit' \in [plan : Nat, live : BOOLEAN]
        BY <2>1, <3>1
      <4> QED
        BY <1>1, <2>1, <2>2, <4>1
    <3>2. CASE commit' = NoLiveCommit
      BY <1>1, <2>1, <2>2, <3>2 DEF NoLiveCommit
    <3> QED
      BY <1>1, <2>2, <3>1, <3>2
  <2>3. CASE ~commit.live
    BY <1>1, <2>1, <2>3
  <2> QED
    BY <2>2, <2>3
<1>4. CommitIsNext'
  BY <1>1, <1>3 DEF WriterInv, CommitIsNext, Resolved, controlVars
<1> QED
  BY <1>1, <1>2, <1>4, CallKeeps DEF WriterInv, MappingIsNext

LEMMA RollBackKeeps ==
    ASSUME WriterInv, RollBack
    PROVE  WriterInv'
<1>1. /\ ~commit.live /\ commit' = NoLiveCommit
      /\ UNCHANGED <<controlVars, wpc, current, stash, entry, tail, ledger, view, refused>>
  BY DEF RollBack
<1>2. Working'
  BY <1>1 DEF WriterInv, Working, Resolved, controlVars, logVars
<1>3. CommitIsNext'
  BY <1>1 DEF WriterInv, CommitIsNext, NoLiveCommit
<1> QED
  BY <1>1, <1>2, <1>3, CallKeeps DEF WriterInv, MappingIsNext

LEMMA RecoverKeeps ==
    ASSUME WriterInv, Recover
    PROVE  WriterInv'
<1>1. /\ wpc = "recover" /\ wpc' \in {"mapping", "idle"}
      /\ wpc' = "mapping" => Marked(current)
      /\ UNCHANGED <<controlVars, commit, current, stash, entry, tail, ledger, view, refused>>
  BY DEF Recover, Classify
<1>2. current = Len(ledger) + 1 /\ Len(ledger) \in Nat /\ Len(markers) \in Nat
  BY <1>1, WriterTypes DEF WriterInv, Working
<1>3. Marked(current) => Resolved
  BY <1>2, MarkedIsCommitted DEF WriterInv, History, Resolved
<1>4. Working'
  BY <1>1, <1>2, <1>3 DEF Working, Resolved, controlVars
<1>5. CommitIsNext'
  BY <1>1 DEF WriterInv, CommitIsNext, Resolved, controlVars
<1> QED
  BY <1>1, <1>4, <1>5, CallKeeps DEF WriterInv, MappingIsNext

LEMMA MapperStoppedKeeps ==
    ASSUME WriterInv, MapperStopped
    PROVE  WriterInv'
<1>1. /\ wpc = "mapping" /\ wpc' = "failed"
      /\ UNCHANGED <<controlVars, commit, current, stash, entry, tail, ledger, view, refused>>
  BY DEF MapperStopped
<1>2. Working'
  BY <1>1 DEF WriterInv, Working
<1>3. CommitIsNext'
  BY <1>1 DEF WriterInv, CommitIsNext, Resolved, controlVars
<1> QED
  BY <1>1, <1>2, <1>3, CallKeeps DEF WriterInv, MappingIsNext

\* PostgreSQL executes a COMMIT, of the session that waits for it or of a lost
\* one: the plan after the ledger's last is now committed.
LEMMA CommitKeeps ==
    ASSUME WriterInv, Commit
    PROVE  WriterInv'
<1>1. /\ commit.plan # 0 /\ commit' = NoLiveCommit
      /\ markers' = Append(markers, commit.plan)
      /\ UNCHANGED <<logVars, row_sent, ctl, mapped, unacked, confirmed>>
      /\ UNCHANGED <<current, stash, entry, tail, ledger, view, refused>>
      /\ ~commit.live => wpc' = wpc
      /\ commit.live => wpc' \in {"idle", "mapping"}
  BY DEF Commit
<1>2. /\ commit.plan = Len(ledger) + 1 /\ ~Resolved
      /\ commit.live <=> wpc = "commit"
  BY <1>1 DEF WriterInv, CommitIsNext
<1>3. /\ Len(ledger) \in Nat /\ Len(markers) \in Nat /\ markers \in Seq(Nat)
      /\ head \in Nat /\ head <= Len(markers) /\ DOMAIN markers = 1..Len(markers)
      /\ Len(markers) = Len(ledger)
  BY <1>2, WriterTypes DEF WriterInv, History
<1>4. ControlInv'
  BY <1>1, <1>2, <1>3, ControlCommit DEF WriterInv
<1>5. /\ Len(markers') = Len(ledger') + 1 /\ DOMAIN markers' = 1..(Len(markers) + 1)
      /\ \A t \in DOMAIN markers' : markers'[t] = t
      /\ Resolved'
  <2>1. /\ Len(markers') = Len(markers) + 1 /\ DOMAIN markers' = 1..(Len(markers) + 1)
        /\ markers'[Len(markers) + 1] = commit.plan
        /\ \A t \in 1..Len(markers) : markers'[t] = markers[t]
    BY <1>1, <1>2, <1>3
  <2>2. \A t \in 1..Len(markers) : markers[t] = t
    BY <1>3 DEF WriterInv, History
  <2>3. \A t \in DOMAIN markers' : markers'[t] = t
    BY <1>2, <1>3, <2>1, <2>2
  <2>4. Len(markers') = Len(ledger') + 1
    BY <1>1, <1>3, <2>1
  <2> QED
    BY <2>1, <2>3, <2>4 DEF Resolved
<1>6. head' = head
  BY <1>1 DEF logVars
<1>7. History'
  BY <1>1, <1>5, <1>6 DEF WriterInv, History
<1>8. wpc \notin {"mapping", "append"} /\ (wpc = "commit" => current = Len(ledger) + 1)
  BY <1>2 DEF WriterInv, Working
<1>9. Working'
  BY <1>1, <1>2, <1>5, <1>8 DEF WriterInv, Working
<1>10. CommitIsNext'
  BY <1>1, <1>2 DEF CommitIsNext, NoLiveCommit
<1>11. mapped = <<>> /\ ctl # "map" /\ tail = "none"
  <2>1. mapped = <<>>
    BY <1>2 DEF WriterInv, MappingIsNext
  <2>2. ctl = "map" => head = Len(ledger) + 1
    BY DEF WriterInv, MappingIsNext
  <2>3. tail = "none"
    BY <1>2 DEF WriterInv, LineIsNext
  <2> QED
    BY <1>3, <2>1, <2>2, <2>3
<1>12. MappingIsNext' /\ LineIsNext'
  BY <1>1, <1>11 DEF WriterInv, MappingIsNext, LineIsNext
<1>13. ViewFollows' /\ NothingRefused' /\ ledger' \in Seq(LedgerEntry) /\ view' \in Seq(LedgerEntry)
  BY <1>1, <1>3, <1>5, WriterTypes DEF WriterInv, ViewFollows, NothingRefused
<1> QED
  BY <1>4, <1>7, <1>9, <1>10, <1>12, <1>13, WriterParts DEF WriterRest

\* What the arms of a mapping's comparison leave of it.
LEMMA CurrentMappingAppends ==
    ASSUME NEW m, NEW n,
           wpc' = CASE m.sequence = n -> "append"
                    [] m.sequence > n -> "mapping"
                    [] m.sequence < n -> "idle",
           m.sequence = n, n \in Nat
    PROVE  wpc' = "append"
OBVIOUS

\* The mapping received is the one waited for.
LEMMA WaitForMappingKeeps ==
    ASSUME WriterInv, WaitForMapping
    PROVE  WriterInv'
<1> DEFINE n == Len(ledger) + 1
<1>1. /\ wpc = "mapping" /\ stash = {} /\ current = n /\ n \in Nat
  BY WriterTypes DEF WaitForMapping, WriterInv, Working, MappingIsNext
<1>2. ~(\E m \in stash : m.sequence = current)
  BY <1>1
<1>3. /\ mapped # <<>> /\ mapped' = Tail(mapped)
      /\ entry' = IF Head(mapped).sequence = current THEN Head(mapped) ELSE entry
      /\ stash' = IF Head(mapped).sequence > current THEN stash \union {Head(mapped)} ELSE stash
      /\ refused' = (refused \/ Head(mapped).sequence < current)
      /\ Head(mapped).sequence = current => wpc' = "append"
      /\ UNCHANGED <<logVars, markers, row_sent, ctl, unacked, confirmed>>
      /\ UNCHANGED <<commit, current, tail, ledger, view>>
  <2>1. /\ UNCHANGED <<logVars, markers, row_sent, ctl, unacked, confirmed, seed, intents, conn,
                        commit, current, submitted, tail, ledger, view>>
        /\ mapped # <<>> /\ mapped' = Tail(mapped)
        /\ LET m == Head(mapped) IN
             /\ entry' = IF m.sequence = current THEN m ELSE entry
             /\ stash' = IF m.sequence > current THEN stash \union {m} ELSE stash
             /\ refused' = (refused \/ m.sequence < current)
             /\ wpc' = CASE m.sequence = current -> "append"
                         [] m.sequence > current -> "mapping"
                         [] m.sequence < current -> "idle"
    BY <1>2 DEF WaitForMapping
  <2> QED
    BY <1>1, <2>1, CurrentMappingAppends
<1>4. /\ mapped = <<EntryOf(n)>> /\ Resolved /\ head = Len(markers) /\ ctl # "map"
  BY <1>3 DEF WriterInv, MappingIsNext
<1>5. Head(mapped) = EntryOf(n) /\ Tail(mapped) = <<>>
  BY <1>4
<1>6. Head(mapped).sequence = n
  BY <1>1, <1>5, EntryFields
<1> HIDE DEF n
<1>7. /\ mapped' = <<>> /\ entry' = EntryOf(n) /\ stash' = {} /\ ~refused'
      /\ wpc' = "append"
  <2>1. ~refused
    BY DEF WriterInv, NothingRefused
  <2>2. ~(n < n) /\ ~(n > n)
    BY <1>1
  <2>3. mapped' = <<>> /\ entry' = EntryOf(n) /\ stash' = {} /\ wpc' = "append"
    BY <1>1, <1>3, <1>5, <1>6, <2>2
  <2> QED
    <3>1. ~(Head(mapped).sequence < current)
      BY <1>1, <1>6, <2>2
    <3> QED
      BY <1>3, <2>1, <2>3, <3>1, Zenon
<1>8. head' = head /\ n' = n
  BY <1>3 DEF logVars, n
<1>9. ControlInv'
  BY <1>3, ControlStutter DEF WriterInv
<1>10. History' /\ ViewFollows' /\ NothingRefused' /\ Resolved'
  BY <1>3, <1>4, <1>7, <1>8 DEF WriterInv, History, ViewFollows, NothingRefused, Resolved
<1>11. Working'
  BY <1>1, <1>3, <1>4, <1>7, <1>8, <1>10 DEF Working, n
<1>12. CommitIsNext'
  BY <1>1, <1>3, <1>7 DEF WriterInv, CommitIsNext, Resolved
<1>13. tail = "none"
  BY <1>1 DEF WriterInv, LineIsNext
<1>14. MappingIsNext' /\ LineIsNext'
  BY <1>3, <1>4, <1>7, <1>13 DEF MappingIsNext, LineIsNext
<1>15. ledger' \in Seq(LedgerEntry) /\ view' \in Seq(LedgerEntry)
  BY <1>3, WriterTypes
<1> QED
  BY <1>9, <1>10, <1>11, <1>12, <1>14, <1>15, WriterParts DEF WriterRest

\* The entry has its place: the line is begun, or its JSON is complete.
LEMMA AppendBeginsKeeps ==
    ASSUME WriterInv, AppendStarts \/ AppendWrites
    PROVE  WriterInv'
<1>1. /\ wpc = "append" /\ entry = EntryOf(Len(ledger) + 1) /\ Resolved
      /\ current = Len(ledger) + 1
  BY DEF AppendStarts, AppendWrites, WriterInv, Working
<1>2. entry.sequence = NextSequence(ledger)
  BY <1>1, EntryFields, NextIsNext, WriterTypes
<1>3. /\ tail' \in {"partial", "json"} /\ wpc' = wpc /\ refused' = refused
      /\ UNCHANGED <<controlVars, commit, current, stash, entry, ledger, view>>
  BY <1>2 DEF AppendStarts, AppendWrites
<1>4. UNCHANGED <<logVars, markers, row_sent, ctl, mapped, unacked, confirmed>>
  BY <1>3 DEF controlVars
<1>5. ControlInv'
  BY <1>4, ControlStutter DEF WriterInv
<1>6. head' = head
  BY <1>4 DEF logVars
<1>7. Resolved' /\ History' /\ Working' /\ ViewFollows' /\ NothingRefused'
  BY <1>1, <1>3, <1>4, <1>6
  DEF Resolved, WriterInv, History, Working, ViewFollows, NothingRefused
<1>8. CommitIsNext' /\ MappingIsNext'
  BY <1>3, <1>4, <1>6 DEF Resolved, WriterInv, CommitIsNext, MappingIsNext
<1>9. LineIsNext'
  BY <1>1, <1>3, <1>7 DEF LineIsNext
<1>10. ledger' \in Seq(LedgerEntry) /\ view' \in Seq(LedgerEntry)
  BY <1>3, WriterTypes
<1> QED
  BY <1>5, <1>7, <1>8, <1>9, <1>10, WriterParts DEF WriterRest

LEMMA AppendEndsKeeps ==
    ASSUME WriterInv, AppendEnds
    PROVE  WriterInv'
<1>1. /\ wpc = "append" /\ entry = EntryOf(Len(ledger) + 1) /\ Resolved
      /\ current = Len(ledger) + 1 /\ head = Len(markers)
  BY DEF AppendEnds, WriterInv, Working
<1>2. /\ tail' = "none" /\ wpc' = "idle" /\ ledger' = Append(ledger, entry)
      /\ UNCHANGED <<controlVars, commit, current, stash, entry, view, refused>>
  BY DEF AppendEnds
<1>3. UNCHANGED <<logVars, markers, row_sent, ctl, mapped, unacked, confirmed>>
  BY <1>2 DEF controlVars
<1>4. ControlInv' /\ head' = head
  BY <1>3, ControlStutter DEF WriterInv, logVars
<1>5. /\ ledger \in Seq(LedgerEntry) /\ Len(ledger) \in Nat /\ entry \in LedgerEntry
      /\ DOMAIN ledger = 1..Len(ledger) /\ Len(view) \in Nat
  BY <1>1, WriterTypes, EntryFields
<1>6. /\ ledger' \in Seq(LedgerEntry) /\ Len(ledger') = Len(ledger) + 1
      /\ DOMAIN ledger' = 1..(Len(ledger) + 1)
      /\ \A i \in 1..Len(ledger) : ledger'[i] = ledger[i]
      /\ ledger'[Len(ledger) + 1] = entry
  BY <1>2, <1>5
<1>7. \A i \in DOMAIN ledger' : ledger'[i] = EntryOf(i)
  <2>1. \A i \in 1..Len(ledger) : ledger[i] = EntryOf(i)
    BY <1>5 DEF WriterInv, History
  <2> QED
    BY <1>1, <1>5, <1>6, <2>1
<1>8. History'
  BY <1>1, <1>3, <1>4, <1>6, <1>7 DEF WriterInv, History, Resolved
<1>9. ~commit.live /\ commit.plan = 0
  BY <1>1 DEF WriterInv, CommitIsNext
<1>10. Working' /\ CommitIsNext' /\ LineIsNext'
  BY <1>2, <1>9 DEF WriterInv, Working, CommitIsNext, LineIsNext
<1>11. MappingIsNext'
  BY <1>1, <1>2, <1>3 DEF WriterInv, MappingIsNext
<1>12. ViewFollows' /\ NothingRefused' /\ view' \in Seq(LedgerEntry)
  BY <1>2, <1>3, <1>5, <1>6, WriterTypes DEF WriterInv, ViewFollows, NothingRefused
<1> QED
  BY <1>4, <1>6, <1>8, <1>10, <1>11, <1>12, WriterParts DEF WriterRest

\* A reader takes the complete lines, and the last one when its JSON is whole.
LEMMA RefreshKeeps ==
    ASSUME WriterInv, Refresh
    PROVE  WriterInv'
<1>1. /\ view' = ledger \o Unterminated
      /\ UNCHANGED <<controlVars, commit, wpc, current, stash, entry, tail, ledger, refused>>
  BY DEF Refresh
<1>2. UNCHANGED <<logVars, markers, row_sent, ctl, mapped, unacked, confirmed>>
  BY <1>1 DEF controlVars
<1>3. ControlInv' /\ head' = head
  BY <1>2, ControlStutter DEF WriterInv, logVars
<1>4. /\ ledger \in Seq(LedgerEntry) /\ Len(ledger) \in Nat /\ DOMAIN ledger = 1..Len(ledger)
      /\ Len(ledger) <= Len(markers) /\ Len(markers) \in Nat
      /\ \A i \in DOMAIN ledger : ledger[i] = EntryOf(i)
  BY WriterTypes DEF WriterInv, History
<1>5. view' \in Seq(LedgerEntry) /\ ViewFollows'
  <2>1. CASE tail # "json"
    <3>1. view' = ledger
      BY <1>1, <1>4, <2>1 DEF Unterminated
    <3> QED
      BY <1>1, <1>2, <1>4, <3>1 DEF ViewFollows
  <2>2. CASE tail = "json"
    <3>1. Resolved /\ entry = EntryOf(Len(ledger) + 1)
      BY <2>2 DEF WriterInv, LineIsNext
    <3>2. entry \in LedgerEntry
      BY <1>4, <3>1, EntryFields
    <3>3. view' = ledger \o <<entry>> /\ <<entry>> \in Seq(LedgerEntry) /\ Len(<<entry>>) = 1
      BY <1>1, <2>2, <3>2 DEF Unterminated
    <3>4. /\ view' \in Seq(LedgerEntry) /\ Len(view') = Len(ledger) + 1
          /\ DOMAIN view' = 1..(Len(ledger) + 1)
          /\ \A i \in 1..Len(ledger) : view'[i] = ledger[i]
          /\ view'[Len(ledger) + 1] = entry
      BY <1>4, <3>2, <3>3
    <3>5. \A i \in DOMAIN view' : view'[i] = EntryOf(i)
      BY <1>4, <3>1, <3>4
    <3> QED
      BY <1>1, <1>2, <1>4, <3>1, <3>4, <3>5 DEF ViewFollows, Resolved
  <2> QED
    BY <2>1, <2>2
<1>6. History' /\ Working' /\ NothingRefused'
  BY <1>1, <1>2, <1>3 DEF WriterInv, History, Working, NothingRefused, Resolved
<1>7. CommitIsNext' /\ MappingIsNext' /\ LineIsNext'
  BY <1>1, <1>2, <1>3 DEF WriterInv, CommitIsNext, MappingIsNext, LineIsNext, Resolved
<1> QED
  BY <1>1, <1>3, <1>4, <1>5, <1>6, <1>7, WriterParts DEF WriterRest

LEMMA DieKeeps ==
    ASSUME WriterInv, Die
    PROVE  WriterInv'
<1>1. /\ (up /\ (Kill \/ PowerLoss)) \/ (~up /\ UNCHANGED logVars)
      /\ ctl' \in {"stopped", "failed"}
      /\ mapped' = <<>> /\ wpc' = "dead" /\ tail' \in {tail, "none"} /\ view' = <<>>
      /\ commit' = [commit EXCEPT !.live = FALSE]
      /\ UNCHANGED <<markers, row_sent, unacked, confirmed>>
      /\ UNCHANGED <<current, stash, entry, ledger, refused>>
  BY DEF Die
<1>2. ControlInv'
  BY <1>1, ControlDies DEF WriterInv
<1>3. head' = head
  BY <1>1, KillEffect DEF logVars
<1>4. /\ commit' \in [plan : Nat, live : BOOLEAN] /\ commit'.plan = commit.plan
      /\ ~commit'.live
  BY <1>1 DEF WriterInv, CommitIsNext
<1>5. Resolved' <=> Resolved
  BY <1>1 DEF Resolved
<1>6. History' /\ Working' /\ NothingRefused'
  BY <1>1, <1>3, <1>5 DEF WriterInv, History, Working, NothingRefused
<1>7. CommitIsNext' /\ MappingIsNext' /\ LineIsNext'
  BY <1>1, <1>3, <1>4, <1>5 DEF WriterInv, CommitIsNext, MappingIsNext, LineIsNext
<1>8. /\ ledger' \in Seq(LedgerEntry) /\ view' \in Seq(LedgerEntry) /\ Len(view') = 0
      /\ Len(ledger') \in Nat /\ Len(markers') \in Nat
  BY <1>1, WriterTypes
<1>9. ViewFollows'
  BY <1>1, <1>8 DEF ViewFollows
<1> QED
  BY <1>2, <1>6, <1>7, <1>8, <1>9, WriterParts DEF WriterRest

\* The control task's steps: what the channel holds is the next mapping.
LEMMA StreamKeeps ==
    ASSUME WriterInv, Stream
    PROVE  WriterInv'
<1>1. /\ ControlInv /\ ControlNext
      /\ UNCHANGED <<commit, wpc, current, stash, entry, tail, ledger, view, refused>>
  BY DEF Stream, writerVars, WriterInv
<1>2. ControlInv' /\ markers' = markers
  BY <1>1, ControlKeeps, StreamEffect
<1>3. Resolved' <=> Resolved
  BY <1>1, <1>2 DEF Resolved
<1>4. /\ head \in Nat /\ Len(markers) \in Nat /\ Len(ledger) \in Nat /\ head <= Len(markers)
      /\ Len(ledger) <= head /\ Len(markers) <= Len(ledger) + 1
  BY WriterTypes DEF WriterInv, History, Resolved
<1>5. CommitIsNext' /\ LineIsNext' /\ ViewFollows' /\ NothingRefused'
      /\ ledger' \in Seq(LedgerEntry) /\ view' \in Seq(LedgerEntry)
  BY <1>1, <1>2, <1>3, WriterTypes
  DEF WriterInv, CommitIsNext, LineIsNext, ViewFollows, NothingRefused
<1>6. CASE head < Len(markers) /\ head' = head + 1 /\ ctl' = "map" /\ mapped' = mapped
  <2>1. mapped = <<>> /\ wpc # "append" /\ stash = {}
    BY <1>4, <1>6 DEF WriterInv, MappingIsNext, Working
  <2>2. head' = Len(ledger) + 1
    BY <1>4, <1>6
  <2>3. History' /\ Working' /\ MappingIsNext'
    BY <1>1, <1>2, <1>3, <1>4, <1>6, <2>1, <2>2 DEF WriterInv, History, Working, MappingIsNext
  <2> QED
    BY <1>2, <1>5, <2>3, WriterParts DEF WriterRest
<1>7. CASE head' = head /\ ctl = "map" /\ ctl' # "map" /\ mapped' = Append(mapped, Mapping(head))
  <2>1. mapped = <<>> /\ wpc # "append" /\ stash = {} /\ head = Len(ledger) + 1
    BY <1>7 DEF WriterInv, MappingIsNext
  <2>2. Resolved /\ head = Len(markers)
    BY <1>4, <2>1 DEF Resolved
  <2>3. markers[head] = head
    BY <1>4, <2>1, <2>2, WriterTypes DEF WriterInv, History
  <2>4. Mapping(head) = EntryOf(Len(ledger) + 1)
    BY <2>1, <2>3 DEF Mapping, EntryOf
  <2>5. mapped' = <<EntryOf(Len(ledger) + 1)>>
    BY <1>7, <2>1, <2>4
  <2>6. History' /\ Working'
    BY <1>1, <1>2, <1>3, <1>7 DEF WriterInv, History, Working
  <2>7. MappingIsNext'
    BY <1>1, <1>2, <1>3, <1>7, <2>1, <2>2, <2>5 DEF MappingIsNext
  <2> QED
    BY <1>2, <1>5, <2>6, <2>7, WriterParts DEF WriterRest
<1>8. CASE head' = head /\ mapped' = mapped /\ (ctl' # "map" \/ ctl' = ctl)
  <2>1. History' /\ Working'
    BY <1>1, <1>2, <1>3, <1>8 DEF WriterInv, History, Working
  <2>2. MappingIsNext'
    BY <1>1, <1>2, <1>3, <1>8 DEF WriterInv, MappingIsNext
  <2> QED
    BY <1>2, <1>5, <2>1, <2>2, WriterParts DEF WriterRest
<1> QED
  BY <1>1, <1>6, <1>7, <1>8, StreamEffect

LEMMA StutterKeeps ==
    ASSUME WriterInv, UNCHANGED wVars
    PROVE  WriterInv'
<1>1. UNCHANGED <<logVars, markers, row_sent, ctl, mapped, unacked, confirmed>>
  BY DEF wVars, controlVars
<1>2. UNCHANGED <<commit, wpc, current, stash, entry, tail, ledger, view, refused>>
  BY DEF wVars, writerVars
<1>3. ControlInv' /\ head' = head
  BY <1>1, ControlStutter DEF WriterInv, logVars
<1>4. History' /\ Working' /\ ViewFollows' /\ NothingRefused'
  BY <1>1, <1>2, <1>3 DEF WriterInv, History, Working, ViewFollows, NothingRefused, Resolved
<1>5. CommitIsNext' /\ MappingIsNext' /\ LineIsNext'
  BY <1>1, <1>2, <1>3 DEF WriterInv, CommitIsNext, MappingIsNext, LineIsNext, Resolved
<1>6. ledger' \in Seq(LedgerEntry) /\ view' \in Seq(LedgerEntry)
  BY <1>2, WriterTypes
<1> QED
  BY <1>3, <1>4, <1>5, <1>6, WriterParts DEF WriterRest

LEMMA WriterKeeps ==
    ASSUME WriterInv, [WriterNext]_wVars
    PROVE  WriterInv'
<1>1. CASE Stream \/ Call \/ Postgres
  BY <1>1, StreamKeeps, BeginKeeps, NewWriterKeeps, CommitKeeps, RollBackKeeps
  DEF Call, Postgres
<1>2. CASE WriterStep
  BY <1>2, SendCommitKeeps, SqlFailsKeeps, RecoverKeeps, WaitForMappingKeeps,
     MapperStoppedKeeps, AppendBeginsKeeps, AppendEndsKeeps
  DEF WriterStep
<1>3. CASE LoseConnection \/ Refresh \/ Die
  BY <1>3, LoseConnectionKeeps, RefreshKeeps, DieKeeps
<1>4. CASE UNCHANGED wVars
  BY <1>4, StutterKeeps
<1> QED
  BY <1>1, <1>2, <1>3, <1>4 DEF WriterNext

LEMMA InitWriter == WriterInit => WriterInv
<1> SUFFICES ASSUME WriterInit PROVE WriterInv
  OBVIOUS
<1>1. ControlInv /\ head = 0 /\ markers = <<>> /\ mapped = <<>> /\ ctl = "streaming"
  BY InitControl DEF WriterInit, ControlInit, Create, Empty
<1>2. ledger = <<>> /\ view = <<>>
  BY DEF WriterInit
<1>3. History /\ ViewFollows /\ ~Resolved
  BY <1>1, <1>2 DEF History, ViewFollows, Resolved
<1>4. Working /\ CommitIsNext /\ MappingIsNext /\ LineIsNext /\ NothingRefused
  BY <1>1
  DEF WriterInit, Working, CommitIsNext, MappingIsNext, LineIsNext, NothingRefused, NoLiveCommit
<1> QED
  BY <1>1, <1>2, <1>3, <1>4 DEF WriterInv

\* The invariant of the control stream and the writer.
THEOREM WriterInductive == WriterSpec => []WriterInv
BY InitWriter, WriterKeeps, PTL DEF WriterSpec

-----------------------------------------------------------------------------
(***************************************************************************)
(* What follows from it.                                                   *)
(***************************************************************************)
LEMMA WriterSafety ==
    ASSUME WriterInv
    PROVE  LedgerIsHistory /\ OneUnresolved /\ ReaderFollows /\ SlotIsCustody
<1>1. /\ Len(markers) \in Nat /\ DOMAIN markers = 1..Len(markers)
      /\ Len(ledger) \in Nat /\ DOMAIN ledger = 1..Len(ledger)
      /\ Len(view) \in Nat /\ DOMAIN view = 1..Len(view)
      /\ Len(ledger) <= Len(markers)
  BY WriterTypes
<1>2. /\ \A t \in DOMAIN markers : markers[t] = t
      /\ \A n \in DOMAIN ledger : ledger[n] = EntryOf(n)
      /\ \A n \in DOMAIN view : view[n] = EntryOf(n)
      /\ Len(view) <= Len(markers) /\ Len(view) <= Len(ledger) + 1
      /\ Len(markers) <= Len(ledger) + 1
  <2>1. History /\ ViewFollows
    BY DEF WriterInv
  <2>2. Len(markers) <= Len(ledger) + 1
    <3>1. Len(markers) = Len(ledger) \/ Resolved
      BY <2>1 DEF History
    <3>2. Len(markers) \in Nat /\ Len(ledger) \in Nat
      BY <1>1
    <3> QED
      BY <3>1, <3>2 DEF Resolved
  <2> QED
    BY <2>1, <2>2 DEF History, ViewFollows
<1>3. \A n \in DOMAIN markers : /\ EntryOf(n).sequence = n
                                /\ EntryOf(n).source_lsn \in DOMAIN markers
                                /\ markers[EntryOf(n).source_lsn] = n
  <2> SUFFICES ASSUME NEW n \in DOMAIN markers
               PROVE  /\ EntryOf(n).sequence = n /\ EntryOf(n).source_lsn = n
    BY <1>2
  <2>1. n \in Nat
    BY <1>1
  <2> QED
    BY <2>1, EntryFields
<1>4. LedgerIsHistory
  BY <1>1, <1>2, <1>3 DEF LedgerIsHistory
<1>5. ReaderFollows
  BY <1>1, <1>2, <1>3 DEF ReaderFollows
<1>6. SlotIsCustody
  <2>1. 1..confirmed \subseteq 1..durable.lsn
    BY ControlTypes DEF WriterInv, ControlInv, AckIsMark
  <2>2. IInv
    BY DEF WriterInv, ControlInv
  <2> QED
    BY <2>1, <2>2, CommitsStable DEF SlotIsCustody
<1> QED
  BY <1>2, <1>4, <1>5, <1>6 DEF OneUnresolved

\* The ledger is PostgreSQL's history up to a plan, whatever was submitted,
\* lost, recovered and tried again (execute_and_record, submit_plan,
\* recover_and_record).
THEOREM LedgerCorrect == WriterSpec => []LedgerIsHistory
BY WriterInductive, WriterSafety, PTL

\* Every plan commits at most once and in order, and at most one committed plan
\* is not yet in the ledger, although a lost session's COMMIT may be executed
\* at any later moment.
THEOREM NeverTwice == WriterSpec => []OneUnresolved
BY WriterInductive, WriterSafety, PTL

\* wait_for_mapping is never given an earlier plan's mapping, and no append
\* misses its place.
THEOREM NoRefusal == WriterSpec => []NothingRefused
<1>1. WriterInv => NothingRefused
  BY DEF WriterInv
<1> QED
  BY <1>1, WriterInductive, PTL

\* A reader of the ledger's file has a prefix of the history, whenever it reads.
THEOREM ReaderCorrect == WriterSpec => []ReaderFollows
BY WriterInductive, WriterSafety, PTL

\* What the control slot is acknowledged to is on disk, for every batch size.
THEOREM SlotCustody == WriterSpec => []SlotIsCustody
BY WriterInductive, WriterSafety, PTL

\* A batch's acknowledgement carries the commit just received.
THEOREM BatchCorrect == WriterSpec => []BatchIsDurable
<1>1. WriterInv => BatchIsDurable
  BY DEF WriterInv, ControlInv
<1> QED
  BY <1>1, WriterInductive, PTL
-----------------------------------------------------------------------------
(***************************************************************************)
(* The workload: what every planned operation is.                          *)
(***************************************************************************)
\* mix64 returns a number.
MixIsU64(s) == \A i \in Nat : Mix(s, i) \in Nat

Tables == {"customers", "orders", "order_events"}

Key == Tables \X (Nat \ {0})

Image == {"insert", "update", "delete"} \X Nat

\* A row's tenant follows from its key.
TenantOf(s, k) ==
    IF k[1] = "order_events" THEN MakeEvent(s, k[2] - 1).tenant
    ELSE MakeRow(k[1], s, k[2] - 1).tenant

Operations(s) ==
    {o \in [op : {"insert", "update", "delete"},
            row : [table : Tables, id : Nat \ {0}, tenant : Nat],
            image : Image] :
        /\ o.row.tenant = TenantOf(s, KeyOf(o))
        /\ o.op = o.image[1]}

LEMMA CycleSizes ==
    /\ TenantCount \in Nat \ {0} /\ InsertRows \in Nat \ {0} /\ UpdateRows \in Nat \ {0}
    /\ DeleteRows \in Nat \ {0} /\ EventInserts \in Nat \ {0} /\ OrderInserts \in Nat \ {0}
    /\ CustomerInserts \in Nat \ {0} /\ OrderUpdates \in Nat \ {0}
    /\ CustomerUpdates \in Nat \ {0} /\ OrderDeletes \in Nat \ {0}
    /\ EventDeletes \in Nat \ {0}
    /\ OperationCycle \in Nat \ {0} /\ InsertCycle \in Nat \ {0}
    /\ Sizes \in Seq(Nat) /\ Len(Sizes) \in Nat \ {0}
<1>1. Sizes \in Seq(Nat) /\ Sizes # <<>>
  BY CycleAssumption
<1>2. Len(Sizes) \in Nat \ {0}
  BY <1>1
<1>3. /\ TenantCount \in Nat \ {0} /\ InsertRows \in Nat \ {0} /\ UpdateRows \in Nat \ {0}
      /\ DeleteRows \in Nat \ {0} /\ EventInserts \in Nat \ {0} /\ OrderInserts \in Nat \ {0}
      /\ CustomerInserts \in Nat \ {0} /\ OrderUpdates \in Nat \ {0}
      /\ CustomerUpdates \in Nat \ {0} /\ OrderDeletes \in Nat \ {0}
      /\ EventDeletes \in Nat \ {0}
  BY CycleAssumption, Zenon
<1>4. OperationCycle \in Nat \ {0} /\ InsertCycle \in Nat \ {0}
  BY <1>3 DEF OperationCycle, InsertCycle
<1> QED
  BY <1>1, <1>2, <1>3, <1>4

LEMMA RowTenant ==
    ASSUME NEW s, MixIsU64(s), NEW i \in Nat
    PROVE  /\ \A table \in Tables : MakeRow(table, s, i) \in [table : {table}, id : {i + 1}, tenant : Nat]
           /\ MakeEvent(s, i) \in [table : {"order_events"}, id : {i + 1}, tenant : Nat]
<1>1. \A j \in Nat : Mix(s, j) % TenantCount \in Nat
  <2> SUFFICES ASSUME NEW j \in Nat PROVE Mix(s, j) % TenantCount \in Nat
    OBVIOUS
  <2>1. Mix(s, j) \in Nat /\ TenantCount \in Nat \ {0}
    BY CycleSizes DEF MixIsU64
  <2> QED
    BY <2>1
<1>2. TargetIndex(s, i, i + 1) \in Nat
  <2>1. Mix(s, i) \in Nat /\ i + 1 \in Nat \ {0}
    BY DEF MixIsU64
  <2> QED
    BY <2>1 DEF TargetIndex
<1>3. \A table \in Tables : \A j \in Nat :
        MakeRow(table, s, j) = [table |-> table, id |-> j + 1, tenant |-> Mix(s, j) % TenantCount]
  BY DEF MakeRow
<1>4. MakeEvent(s, i) = [table |-> "order_events", id |-> i + 1,
                         tenant |-> Mix(s, TargetIndex(s, i, i + 1)) % TenantCount]
  BY <1>2, <1>3 DEF MakeEvent, MakeRow, Tables
<1> QED
  BY <1>1, <1>2, <1>3, <1>4

\* The operation on an order or a customer, and on an event, that a plan makes.
LEMMA RowOperation ==
    ASSUME NEW s, MixIsU64(s), NEW i \in Nat, NEW image \in Image, NEW table \in Tables
    PROVE  /\ table # "order_events" => Operation(image[1], MakeRow(table, s, i), image) \in Operations(s)
           /\ Operation(image[1], MakeEvent(s, i), image) \in Operations(s)
<1>1. i + 1 \in Nat \ {0} /\ (i + 1) - 1 = i /\ image[1] \in {"insert", "update", "delete"}
  BY DEF Image
<1>2. /\ MakeRow(table, s, i) \in [table : {table}, id : {i + 1}, tenant : Nat]
      /\ MakeEvent(s, i) \in [table : {"order_events"}, id : {i + 1}, tenant : Nat]
  BY RowTenant
<1>3. table # "order_events" =>
         MakeRow(table, s, i).tenant = TenantOf(s, <<MakeRow(table, s, i).table, MakeRow(table, s, i).id>>)
  BY <1>1, <1>2 DEF TenantOf
<1>4. MakeEvent(s, i).tenant = TenantOf(s, <<MakeEvent(s, i).table, MakeEvent(s, i).id>>)
  BY <1>1, <1>2 DEF TenantOf
<1>5. ASSUME NEW row \in [table : Tables, id : Nat \ {0}, tenant : Nat],
             row.tenant = TenantOf(s, <<row.table, row.id>>)
      PROVE  Operation(image[1], row, image) \in Operations(s)
  BY <1>1, <1>5 DEF Operation, Operations, KeyOf
<1>6. "order_events" \in Tables
  BY DEF Tables
<1> QED
  BY <1>1, <1>2, <1>3, <1>4, <1>5, <1>6

\* Of a number split at a cycle's length, both parts are known.
LEMMA Split ==
    ASSUME NEW c1 \in Nat, NEW c2 \in Nat, NEW R \in Nat \ {0}, NEW s1 \in 0..(R - 1),
           NEW s2 \in 0..(R - 1), c1 * R + s1 = c2 * R + s2
    PROVE  c1 = c2 /\ s1 = s2
<1>1. \A a, b \in Nat : a < b => a * R + R <= b * R
  <2> SUFFICES ASSUME NEW a \in Nat, NEW b \in Nat, a < b PROVE a * R + R <= b * R
    OBVIOUS
  <2>1. PICK e \in Nat : b = a + 1 + e
    <3>1. b - a - 1 \in Nat /\ b = a + 1 + (b - a - 1)
      OBVIOUS
    <3> QED
      BY <3>1
  <2>2. b * R = a * R + R + e * R
    BY <2>1
  <2>3. e * R \in Nat /\ a * R \in Nat
    OBVIOUS
  <2> QED
    BY <2>2, <2>3
<1>2. c1 * R \in Nat /\ c2 * R \in Nat
  OBVIOUS
<1>3. ~(c1 < c2) /\ ~(c2 < c1)
  <2>1. c1 < c2 => c1 * R + R <= c2 * R
    BY <1>1
  <2>2. c2 < c1 => c2 * R + R <= c1 * R
    BY <1>1
  <2> QED
    BY <1>2, <2>1, <2>2
<1>4. c1 = c2
  BY <1>3
<1> QED
  BY <1>2, <1>4

LEMMA DivMod ==
    ASSUME NEW ordinal \in Nat, NEW R \in Nat \ {0}
    PROVE  /\ ordinal \div R \in Nat /\ ordinal % R \in 0..(R - 1)
           /\ ordinal = (ordinal \div R) * R + (ordinal % R)
OBVIOUS

\* What an operation's image names: the index it has among those of its kind.
ImageAt(ordinal) ==
    LET cycle == ordinal \div OperationCycle
        slot == ordinal % OperationCycle
    IN IF slot < InsertRows THEN <<"insert", cycle * InsertRows + slot>>
       ELSE IF slot < InsertRows + UpdateRows
            THEN <<"update", cycle * UpdateRows + slot - InsertRows>>
            ELSE <<"delete", cycle * DeleteRows + slot - InsertRows - UpdateRows>>

\* ImageAt by the cycle and the slot.
LEMMA ImageCases ==
    ASSUME NEW x \in Nat
    PROVE  \E cycle \in Nat : \E slot \in 0..(OperationCycle - 1) :
              /\ cycle = x \div OperationCycle /\ slot = x % OperationCycle
              /\ x = cycle * OperationCycle + slot
              /\ \/ /\ slot \in 0..(InsertRows - 1) /\ slot < InsertRows
                    /\ ImageAt(x) = <<"insert", cycle * InsertRows + slot>>
                 \/ /\ slot - InsertRows \in 0..(UpdateRows - 1)
                    /\ ~(slot < InsertRows) /\ slot < InsertRows + UpdateRows
                    /\ ImageAt(x) = <<"update", cycle * UpdateRows + (slot - InsertRows)>>
                 \/ /\ slot - InsertRows - UpdateRows \in 0..(DeleteRows - 1)
                    /\ ~(slot < InsertRows) /\ ~(slot < InsertRows + UpdateRows)
                    /\ ImageAt(x) = <<"delete", cycle * DeleteRows + (slot - InsertRows - UpdateRows)>>
<1> DEFINE cycle == x \div OperationCycle
           slot == x % OperationCycle
<1>1. /\ OperationCycle \in Nat \ {0} /\ InsertRows \in Nat \ {0} /\ UpdateRows \in Nat \ {0}
      /\ DeleteRows \in Nat \ {0} /\ OperationCycle = InsertRows + UpdateRows + DeleteRows
  BY CycleSizes DEF OperationCycle
<1>2. cycle \in Nat /\ slot \in 0..(OperationCycle - 1) /\ x = cycle * OperationCycle + slot
  BY <1>1, DivMod
<1>3. ImageAt(x) = IF slot < InsertRows THEN <<"insert", cycle * InsertRows + slot>>
                   ELSE IF slot < InsertRows + UpdateRows
                   THEN <<"update", cycle * UpdateRows + slot - InsertRows>>
                   ELSE <<"delete", cycle * DeleteRows + slot - InsertRows - UpdateRows>>
  BY DEF ImageAt
<1>4. cycle = x \div OperationCycle /\ slot = x % OperationCycle
  OBVIOUS
<1> HIDE DEF cycle, slot
<1>5. cycle * UpdateRows \in Nat /\ cycle * DeleteRows \in Nat
  BY <1>1, <1>2
<1>6. CASE slot < InsertRows
  <2>1. slot \in 0..(InsertRows - 1)
    BY <1>1, <1>2, <1>6
  <2>2. ImageAt(x) = <<"insert", cycle * InsertRows + slot>>
    BY <1>3, <1>6
  <2> QED
    BY <1>2, <1>4, <1>6, <2>1, <2>2
<1>7. CASE ~(slot < InsertRows) /\ slot < InsertRows + UpdateRows
  <2>1. slot - InsertRows \in 0..(UpdateRows - 1)
    BY <1>1, <1>2, <1>7
  <2>2. cycle * UpdateRows + slot - InsertRows = cycle * UpdateRows + (slot - InsertRows)
    BY <1>1, <1>2, <1>5
  <2> QED
    BY <1>2, <1>3, <1>4, <1>7, <2>1, <2>2
<1>8. CASE ~(slot < InsertRows) /\ ~(slot < InsertRows + UpdateRows)
  <2>1. slot - InsertRows - UpdateRows \in 0..(DeleteRows - 1)
    BY <1>1, <1>2, <1>8
  <2>2. cycle * DeleteRows + slot - InsertRows - UpdateRows
          = cycle * DeleteRows + (slot - InsertRows - UpdateRows)
    BY <1>1, <1>2, <1>5
  <2> QED
    BY <1>2, <1>3, <1>4, <1>8, <2>1, <2>2
<1> QED
  BY <1>6, <1>7, <1>8

\* No two operations have the same image.
LEMMA ImagesDiffer ==
    ASSUME NEW x \in Nat, NEW y \in Nat, ImageAt(x) = ImageAt(y)
    PROVE  x = y
<1>1. /\ OperationCycle \in Nat \ {0} /\ InsertRows \in Nat \ {0} /\ UpdateRows \in Nat \ {0}
      /\ DeleteRows \in Nat \ {0}
  BY CycleSizes
<1>2. PICK c1 \in Nat, s1 \in 0..(OperationCycle - 1) :
              /\ x = c1 * OperationCycle + s1
              /\ \/ /\ s1 \in 0..(InsertRows - 1)
                    /\ ImageAt(x) = <<"insert", c1 * InsertRows + s1>>
                 \/ /\ s1 - InsertRows \in 0..(UpdateRows - 1)
                    /\ ImageAt(x) = <<"update", c1 * UpdateRows + (s1 - InsertRows)>>
                 \/ /\ s1 - InsertRows - UpdateRows \in 0..(DeleteRows - 1)
                    /\ ImageAt(x) = <<"delete", c1 * DeleteRows + (s1 - InsertRows - UpdateRows)>>
  BY ImageCases
<1>3. PICK c2 \in Nat, s2 \in 0..(OperationCycle - 1) :
              /\ y = c2 * OperationCycle + s2
              /\ \/ /\ s2 \in 0..(InsertRows - 1)
                    /\ ImageAt(y) = <<"insert", c2 * InsertRows + s2>>
                 \/ /\ s2 - InsertRows \in 0..(UpdateRows - 1)
                    /\ ImageAt(y) = <<"update", c2 * UpdateRows + (s2 - InsertRows)>>
                 \/ /\ s2 - InsertRows - UpdateRows \in 0..(DeleteRows - 1)
                    /\ ImageAt(y) = <<"delete", c2 * DeleteRows + (s2 - InsertRows - UpdateRows)>>
  BY ImageCases
<1>4. s1 \in Int /\ s2 \in Int
  OBVIOUS
<1>5. c1 = c2 /\ s1 = s2
  <2>1. CASE ImageAt(x)[1] = "insert"
    <3>1. s1 \in 0..(InsertRows - 1) /\ s2 \in 0..(InsertRows - 1)
          /\ c1 * InsertRows + s1 = c2 * InsertRows + s2
      BY <1>2, <1>3, <2>1
    <3> QED
      BY <1>1, <3>1, Split
  <2>2. CASE ImageAt(x)[1] = "update"
    <3>1. s1 - InsertRows \in 0..(UpdateRows - 1) /\ s2 - InsertRows \in 0..(UpdateRows - 1)
          /\ c1 * UpdateRows + (s1 - InsertRows) = c2 * UpdateRows + (s2 - InsertRows)
      BY <1>2, <1>3, <2>2
    <3>2. c1 = c2 /\ s1 - InsertRows = s2 - InsertRows
      BY <1>1, <3>1, Split
    <3> QED
      BY <1>1, <1>4, <3>2
  <2>3. CASE ImageAt(x)[1] = "delete"
    <3>1. s1 - InsertRows - UpdateRows \in 0..(DeleteRows - 1)
          /\ s2 - InsertRows - UpdateRows \in 0..(DeleteRows - 1)
          /\ c1 * DeleteRows + (s1 - InsertRows - UpdateRows)
               = c2 * DeleteRows + (s2 - InsertRows - UpdateRows)
      BY <1>2, <1>3, <2>3
    <3>2. c1 = c2 /\ s1 - InsertRows - UpdateRows = s2 - InsertRows - UpdateRows
      BY <1>1, <3>1, Split
    <3> QED
      BY <1>1, <1>4, <3>2
  <2> QED
    BY <1>2, <2>1, <2>2, <2>3
<1> QED
  BY <1>2, <1>3, <1>5

LEMMA TargetsBefore ==
    ASSUME NEW ordinal \in Nat, NEW table \in {"orders", "customers"}
    PROVE  InsertTargetCountBefore(ordinal, table) \in Nat
<1>1. /\ OperationCycle \in Nat \ {0} /\ InsertRows \in Nat \ {0} /\ InsertCycle \in Nat \ {0}
      /\ EventInserts \in Nat \ {0} /\ OrderInserts \in Nat \ {0}
  BY CycleSizes
<1>2. InsertRowsBefore(ordinal) \in Nat
  <2>1. ordinal \div OperationCycle \in Nat /\ ordinal % OperationCycle \in Nat
    BY <1>1, DivMod
  <2>2. (ordinal \div OperationCycle) * InsertRows \in Nat
    BY <1>1, <2>1
  <2>3. Lesser(ordinal % OperationCycle, InsertRows) \in Nat
    BY <1>1, <2>1 DEF Lesser
  <2> QED
    BY <2>2, <2>3 DEF InsertRowsBefore
<1> DEFINE full == InsertRowsBefore(ordinal) \div InsertCycle
           rest == InsertRowsBefore(ordinal) % InsertCycle
<1>3. full \in Nat /\ rest \in Nat
  <2>1. full \in Nat /\ rest \in 0..(InsertCycle - 1)
    BY <1>1, <1>2, DivMod
  <2> HIDE DEF full, rest
  <2> QED
    BY <1>1, <2>1
<1>4. InsertTargetCountBefore(ordinal, table)
        \in {full, full * OrderInserts + Lesser(Saturating(rest - EventInserts), OrderInserts)}
  BY DEF InsertTargetCountBefore
<1> HIDE DEF full, rest
<1>5. full * OrderInserts \in Nat
  BY <1>1, <1>3
<1>6. Lesser(Saturating(rest - EventInserts), OrderInserts) \in Nat
  BY <1>1, <1>3 DEF Lesser, Saturating
<1> QED
  BY <1>3, <1>4, <1>5, <1>6

\* Every operation planned is one on a row with its key's tenant, and its image
\* is the one of its ordinal (plan_operation).
LEMMA PlannedOperation ==
    ASSUME NEW s, MixIsU64(s), NEW x \in Nat
    PROVE  PlanOperation(s, x) \in Operations(s) /\ PlanOperation(s, x).image = ImageAt(x)
<1>1. /\ OperationCycle \in Nat \ {0} /\ InsertRows \in Nat \ {0} /\ UpdateRows \in Nat \ {0}
      /\ DeleteRows \in Nat \ {0}
  BY CycleSizes
<1>2. PICK cycle \in Nat, slot \in 0..(OperationCycle - 1) :
              /\ cycle = x \div OperationCycle /\ slot = x % OperationCycle
              /\ \/ /\ slot \in 0..(InsertRows - 1) /\ slot < InsertRows
                    /\ ImageAt(x) = <<"insert", cycle * InsertRows + slot>>
                 \/ /\ slot - InsertRows \in 0..(UpdateRows - 1)
                    /\ ~(slot < InsertRows) /\ slot < InsertRows + UpdateRows
                    /\ ImageAt(x) = <<"update", cycle * UpdateRows + (slot - InsertRows)>>
                 \/ /\ slot - InsertRows - UpdateRows \in 0..(DeleteRows - 1)
                    /\ ~(slot < InsertRows) /\ ~(slot < InsertRows + UpdateRows)
                    /\ ImageAt(x) = <<"delete", cycle * DeleteRows + (slot - InsertRows - UpdateRows)>>
  BY ImageCases
<1>3. cycle * InsertRows \in Nat /\ cycle * UpdateRows \in Nat /\ cycle * DeleteRows \in Nat
      /\ slot \in Nat
  BY <1>1
<1>4. PlanOperation(s, x) =
         IF slot < InsertRows THEN PlanInsert(s, cycle * InsertRows + slot)
         ELSE IF slot < InsertRows + UpdateRows
              THEN PlanUpdate(s, cycle * UpdateRows + slot - InsertRows, x)
              ELSE PlanDelete(s, cycle * DeleteRows + slot - InsertRows - UpdateRows)
  BY <1>2 DEF PlanOperation
<1>5. ASSUME NEW op \in {"insert", "update", "delete"}, NEW i \in Nat
      PROVE  /\ <<op, i>> \in Image /\ <<op, i>>[1] = op
             /\ \A row : Operation(op, row, <<op, i>>).image = <<op, i>>
  BY DEF Image, Operation
<1>6. "orders" \in Tables /\ "customers" \in Tables
  BY DEF Tables
<1>7. ASSUME NEW op \in {"insert", "update", "delete"}, NEW i \in Nat, NEW j \in Nat
      PROVE  /\ Operation(op, MakeRow("orders", s, j), <<op, i>>) \in Operations(s)
             /\ Operation(op, MakeRow("customers", s, j), <<op, i>>) \in Operations(s)
             /\ Operation(op, MakeEvent(s, j), <<op, i>>) \in Operations(s)
  BY <1>5, <1>6, RowOperation
<1>8. CASE slot < InsertRows
  <2> DEFINE i == cycle * InsertRows + slot
  <2>1. i \in Nat /\ ImageAt(x) = <<"insert", i>>
    BY <1>1, <1>2, <1>3, <1>8
  <2>2. PlanOperation(s, x) = PlanInsert(s, i)
    BY <1>4, <1>8
  <2> HIDE DEF i
  <2>3. PlanInsert(s, i) \in {Operation("insert", row, <<"insert", i>>) :
            row \in {MakeEvent(s, i), MakeRow("orders", s, i), MakeRow("customers", s, i)}}
    BY DEF PlanInsert
  <2> QED
    BY <1>5, <1>7, <2>1, <2>2, <2>3
<1>9. CASE ~(slot < InsertRows) /\ slot < InsertRows + UpdateRows
  <2> DEFINE i == cycle * UpdateRows + slot - InsertRows
  <2>1. i \in Nat /\ ImageAt(x) = <<"update", i>>
    <3>1. i = cycle * UpdateRows + (slot - InsertRows)
      BY <1>1, <1>3
    <3>2. slot - InsertRows \in Nat
      BY <1>1, <1>3, <1>9
    <3>3. ImageAt(x) = <<"update", cycle * UpdateRows + (slot - InsertRows)>>
      BY <1>2, <1>9, Zenon
    <3>4. i \in Nat
      BY <1>3, <3>1, <3>2
    <3> HIDE DEF i
    <3> QED
      BY <3>1, <3>3, <3>4
  <2>2. PlanOperation(s, x) = PlanUpdate(s, i, x)
    BY <1>4, <1>9
  <2> HIDE DEF i
  <2> DEFINE table == IF i % (OrderUpdates + CustomerUpdates) < OrderUpdates THEN "orders" ELSE "customers"
             target == TargetIndex(s, i, InsertTargetCountBefore(x, table))
  <2>3. PlanUpdate(s, i, x) = Operation("update", MakeRow(table, s, target), <<"update", i>>)
    BY DEF PlanUpdate
  <2>4. table \in {"orders", "customers"}
    OBVIOUS
  <2> HIDE DEF table
  <2>5. InsertTargetCountBefore(x, table) \in Nat
    BY <2>4, TargetsBefore
  <2>6. target \in Nat
    <3>1. Mix(s, i) \in Nat
      BY <2>1 DEF MixIsU64
    <3> QED
      BY <2>5, <3>1 DEF TargetIndex
  <2> HIDE DEF target
  <2> QED
    BY <1>5, <1>7, <2>1, <2>2, <2>3, <2>4, <2>6
<1>10. CASE ~(slot < InsertRows) /\ ~(slot < InsertRows + UpdateRows)
  <2> DEFINE i == cycle * DeleteRows + slot - InsertRows - UpdateRows
  <2>1. i \in Nat /\ ImageAt(x) = <<"delete", i>>
    <3>1. i = cycle * DeleteRows + (slot - InsertRows - UpdateRows)
      BY <1>1, <1>3
    <3>2. slot - InsertRows - UpdateRows \in Nat
      BY <1>1, <1>3, <1>10
    <3>3. ImageAt(x) = <<"delete", cycle * DeleteRows + (slot - InsertRows - UpdateRows)>>
      BY <1>2, <1>10, Zenon
    <3>4. i \in Nat
      BY <1>3, <3>1, <3>2
    <3> HIDE DEF i
    <3> QED
      BY <3>1, <3>3, <3>4
  <2>2. PlanOperation(s, x) = PlanDelete(s, i)
    BY <1>4, <1>10
  <2> HIDE DEF i
  <2>3. PlanDelete(s, i) \in {Operation("delete", row, <<"delete", i>>) :
            row \in {MakeEvent(s, i), MakeRow("orders", s, i)}}
    BY DEF PlanDelete
  <2> QED
    BY <1>5, <1>7, <2>1, <2>2, <2>3
<1> QED
  BY <1>8, <1>9, <1>10

LEMMA SizeIsNat ==
    ASSUME NEW s, MixIsU64(s), NEW n \in Nat
    PROVE  TransactionSize(s, n) \in Nat
<1>1. Sizes \in Seq(Nat) /\ Len(Sizes) \in Nat \ {0} /\ Mix(s, n) \in Nat
  BY CycleSizes DEF MixIsU64
<1>2. Mix(s, n) % Len(Sizes) \in 0..(Len(Sizes) - 1)
  BY <1>1, DivMod
<1>3. (Mix(s, n) % Len(Sizes)) + 1 \in 1..Len(Sizes)
  BY <1>1, <1>2
<1> QED
  BY <1>1, <1>3 DEF TransactionSize

\* The prefix sums below n, as the recursion of rows_before_sequence gives them.
LEMMA PrefixRows ==
    ASSUME NEW s, MixIsU64(s), NEW n \in Nat \ {0}
    PROVE  \E g \in [0..(n - 1) -> Nat] :
              /\ g[0] = 0
              /\ \A i \in 1..(n - 1) : g[i] = g[i - 1] + TransactionSize(s, i)
              /\ RowsBeforeSequence(s, n) = g[n - 1]
<1> DEFINE m == n - 1
           Step(f, i) == IF i = 0 THEN 0 ELSE f[i - 1] + TransactionSize(s, i)
           F == [i \in 1..m |-> [x \in Nat |-> x + TransactionSize(s, i)]]
           rows == CHOOSE f : f = [i \in 0..m |-> Step(f, i)]
<1>1. m \in Nat
  OBVIOUS
<1>2. RowsBeforeSequence(s, n) = rows[m]
  BY DEF RowsBeforeSequence
<1> HIDE DEF m, rows
<1>3. \A i \in 1..m : \A x \in Nat : F[i][x] = x + TransactionSize(s, i)
  OBVIOUS
<1>4. Maps(F, m, Nat)
  <2> SUFFICES ASSUME NEW i \in 1..m, NEW x \in Nat PROVE F[i][x] \in Nat
    BY DEF Maps
  <2>1. i \in Nat
    BY <1>1
  <2>2. TransactionSize(s, i) \in Nat
    BY <2>1, SizeIsNat
  <2> QED
    BY <1>3, <2>2
<1> HIDE DEF F
<1>5. PICK g \in [0..m -> Nat] : IsRun(g, m, 0, F)
  BY <1>1, <1>4, RunExists
<1>6. \A i \in 0..m : g[i] = Step(g, i)
  <2> SUFFICES ASSUME NEW i \in 0..m PROVE g[i] = Step(g, i)
    OBVIOUS
  <2>1. CASE i = 0
    BY <1>5, <2>1 DEF IsRun
  <2>2. CASE i # 0
    <3>1. i \in 1..m /\ i - 1 \in 0..m
      BY <1>1, <2>2
    <3>2. g[i] = F[i][g[i - 1]] /\ g[i - 1] \in Nat
      BY <1>5, <3>1 DEF IsRun
    <3> QED
      BY <1>3, <2>2, <3>1, <3>2
  <2> QED
    BY <2>1, <2>2
<1>7. g = [i \in 0..m |-> Step(g, i)]
  <2> HIDE DEF Step
  <2> QED
    BY <1>6
<1>8. rows = [i \in 0..m |-> Step(rows, i)]
  <2> HIDE DEF Step
  <2> QED
    BY <1>7 DEF rows
<1>9. \A i \in 0..m : rows[i] = Step(rows, i)
  <2> HIDE DEF Step
  <2> QED
    BY <1>8
<1> DEFINE G == {i \in 0..m : rows[i] = g[i]}
<1>10. 0 \in G
  <2>1. 0 \in 0..m
    BY <1>1
  <2> QED
    BY <1>6, <1>9, <2>1
<1>11. ASSUME NEW i \in 0..(m - 1), i \in G PROVE i + 1 \in G
  <2>1. i + 1 \in 0..m /\ i + 1 # 0 /\ (i + 1) - 1 = i
    BY <1>1
  <2>2. rows[i + 1] = rows[i] + TransactionSize(s, i + 1) /\ g[i + 1] = g[i] + TransactionSize(s, i + 1)
    BY <1>6, <1>9, <2>1
  <2> QED
    BY <1>11, <2>1, <2>2
<1> HIDE DEF G
<1>12. \A i \in 0..m : i \in G
  BY <1>1, <1>10, <1>11, IntervalInduction
<1>13. rows[m] = g[m]
  BY <1>1, <1>12 DEF G
<1>14. g[0] = 0 /\ \A i \in 1..m : g[i] = g[i - 1] + TransactionSize(s, i)
  <2>1. 0 \in 0..m /\ \A i \in 1..m : i \in 0..m /\ i # 0
    BY <1>1
  <2> QED
    BY <1>6, <2>1
<1> QED
  BY <1>2, <1>13, <1>14 DEF m

\* Transaction n's rows come after those of the transactions before it.
LEMMA RowsFollow ==
    ASSUME NEW s, MixIsU64(s), NEW n \in Nat \ {0}
    PROVE  /\ RowsBeforeSequence(s, n) \in Nat
           /\ RowsBeforeSequence(s, n + 1) = RowsBeforeSequence(s, n) + TransactionSize(s, n)
<1>1. n + 1 \in Nat \ {0} /\ (n + 1) - 1 = n
  OBVIOUS
<1>2. PICK g \in [0..(n - 1) -> Nat] :
              /\ g[0] = 0
              /\ \A i \in 1..(n - 1) : g[i] = g[i - 1] + TransactionSize(s, i)
              /\ RowsBeforeSequence(s, n) = g[n - 1]
  BY PrefixRows
<1>3. PICK h \in [0..n -> Nat] :
              /\ h[0] = 0
              /\ \A i \in 1..n : h[i] = h[i - 1] + TransactionSize(s, i)
              /\ RowsBeforeSequence(s, n + 1) = h[n]
  <2>1. \E h \in [0..((n + 1) - 1) -> Nat] :
              /\ h[0] = 0
              /\ \A i \in 1..((n + 1) - 1) : h[i] = h[i - 1] + TransactionSize(s, i)
              /\ RowsBeforeSequence(s, n + 1) = h[(n + 1) - 1]
    BY <1>1, PrefixRows
  <2> QED
    BY <1>1, <2>1
<1> DEFINE G == {i \in 0..(n - 1) : h[i] = g[i]}
<1>4. 0 \in G
  BY <1>2, <1>3
<1>5. ASSUME NEW i \in 0..((n - 1) - 1), i \in G PROVE i + 1 \in G
  <2>1. i + 1 \in 1..(n - 1) /\ i + 1 \in 1..n /\ (i + 1) - 1 = i
    OBVIOUS
  <2>2. h[i + 1] = h[i] + TransactionSize(s, i + 1) /\ g[i + 1] = g[i] + TransactionSize(s, i + 1)
    BY <1>2, <1>3, <2>1
  <2> QED
    BY <1>5, <2>1, <2>2
<1> HIDE DEF G
<1>6. n - 1 \in Nat
  OBVIOUS
<1>7. \A i \in 0..(n - 1) : i \in G
  BY <1>4, <1>5, <1>6, IntervalInduction
<1>8. h[n - 1] = g[n - 1]
  BY <1>6, <1>7 DEF G
<1>9. n \in 1..n /\ n - 1 \in 0..(n - 1)
  OBVIOUS
<1> QED
  BY <1>2, <1>3, <1>8, <1>9

\* The ordinal of a plan's i-th operation.
OrdinalOf(s, n, i) == RowsBeforeSequence(s, n) + i - 1

\* A plan's operations, and their images (WorkloadPlanner::plan).
LEMMA PlanIs ==
    ASSUME NEW s, MixIsU64(s), NEW n \in Nat \ {0}
    PROVE  /\ Plan(s, n).sequence = n
           /\ Plan(s, n).operations \in Seq(Operations(s))
           /\ Len(Plan(s, n).operations) = TransactionSize(s, n)
           /\ \A i \in 1..Len(Plan(s, n).operations) :
                Plan(s, n).operations[i].image = ImageAt(OrdinalOf(s, n, i))
<1> DEFINE size == TransactionSize(s, n)
           offset == RowsBeforeSequence(s, n)
           ops == [i \in 1..size |-> PlanOperation(s, offset + i - 1)]
<1>1. size \in Nat /\ offset \in Nat
  BY SizeIsNat, RowsFollow
<1>2. Plan(s, n) = [sequence |-> n, operations |-> ops]
  BY DEF Plan
<1>3. \A i \in 1..size : OrdinalOf(s, n, i) = offset + i - 1
  BY DEF OrdinalOf
<1> HIDE DEF size, offset
<1>4. \A i \in 1..size : offset + i - 1 \in Nat
  BY <1>1
<1>5. \A i \in 1..size : /\ PlanOperation(s, offset + i - 1) \in Operations(s)
                         /\ PlanOperation(s, offset + i - 1).image = ImageAt(offset + i - 1)
  BY <1>4, PlannedOperation
<1>6. ops \in [1..size -> Operations(s)]
  BY <1>5
<1>7. \A i \in 1..size : ops[i] = PlanOperation(s, offset + i - 1)
  OBVIOUS
<1> HIDE DEF ops
<1>8. ops \in Seq(Operations(s)) /\ Len(ops) = size
  BY <1>1, <1>6
<1>9. size = TransactionSize(s, n)
  BY DEF size
<1> QED
  BY <1>2, <1>3, <1>5, <1>7, <1>8, <1>9

-----------------------------------------------------------------------------
(***************************************************************************)
(* The oracle: what one operation, one plan and a replay make of it.       *)
(***************************************************************************)
\* The maps from some of K to V.
MapOf(K, V) == UNION {[S -> V] : S \in SUBSET K}

RowState == [tenant : Nat, image : Image, version : Nat]

State == RowState \union {Gone}

Versions == Seq(Nat \X State)

OracleState(s) ==
    [rows : MapOf(Key, RowState), history : MapOf(Key, Versions),
     hash : MapOf(Nat, Seq(Operations(s))), counts : MapOf(Nat, Nat), lsn : MapOf(Nat, Nat)]

LEMMA MapIs ==
    ASSUME NEW K, NEW V, NEW f
    PROVE  f \in MapOf(K, V) <=> /\ DOMAIN f \subseteq K
                                 /\ f = [y \in DOMAIN f |-> f[y]]
                                 /\ \A y \in DOMAIN f : f[y] \in V
<1>1. ASSUME f \in MapOf(K, V)
      PROVE  /\ DOMAIN f \subseteq K
             /\ f = [y \in DOMAIN f |-> f[y]]
             /\ \A y \in DOMAIN f : f[y] \in V
  <2>1. PICK S \in SUBSET K : f \in [S -> V]
    BY <1>1 DEF MapOf
  <2> QED
    BY <2>1
<1>2. ASSUME DOMAIN f \subseteq K, f = [y \in DOMAIN f |-> f[y]], \A y \in DOMAIN f : f[y] \in V
      PROVE  f \in MapOf(K, V)
  <2>1. f \in [DOMAIN f -> V] /\ DOMAIN f \in SUBSET K
    BY <1>2
  <2> QED
    BY <2>1 DEF MapOf
<1> QED
  BY <1>1, <1>2

LEMMA WithIs ==
    ASSUME NEW f, NEW x, NEW v
    PROVE  /\ \A y : y \in DOMAIN With(f, x, v) <=> y \in DOMAIN f \/ y = x
           /\ With(f, x, v)[x] = v
           /\ \A y \in DOMAIN f \ {x} : With(f, x, v)[y] = f[y]
BY DEF With

LEMMA WithType ==
    ASSUME NEW K, NEW V, NEW f \in MapOf(K, V), NEW x \in K, NEW v \in V
    PROVE  With(f, x, v) \in MapOf(K, V)
<1>1. DOMAIN f \subseteq K /\ \A y \in DOMAIN f : f[y] \in V
  BY MapIs
<1>2. DOMAIN With(f, x, v) \subseteq K /\ \A y \in DOMAIN With(f, x, v) : With(f, x, v)[y] \in V
  BY <1>1 DEF With
<1>3. With(f, x, v) = [y \in DOMAIN With(f, x, v) |-> With(f, x, v)[y]]
  BY DEF With
<1> QED
  BY <1>2, <1>3, MapIs

LEMMA WithoutIs ==
    ASSUME NEW f, NEW x
    PROVE  /\ \A y : y \in DOMAIN Without(f, x) <=> y \in DOMAIN f /\ y # x
           /\ \A y \in DOMAIN f \ {x} : Without(f, x)[y] = f[y]
           /\ \A K, V : f \in MapOf(K, V) => Without(f, x) \in MapOf(K, V)
           /\ \A K, V : f \in MapOf(K, V) /\ x \notin DOMAIN f => Without(f, x) = f
<1>1. /\ DOMAIN Without(f, x) = DOMAIN f \ {x}
      /\ \A y \in DOMAIN f \ {x} : Without(f, x)[y] = f[y]
      /\ Without(f, x) = [y \in DOMAIN Without(f, x) |-> Without(f, x)[y]]
  BY DEF Without
<1>2. ASSUME NEW K, NEW V, f \in MapOf(K, V)
      PROVE  /\ Without(f, x) \in MapOf(K, V)
             /\ x \notin DOMAIN f => Without(f, x) = f
  <2>1. DOMAIN f \subseteq K /\ (\A y \in DOMAIN f : f[y] \in V) /\ f = [y \in DOMAIN f |-> f[y]]
    BY <1>2, MapIs
  <2>2. DOMAIN Without(f, x) \subseteq K
        /\ \A y \in DOMAIN Without(f, x) : Without(f, x)[y] \in V
    BY <1>1, <2>1
  <2>3. ASSUME x \notin DOMAIN f PROVE Without(f, x) = f
    <3>1. DOMAIN f \ {x} = DOMAIN f
      BY <2>3
    <3>2. Without(f, x) = [y \in DOMAIN f |-> f[y]]
      BY <3>1 DEF Without
    <3> QED
      BY <2>1, <3>2
  <2> QED
    BY <1>1, <2>2, <2>3, MapIs
<1> QED
  BY <1>1, <1>2

LEMMA EmptyMap ==
    /\ DOMAIN NoEntries = {}
    /\ \A K, V : NoEntries \in MapOf(K, V)
<1>1. DOMAIN NoEntries = {} /\ NoEntries = [y \in DOMAIN NoEntries |-> NoEntries[y]]
  BY DEF NoEntries
<1> QED
  BY <1>1, MapIs

LEMMA GoneIsNoRow == \A row \in RowState : row # Gone
<1> SUFFICES ASSUME NEW row \in RowState, row = Gone PROVE FALSE
  OBVIOUS
<1>1. "image" \in DOMAIN row
  BY DEF RowState
<1>2. "image" \notin DOMAIN Gone
  BY DEF Gone
<1> QED
  BY <1>1, <1>2

\* A key's version is recorded, and its row kept or taken out.
Put(o, k, v, state) ==
    [o EXCEPT !.rows = IF state = Gone THEN Without(@, k) ELSE With(@, k, state),
              !.history = Recorded(o, k, v, state)]

\* A key's versions, and one version more.
VersionsOf(o, k) == At(o.history, k, <<>>)

OneMore(h, v, state) == Append(h, <<v, state>>)

LEMMA PutIs ==
    ASSUME NEW s, NEW o \in OracleState(s), NEW k \in Key, NEW v \in Nat, NEW state \in State
    PROVE  /\ Put(o, k, v, state) \in OracleState(s)
           /\ Put(o, k, v, state).hash = o.hash
           /\ Put(o, k, v, state).counts = o.counts
           /\ Put(o, k, v, state).lsn = o.lsn
           /\ Put(o, k, v, state).rows = IF state = Gone THEN Without(o.rows, k)
                                         ELSE With(o.rows, k, state)
           /\ \A x : x \in DOMAIN Put(o, k, v, state).history <=> x \in DOMAIN o.history \/ x = k
           /\ \A x \in DOMAIN o.history \ {k} : Put(o, k, v, state).history[x] = o.history[x]
           /\ Put(o, k, v, state).history[k] = OneMore(VersionsOf(o, k), v, state)
           /\ VersionsOf(o, k) \in Versions
           /\ \A x \in DOMAIN o.history : o.history[x] \in Versions
<1> DEFINE rows == IF state = Gone THEN Without(o.rows, k) ELSE With(o.rows, k, state)
           history == Recorded(o, k, v, state)
<1>1. /\ o.rows \in MapOf(Key, RowState) /\ o.history \in MapOf(Key, Versions)
      /\ o = [rows |-> o.rows, history |-> o.history, hash |-> o.hash, counts |-> o.counts,
              lsn |-> o.lsn]
      /\ o.hash \in MapOf(Nat, Seq(Operations(s))) /\ o.counts \in MapOf(Nat, Nat)
      /\ o.lsn \in MapOf(Nat, Nat)
  BY DEF OracleState
<1>2. Put(o, k, v, state) = [rows |-> rows, history |-> history, hash |-> o.hash,
                             counts |-> o.counts, lsn |-> o.lsn]
  <2>1. Put(o, k, v, state) = [o EXCEPT !.rows = rows, !.history = history]
    BY DEF Put
  <2> HIDE DEF rows, history
  <2> QED
    BY <1>1, <2>1
<1>3. rows \in MapOf(Key, RowState)
  BY <1>1, WithType, WithoutIs DEF State
<1>4. \A x \in DOMAIN o.history : o.history[x] \in Versions
  BY <1>1, MapIs
<1>5. VersionsOf(o, k) \in Versions
  BY <1>4 DEF VersionsOf, At, Versions
<1>6. OneMore(VersionsOf(o, k), v, state) \in Versions
  BY <1>5 DEF OneMore, Versions
<1>7. history = With(o.history, k, OneMore(VersionsOf(o, k), v, state))
  BY DEF Recorded, VersionsOf, OneMore
<1>8. /\ history \in MapOf(Key, Versions)
      /\ \A x : x \in DOMAIN history <=> x \in DOMAIN o.history \/ x = k
      /\ \A x \in DOMAIN o.history \ {k} : history[x] = o.history[x]
      /\ history[k] = OneMore(VersionsOf(o, k), v, state)
  <2> HIDE DEF history
  <2>1. With(o.history, k, OneMore(VersionsOf(o, k), v, state)) \in MapOf(Key, Versions)
    BY <1>1, <1>6, WithType
  <2> QED
    BY <1>7, <2>1, WithIs
<1> HIDE DEF rows, history
<1>9. Put(o, k, v, state) \in OracleState(s)
  BY <1>1, <1>2, <1>3, <1>8 DEF OracleState
<1>10. rows = IF state = Gone THEN Without(o.rows, k) ELSE With(o.rows, k, state)
  BY DEF rows
<1> QED
  BY <1>2, <1>4, <1>5, <1>8, <1>9, <1>10

\* What an operation leaves of its row.
StateAfter(op, v) == IF op.op = "delete" THEN Gone ELSE StateOf(op, v)

LEMMA OperationIs ==
    ASSUME NEW s, NEW op \in Operations(s), NEW v \in Nat
    PROVE  /\ KeyOf(op) \in Key
           /\ StateOf(op, v) \in RowState
           /\ StateOf(op, v).tenant = TenantOf(s, KeyOf(op))
           /\ StateOf(op, v).image = op.image
           /\ StateAfter(op, v) \in State
           /\ StateAfter(op, v) = Gone <=> op.op = "delete"
           /\ op.op \in {"insert", "update", "delete"}
<1>1. /\ op.row.table \in Tables /\ op.row.id \in Nat \ {0} /\ op.row.tenant \in Nat
      /\ op.image \in Image /\ op.row.tenant = TenantOf(s, KeyOf(op))
      /\ op.op \in {"insert", "update", "delete"}
  BY DEF Operations
<1>2. KeyOf(op) \in Key
  BY <1>1 DEF KeyOf, Key
<1>3. /\ StateOf(op, v) \in RowState
      /\ StateOf(op, v).tenant = TenantOf(s, KeyOf(op))
      /\ StateOf(op, v).image = op.image
  BY <1>1 DEF StateOf, RowState
<1>4. StateAfter(op, v) \in State /\ (StateAfter(op, v) = Gone <=> op.op = "delete")
  BY <1>3, GoneIsNoRow DEF StateAfter, State
<1> QED
  BY <1>1, <1>2, <1>3, <1>4

\* apply_operation puts the operation's version, but for an update of no row.
LEMMA ApplyIs ==
    ASSUME NEW s, NEW o \in OracleState(s), NEW op \in Operations(s), NEW v \in Nat
    PROVE  IF op.op = "update" /\ KeyOf(op) \notin DOMAIN o.rows
           THEN ApplyOperation(o, op, v) = o
           ELSE ApplyOperation(o, op, v) = Put(o, KeyOf(op), v, StateAfter(op, v))
<1>1. /\ op.op \in {"insert", "update", "delete"}
      /\ StateAfter(op, v) = Gone <=> op.op = "delete"
  BY OperationIs
<1>2. CASE op.op = "delete"
  BY <1>1, <1>2 DEF ApplyOperation, Put, StateAfter
<1>3. CASE op.op # "delete"
  <2>1. Upsert(o, op, v) = Put(o, KeyOf(op), v, StateAfter(op, v))
    BY <1>1, <1>3 DEF Upsert, Put, StateAfter
  <2> QED
    BY <1>1, <1>3, <2>1 DEF ApplyOperation
<1> QED
  BY <1>2, <1>3

-----------------------------------------------------------------------------
(***************************************************************************)
(* What a history says at an LSN.                                          *)
(***************************************************************************)
LEMMA MaxIs ==
    ASSUME NEW S \in SUBSET Int, NEW x \in S, \A y \in S : y <= x
    PROVE  Max(S) = x
<1>1. \A y \in S : x >= y
  OBVIOUS
<1>2. \A z \in S : (\A y \in S : z >= y) => z = x
  OBVIOUS
<1> QED
  BY <1>1, <1>2 DEF Max

\* Past its last version a history says its last state.
LEMMA LatestIsLast ==
    ASSUME NEW h \in Versions, NEW target \in Nat, Len(h) # 0,
           \A i \in 1..Len(h) : h[i][1] <= target
    PROVE  Latest(h, target) = h[Len(h)][2]
<1>1. Len(h) \in Nat /\ DOMAIN h = 1..Len(h)
  BY DEF Versions
<1>2. {i \in DOMAIN h : h[i][1] <= target} = 1..Len(h)
  BY <1>1
<1>3. Max(1..Len(h)) = Len(h)
  <2>1. Len(h) \in 1..Len(h) /\ 1..Len(h) \in SUBSET Int /\ \A y \in 1..Len(h) : y <= Len(h)
    BY <1>1
  <2> QED
    BY <2>1, MaxIs
<1>4. 1..Len(h) # {}
  BY <1>1
<1> QED
  BY <1>2, <1>3, <1>4 DEF Latest

\* A later version changes nothing of what a history said before.
LEMMA LatestOfEarlier ==
    ASSUME NEW h \in Versions, NEW v \in Nat, NEW state \in State, NEW target \in Nat, target < v
    PROVE  Latest(OneMore(h, v, state), target) = Latest(h, target)
<1> DEFINE h2 == OneMore(h, v, state)
           seen == {i \in DOMAIN h : h[i][1] <= target}
           seen2 == {i \in DOMAIN h2 : h2[i][1] <= target}
<1>1. Len(h) \in Nat /\ DOMAIN h = 1..Len(h)
  BY DEF Versions
<1>2. /\ DOMAIN h2 = 1..(Len(h) + 1) /\ h2[Len(h) + 1] = <<v, state>>
      /\ \A i \in 1..Len(h) : h2[i] = h[i]
  BY <1>1 DEF Versions, OneMore
<1> HIDE DEF h2
<1>3. seen2 = seen
  <2>1. ~(h2[Len(h) + 1][1] <= target)
    BY <1>2
  <2>2. \A i \in 1..(Len(h) + 1) : i \in 1..Len(h) \/ i = Len(h) + 1
    BY <1>1
  <2> QED
    BY <1>1, <1>2, <2>1, <2>2
<1>4. seen # {} => Max(seen) \in DOMAIN h
  <2> SUFFICES ASSUME seen # {} PROVE Max(seen) \in DOMAIN h
    OBVIOUS
  <2>1. \E x \in seen : \A y \in seen : y <= x
    <3> DEFINE G == {n \in 0..Len(h) : \A i \in seen : i <= n => \E x \in seen : \A y \in seen : y <= n => y <= x}
    <3>1. 0 \in G
      BY <1>1
    <3>2. ASSUME NEW n \in 0..(Len(h) - 1), n \in G PROVE n + 1 \in G
      <4>1. n + 1 \in 0..Len(h) /\ n \in Nat
        BY <1>1
      <4>2. seen \subseteq Int
        BY <1>1
      <4>3. CASE n + 1 \in seen
        <5>1. \A y \in seen : y <= n + 1 => y <= n + 1
          OBVIOUS
        <5> QED
          BY <4>1, <4>3, <5>1
      <4>4. CASE n + 1 \notin seen
        <5>1. \A y \in seen : y <= n + 1 => y <= n
          BY <4>1, <4>2, <4>4
        <5> HIDE DEF seen
        <5> QED
          BY <3>2, <4>1, <5>1
      <4> QED
        BY <4>3, <4>4
    <3> HIDE DEF G
    <3>3. Len(h) \in G
      <4>1. \A n \in 0..Len(h) : n \in G
        BY <1>1, <3>1, <3>2, IntervalInduction
      <4> QED
        BY <1>1, <4>1
    <3>4. \A i \in seen : i <= Len(h)
      BY <1>1
    <3> HIDE DEF seen
    <3> QED
      BY <3>3, <3>4 DEF G
  <2>2. PICK x \in seen : \A y \in seen : y <= x
    BY <2>1
  <2>3. seen \in SUBSET Int /\ seen \subseteq DOMAIN h
    BY <1>1
  <2> HIDE DEF seen
  <2> QED
    BY <2>2, <2>3, MaxIs
<1>5. Latest(h, target) = IF seen = {} THEN Gone ELSE h[Max(seen)][2]
  BY DEF Latest
<1>6. Latest(h2, target) = IF seen2 = {} THEN Gone ELSE h2[Max(seen2)][2]
  BY DEF Latest
<1> HIDE DEF seen, seen2
<1>7. seen # {} => h2[Max(seen)] = h[Max(seen)]
  BY <1>1, <1>2, <1>4
<1>8. Latest(h2, target) = Latest(h, target)
  BY <1>3, <1>5, <1>6, <1>7
<1> QED
  BY <1>8 DEF h2

LEMMA LatestOfNone == \A target : Latest(<<>>, target) = Gone
BY DEF Latest

-----------------------------------------------------------------------------
\* An oracle whose versions go to v at most: every key's last state is its row.
Mirrored(o, s, v) ==
    /\ DOMAIN o.rows \subseteq DOMAIN o.history
    /\ \A k \in DOMAIN o.history :
         /\ Len(o.history[k]) # 0
         /\ o.history[k][Len(o.history[k])][2] = At(o.rows, k, Gone)
         /\ \A i \in 1..Len(o.history[k]) : o.history[k][i][1] <= v
    /\ \A k \in DOMAIN o.rows : o.rows[k].tenant = TenantOf(s, k)

\* What it says at v is its rows.
LEMMA MirrorNow ==
    ASSUME NEW s, NEW v \in Nat, NEW o \in OracleState(s), Mirrored(o, s, v)
    PROVE  RowsAt(o, v) = o.rows
<1>1. o.rows \in MapOf(Key, RowState) /\ o.history \in MapOf(Key, Versions)
  BY DEF OracleState
<1>2. \A k \in DOMAIN o.history : o.history[k] \in Versions
  BY <1>1, MapIs
<1>3. \A k \in DOMAIN o.history : Latest(o.history[k], v) = At(o.rows, k, Gone)
  <2> SUFFICES ASSUME NEW k \in DOMAIN o.history
               PROVE  Latest(o.history[k], v) = At(o.rows, k, Gone)
    OBVIOUS
  <2>1. /\ o.history[k] \in Versions /\ Len(o.history[k]) # 0
        /\ o.history[k][Len(o.history[k])][2] = At(o.rows, k, Gone)
        /\ \A i \in 1..Len(o.history[k]) : o.history[k][i][1] <= v
    BY <1>2 DEF Mirrored
  <2> QED
    BY <2>1, LatestIsLast
<1>4. \A k \in DOMAIN o.rows : o.rows[k] \in RowState /\ o.rows[k] # Gone /\ At(o.rows, k, Gone) = o.rows[k]
  BY <1>1, MapIs, GoneIsNoRow DEF At
<1>5. \A k \in DOMAIN o.history : k \notin DOMAIN o.rows => At(o.rows, k, Gone) = Gone
  BY DEF At
<1>6. DOMAIN o.rows \subseteq DOMAIN o.history
  BY DEF Mirrored
<1>7. {k \in DOMAIN o.history : Latest(o.history[k], v) # Gone} = DOMAIN o.rows
  BY <1>3, <1>4, <1>5, <1>6
<1>8. RowsAt(o, v) = [k \in DOMAIN o.rows |-> Latest(o.history[k], v)]
  BY <1>7 DEF RowsAt
<1>9. \A k \in DOMAIN o.rows : Latest(o.history[k], v) = o.rows[k]
  BY <1>3, <1>4, <1>6
<1>10. o.rows = [k \in DOMAIN o.rows |-> o.rows[k]]
  BY <1>1, MapIs
<1> QED
  BY <1>8, <1>9, <1>10

\* A version that is put changes nothing of what was said before it.
LEMMA PutLater ==
    ASSUME NEW s, NEW o \in OracleState(s), NEW k \in Key, NEW v \in Nat, NEW state \in State,
           NEW target \in Nat, target < v
    PROVE  RowsAt(Put(o, k, v, state), target) = RowsAt(o, target)
<1> DEFINE p == Put(o, k, v, state)
           old == VersionsOf(o, k)
<1>1. /\ \A x : x \in DOMAIN p.history <=> x \in DOMAIN o.history \/ x = k
      /\ \A x \in DOMAIN o.history \ {k} : p.history[x] = o.history[x]
      /\ p.history[k] = OneMore(old, v, state)
      /\ old \in Versions
  BY PutIs
<1>2. old = IF k \in DOMAIN o.history THEN o.history[k] ELSE <<>>
  BY DEF VersionsOf, At
<1> HIDE DEF p, old
<1>3. Latest(p.history[k], target) = Latest(old, target)
  BY <1>1, LatestOfEarlier
<1>4. k \notin DOMAIN o.history => Latest(p.history[k], target) = Gone
  BY <1>2, <1>3, LatestOfNone
<1>5. \A x \in DOMAIN o.history : Latest(p.history[x], target) = Latest(o.history[x], target)
  <2> SUFFICES ASSUME NEW x \in DOMAIN o.history
               PROVE  Latest(p.history[x], target) = Latest(o.history[x], target)
    OBVIOUS
  <2>1. CASE x = k
    BY <1>2, <1>3, <2>1
  <2>2. CASE x # k
    BY <1>1, <2>2
  <2> QED
    BY <2>1, <2>2
<1>6. {x \in DOMAIN p.history : Latest(p.history[x], target) # Gone}
        = {x \in DOMAIN o.history : Latest(o.history[x], target) # Gone}
  BY <1>1, <1>4, <1>5
<1>7. RowsAt(p, target) = RowsAt(o, target)
  BY <1>5, <1>6 DEF RowsAt
<1> QED
  BY <1>7 DEF p

LEMMA OneMoreIs ==
    ASSUME NEW h \in Versions, NEW v \in Nat, NEW state \in State
    PROVE  /\ OneMore(h, v, state) \in Versions
           /\ Len(h) \in Nat
           /\ Len(OneMore(h, v, state)) = Len(h) + 1
           /\ OneMore(h, v, state)[Len(h) + 1][1] = v
           /\ OneMore(h, v, state)[Len(h) + 1][2] = state
           /\ \A i \in 1..Len(h) : OneMore(h, v, state)[i] = h[i]
           /\ \A i \in 1..Len(h) : h[i][1] \in Nat /\ h[i][2] \in State
BY DEF OneMore, Versions

LEMMA PutMirrors ==
    ASSUME NEW s, NEW o \in OracleState(s), NEW k \in Key, NEW v \in Nat, NEW state \in State,
           NEW u \in Nat, u <= v, Mirrored(o, s, u),
           state # Gone => state.tenant = TenantOf(s, k)
    PROVE  Mirrored(Put(o, k, v, state), s, v)
<1> DEFINE p == Put(o, k, v, state)
           old == VersionsOf(o, k)
<1>1. /\ p.rows = IF state = Gone THEN Without(o.rows, k) ELSE With(o.rows, k, state)
      /\ \A x : x \in DOMAIN p.history <=> x \in DOMAIN o.history \/ x = k
      /\ \A x \in DOMAIN o.history \ {k} : p.history[x] = o.history[x]
      /\ p.history[k] = OneMore(old, v, state)
      /\ old \in Versions
      /\ \A x \in DOMAIN o.history : o.history[x] \in Versions
  BY PutIs
<1>2. old = IF k \in DOMAIN o.history THEN o.history[k] ELSE <<>>
  BY DEF VersionsOf, At
<1> HIDE DEF p, old
<1>3. /\ \A x : x # k => (x \in DOMAIN p.rows <=> x \in DOMAIN o.rows)
      /\ \A x \in DOMAIN o.rows \ {k} : p.rows[x] = o.rows[x]
      /\ k \in DOMAIN p.rows <=> state # Gone
      /\ state # Gone => p.rows[k] = state
  <2>1. CASE state = Gone
    BY <1>1, <2>1, WithoutIs
  <2>2. CASE state # Gone
    BY <1>1, <2>2, WithIs
  <2> QED
    BY <2>1, <2>2
<1>4. /\ DOMAIN o.rows \subseteq DOMAIN o.history
      /\ \A x \in DOMAIN o.history :
           /\ Len(o.history[x]) # 0
           /\ o.history[x][Len(o.history[x])][2] = At(o.rows, x, Gone)
           /\ \A i \in 1..Len(o.history[x]) : o.history[x][i][1] <= u
      /\ \A x \in DOMAIN o.rows : o.rows[x].tenant = TenantOf(s, x)
  BY DEF Mirrored
<1>5. DOMAIN p.rows \subseteq DOMAIN p.history
  BY <1>1, <1>3, <1>4
<1>6. \A x \in DOMAIN p.rows : p.rows[x].tenant = TenantOf(s, x)
  BY <1>3, <1>4
<1>7. ASSUME NEW x \in DOMAIN p.history, x # k
      PROVE  /\ Len(p.history[x]) # 0
             /\ p.history[x][Len(p.history[x])][2] = At(p.rows, x, Gone)
             /\ \A i \in 1..Len(p.history[x]) : p.history[x][i][1] <= v
  <2>1. x \in DOMAIN o.history /\ p.history[x] = o.history[x] /\ o.history[x] \in Versions
    BY <1>1, <1>7
  <2>2. At(p.rows, x, Gone) = At(o.rows, x, Gone)
    BY <1>3, <1>7 DEF At
  <2>3. Len(o.history[x]) \in Nat /\ \A i \in 1..Len(o.history[x]) : o.history[x][i][1] \in Nat
    BY <2>1, GoneIsNoRow, OneMoreIs DEF State
  <2>4. \A i \in 1..Len(o.history[x]) : o.history[x][i][1] <= v
    BY <1>4, <2>1, <2>3
  <2> QED
    BY <1>4, <2>1, <2>2, <2>4
<1>8. /\ Len(p.history[k]) # 0
      /\ p.history[k][Len(p.history[k])][2] = At(p.rows, k, Gone)
      /\ \A i \in 1..Len(p.history[k]) : p.history[k][i][1] <= v
  <2> DEFINE h == p.history[k]
  <2>0. h = OneMore(old, v, state)
    BY <1>1
  <2> HIDE DEF h
  <2>1. /\ Len(old) \in Nat /\ Len(h) = Len(old) + 1
        /\ h[Len(old) + 1][1] = v /\ h[Len(old) + 1][2] = state
        /\ \A i \in 1..Len(old) : h[i] = old[i]
        /\ \A i \in 1..Len(old) : old[i][1] \in Nat
    BY <1>1, <2>0 DEF OneMore, Versions
  <2>2. \A i \in 1..Len(old) : old[i][1] <= u
    BY <1>2, <1>4
  <2>3. \A i \in 1..Len(h) : h[i][1] <= v
    <3> SUFFICES ASSUME NEW i \in 1..Len(h) PROVE h[i][1] <= v
      OBVIOUS
    <3>1. CASE i = Len(old) + 1
      BY <2>1, <3>1
    <3>2. CASE i # Len(old) + 1
      <4>1. i \in 1..Len(old)
        BY <2>1, <3>2
      <4> QED
        BY <2>1, <2>2, <4>1
    <3> QED
      BY <3>1, <3>2
  <2>4. At(p.rows, k, Gone) = state
    BY <1>3 DEF At
  <2>5. Len(h) # 0 /\ h[Len(h)][2] = At(p.rows, k, Gone)
    BY <2>1, <2>4
  <2> QED
    BY <2>3, <2>5 DEF h
<1>9. Mirrored(p, s, v)
  BY <1>5, <1>6, <1>7, <1>8 DEF Mirrored
<1> QED
  BY <1>9 DEF p

\* The images in an oracle's versions are those of ordinals below b, and no key
\* has an image twice.
ImagesOf(o, b) ==
    \A k \in DOMAIN o.history : \A i \in 1..Len(o.history[k]) : o.history[k][i][2] # Gone =>
        /\ \E x \in 0..(b - 1) : o.history[k][i][2].image = ImageAt(x)
        /\ \A j \in 1..Len(o.history[k]) :
             /\ o.history[k][j][2] # Gone
             /\ o.history[k][j][2].image = o.history[k][i][2].image
             => j = i

LEMMA ImagesGrow ==
    ASSUME NEW o, NEW b \in Nat, NEW b2 \in Nat, b <= b2, ImagesOf(o, b)
    PROVE  ImagesOf(o, b2)
<1>1. \A x \in 0..(b - 1) : x \in 0..(b2 - 1)
  OBVIOUS
<1> QED
  BY <1>1 DEF ImagesOf

LEMMA PutImages ==
    ASSUME NEW s, NEW o \in OracleState(s), NEW k \in Key, NEW v \in Nat, NEW state \in State,
           NEW b \in Nat, ImagesOf(o, b), state # Gone => state.image = ImageAt(b)
    PROVE  ImagesOf(Put(o, k, v, state), b + 1)
<1> DEFINE p == Put(o, k, v, state)
           old == VersionsOf(o, k)
<1>1. /\ \A x : x \in DOMAIN p.history <=> x \in DOMAIN o.history \/ x = k
      /\ \A x \in DOMAIN o.history \ {k} : p.history[x] = o.history[x]
      /\ p.history[k] = OneMore(old, v, state)
      /\ old \in Versions
  BY PutIs
<1>2. old = IF k \in DOMAIN o.history THEN o.history[k] ELSE <<>>
  BY DEF VersionsOf, At
<1> HIDE DEF p, old
<1>3. ImagesOf(o, b + 1)
  BY ImagesGrow
<1> DEFINE Good(h, c) == \A i \in 1..Len(h) : h[i][2] # Gone =>
                        /\ \E x \in 0..(c - 1) : h[i][2].image = ImageAt(x)
                        /\ \A j \in 1..Len(h) :
                             h[j][2] # Gone /\ h[j][2].image = h[i][2].image => j = i
<1>4. \A x \in DOMAIN o.history : Good(o.history[x], b) /\ Good(o.history[x], b + 1)
  BY <1>3 DEF ImagesOf
<1>5. Good(old, b)
  BY <1>2, <1>4
<1>6. Good(p.history[k], b + 1)
  <2> DEFINE h == p.history[k]
  <2>0. h = OneMore(old, v, state)
    BY <1>1
  <2> HIDE DEF h
  <2>1. /\ Len(old) \in Nat /\ Len(h) = Len(old) + 1
        /\ h[Len(old) + 1][2] = state
        /\ \A i \in 1..Len(old) : h[i] = old[i]
    BY <1>1, <2>0 DEF OneMore, Versions
  <2>2. \A i \in 1..Len(h) : i \in 1..Len(old) \/ i = Len(old) + 1
    BY <2>1
  <2>3. b \in 0..((b + 1) - 1) /\ \A x \in 0..(b - 1) : x \in 0..((b + 1) - 1) /\ x \in Nat /\ x # b
    OBVIOUS
  <2>4. \A i \in 1..Len(old) : old[i][2] # Gone => old[i][2].image # ImageAt(b)
    BY <1>5, <2>3, ImagesDiffer
  <2>5. ASSUME NEW i \in 1..Len(h), h[i][2] # Gone
        PROVE  \E x \in 0..((b + 1) - 1) : h[i][2].image = ImageAt(x)
    <3>1. CASE i \in 1..Len(old)
      BY <1>5, <2>1, <2>3, <2>5, <3>1
    <3>2. CASE i = Len(old) + 1
      BY <2>1, <2>3, <2>5, <3>2
    <3> QED
      BY <2>2, <3>1, <3>2
  <2>6. ASSUME NEW i \in 1..Len(h), h[i][2] # Gone, NEW j \in 1..Len(h), h[j][2] # Gone,
               h[j][2].image = h[i][2].image
        PROVE  j = i
    <3>1. CASE i \in 1..Len(old) /\ j \in 1..Len(old)
      BY <1>5, <2>1, <2>6, <3>1
    <3>2. CASE i \in 1..Len(old) /\ j = Len(old) + 1
      BY <2>1, <2>4, <2>6, <3>2
    <3>3. CASE i = Len(old) + 1 /\ j \in 1..Len(old)
      BY <2>1, <2>4, <2>6, <3>3
    <3> QED
      BY <2>2, <3>1, <3>2, <3>3
  <2>7. Good(h, b + 1)
    BY <2>5, <2>6
  <2> HIDE DEF Good
  <2> QED
    BY <2>7 DEF h
<1>7. \A x \in DOMAIN p.history : Good(p.history[x], b + 1)
  <2> HIDE DEF Good
  <2> QED
    BY <1>1, <1>4, <1>6
<1>8. ImagesOf(p, b + 1)
  BY <1>7 DEF ImagesOf
<1> QED
  BY <1>8 DEF p

\* What an operation makes of the source's rows is what it makes of the oracle's.
LEMMA ExecuteIs ==
    ASSUME NEW s, NEW o \in OracleState(s), NEW op \in Operations(s), NEW v \in Nat,
           \A k \in DOMAIN o.rows : o.rows[k].tenant = TenantOf(s, k)
    PROVE  Execute(o.rows, op, v) = ApplyOperation(o, op, v).rows
<1> DEFINE k == KeyOf(op)
           p == Put(o, k, v, StateAfter(op, v))
<1>1. /\ op.op \in {"insert", "update", "delete"} /\ op.row.tenant = TenantOf(s, k)
      /\ k \in Key /\ StateAfter(op, v) \in State
      /\ StateAfter(op, v) = Gone <=> op.op = "delete"
  BY OperationIs DEF Operations
<1>2. /\ p.rows = IF StateAfter(op, v) = Gone THEN Without(o.rows, k)
                  ELSE With(o.rows, k, StateAfter(op, v))
  BY <1>1, PutIs
<1>3. o.rows \in MapOf(Key, RowState)
  BY DEF OracleState
<1>4. CASE op.op = "insert"
  <2>1. Execute(o.rows, op, v) = With(o.rows, k, StateOf(op, v))
    BY <1>4 DEF Execute
  <2>2. ApplyOperation(o, op, v) = p
    BY <1>4, ApplyIs
  <2> HIDE DEF p
  <2> QED
    BY <1>1, <1>2, <1>4, <2>1, <2>2 DEF StateAfter
<1>5. CASE op.op = "update"
  <2>1. Execute(o.rows, op, v) = IF k \in DOMAIN o.rows THEN With(o.rows, k, StateOf(op, v)) ELSE o.rows
    BY <1>5 DEF Execute
  <2>2. ApplyOperation(o, op, v) = IF k \in DOMAIN o.rows THEN p ELSE o
    BY <1>5, ApplyIs
  <2> HIDE DEF p
  <2> QED
    BY <1>1, <1>2, <1>5, <2>1, <2>2 DEF StateAfter
<1>6. CASE op.op = "delete"
  <2>1. Execute(o.rows, op, v) = IF k \in DOMAIN o.rows THEN Without(o.rows, k) ELSE o.rows
    BY <1>1, <1>6 DEF Execute
  <2>2. ApplyOperation(o, op, v) = p
    BY <1>6, ApplyIs
  <2>3. p.rows = Without(o.rows, k)
    BY <1>1, <1>2, <1>6
  <2>4. k \notin DOMAIN o.rows => Without(o.rows, k) = o.rows
    BY <1>3, WithoutIs
  <2> HIDE DEF p
  <2> QED
    BY <2>1, <2>2, <2>3, <2>4
<1> QED
  BY <1>1, <1>4, <1>5, <1>6

LEMMA MirrorGrows ==
    ASSUME NEW s, NEW o \in OracleState(s), NEW u \in Nat, NEW v \in Nat, u <= v, Mirrored(o, s, u)
    PROVE  Mirrored(o, s, v)
<1>1. \A key \in DOMAIN o.history : \A i \in 1..Len(o.history[key]) : o.history[key][i][1] \in Nat
  <2>1. o.history \in MapOf(Key, Versions)
    BY DEF OracleState
  <2>2. \A key \in DOMAIN o.history : o.history[key] \in Versions
    BY <2>1, MapIs
  <2> QED
    BY <2>2 DEF Versions
<1>2. \A key \in DOMAIN o.history : \A i \in 1..Len(o.history[key]) : o.history[key][i][1] <= v
  BY <1>1 DEF Mirrored
<1> QED
  BY <1>2 DEF Mirrored

\* One operation, of ordinal x, at LSN v.
LEMMA OperationStep ==
    ASSUME NEW s, NEW o \in OracleState(s), NEW op \in Operations(s), NEW v \in Nat
    PROVE  /\ ApplyOperation(o, op, v) \in OracleState(s)
           /\ ApplyOperation(o, op, v).hash = o.hash
           /\ ApplyOperation(o, op, v).counts = o.counts
           /\ ApplyOperation(o, op, v).lsn = o.lsn
           /\ \A target \in Nat : target < v =>
                RowsAt(ApplyOperation(o, op, v), target) = RowsAt(o, target)
           /\ \A u \in Nat : u <= v /\ Mirrored(o, s, u) =>
                /\ Mirrored(ApplyOperation(o, op, v), s, v)
                /\ Execute(o.rows, op, v) = ApplyOperation(o, op, v).rows
           /\ \A x \in Nat : ImagesOf(o, x) /\ op.image = ImageAt(x) =>
                ImagesOf(ApplyOperation(o, op, v), x + 1)
<1> DEFINE k == KeyOf(op)
           state == StateAfter(op, v)
           p == Put(o, k, v, state)
<1>1. /\ k \in Key /\ state \in State
      /\ state # Gone => state.tenant = TenantOf(s, k) /\ state.image = op.image
  <2>1. /\ k \in Key /\ state \in State /\ (state = Gone <=> op.op = "delete")
        /\ StateOf(op, v).tenant = TenantOf(s, k) /\ StateOf(op, v).image = op.image
    BY OperationIs
  <2>2. op.op # "delete" => state = StateOf(op, v)
    BY DEF StateAfter
  <2> QED
    BY <2>1, <2>2
<1>2. ASSUME NEW u \in Nat, Mirrored(o, s, u)
      PROVE  Execute(o.rows, op, v) = ApplyOperation(o, op, v).rows
  BY <1>2, ExecuteIs DEF Mirrored
<1>3. CASE ApplyOperation(o, op, v) = o
  <2>1. ASSUME NEW u \in Nat, u <= v, Mirrored(o, s, u) PROVE Mirrored(o, s, v)
    BY <2>1, MirrorGrows
  <2>2. ASSUME NEW x \in Nat, ImagesOf(o, x) PROVE ImagesOf(o, x + 1)
    BY <2>2, ImagesGrow
  <2> QED
    BY <1>2, <1>3, <2>1, <2>2
<1>4. CASE ApplyOperation(o, op, v) = p
  <2>1. p \in OracleState(s) /\ p.hash = o.hash /\ p.counts = o.counts /\ p.lsn = o.lsn
    BY <1>1, PutIs
  <2>2. \A target \in Nat : target < v => RowsAt(p, target) = RowsAt(o, target)
    BY <1>1, PutLater
  <2>3. \A u \in Nat : u <= v /\ Mirrored(o, s, u) => Mirrored(p, s, v)
    BY <1>1, PutMirrors
  <2>4. \A x \in Nat : ImagesOf(o, x) /\ op.image = ImageAt(x) => ImagesOf(p, x + 1)
    BY <1>1, PutImages
  <2> HIDE DEF p
  <2> QED
    BY <1>2, <1>4, <2>1, <2>2, <2>3, <2>4
<1> QED
  BY <1>3, <1>4, ApplyIs

-----------------------------------------------------------------------------
(***************************************************************************)
(* The recursions, unrolled.                                               *)
(***************************************************************************)
\* The books apply_unchecked keeps, after the operations.
Booked(o, plan, v) ==
    [o EXCEPT !.hash = With(@, plan.sequence, plan.operations),
              !.counts = With(@, plan.sequence, At(@, plan.sequence, 0) + 1),
              !.lsn = With(@, plan.sequence, v)]

\* g is apply_unchecked of a plan, operation by operation.
IsApplyRun(g, s, o, plan, v) ==
    /\ g \in [0..Len(plan.operations) -> OracleState(s)]
    /\ g[0] = o
    /\ \A i \in 1..Len(plan.operations) :
         g[i] = ApplyOperation(g[i - 1], plan.operations[i], v)
    /\ ApplyUnchecked(o, plan, v) = Booked(g[Len(plan.operations)], plan, v)

LEMMA ApplyRun ==
    ASSUME NEW s, NEW o \in OracleState(s), NEW plan, plan.operations \in Seq(Operations(s)),
           NEW v \in Nat
    PROVE  \E g : IsApplyRun(g, s, o, plan, v)
<1> DEFINE n == Len(plan.operations)
           T == OracleState(s)
           Step(f, i) == IF i = 0 THEN o ELSE ApplyOperation(f[i - 1], plan.operations[i], v)
           F == [i \in 1..n |-> [x \in T |-> ApplyOperation(x, plan.operations[i], v)]]
           after == CHOOSE f : f = [i \in 0..n |-> Step(f, i)]
<1>1. n \in Nat /\ \A i \in 1..n : plan.operations[i] \in Operations(s)
  OBVIOUS
<1>2. ApplyUnchecked(o, plan, v) = Booked(after[n], plan, v)
  BY DEF ApplyUnchecked, Booked
<1> HIDE DEF n, after
<1>3. \A i \in 1..n : \A x \in T : ApplyOperation(x, plan.operations[i], v) \in T
  BY <1>1, OperationStep
<1> HIDE DEF T
<1>4. \A i \in 1..n : \A x \in T : F[i][x] = ApplyOperation(x, plan.operations[i], v)
  OBVIOUS
<1>5. Maps(F, n, T)
  BY <1>3, <1>4 DEF Maps
<1> HIDE DEF F
<1>6. PICK g \in [0..n -> T] : IsRun(g, n, o, F)
  BY <1>1, <1>5, RunExists DEF T
<1>7. \A i \in 0..n : g[i] = Step(g, i)
  <2> SUFFICES ASSUME NEW i \in 0..n PROVE g[i] = Step(g, i)
    OBVIOUS
  <2>1. CASE i = 0
    BY <1>6, <2>1 DEF IsRun
  <2>2. CASE i # 0
    <3>1. i \in 1..n /\ i - 1 \in 0..n
      BY <1>1, <2>2
    <3>2. g[i] = F[i][g[i - 1]] /\ g[i - 1] \in T
      BY <1>6, <3>1 DEF IsRun
    <3> QED
      BY <1>4, <2>2, <3>1, <3>2
  <2> QED
    BY <2>1, <2>2
<1>8. g = [i \in 0..n |-> Step(g, i)]
  <2> HIDE DEF Step
  <2> QED
    BY <1>7
<1>9. after = [i \in 0..n |-> Step(after, i)]
  <2> HIDE DEF Step
  <2> QED
    BY <1>8 DEF after
<1>10. \A i \in 0..n : after[i] = Step(after, i)
  <2> HIDE DEF Step
  <2> QED
    BY <1>9
<1>11. after[0] = o /\ \A i \in 1..n : after[i] = ApplyOperation(after[i - 1], plan.operations[i], v)
  <2>1. 0 \in 0..n /\ \A i \in 1..n : i \in 0..n /\ i # 0
    BY <1>1
  <2> QED
    BY <1>10, <2>1
<1> HIDE DEF Step
<1>12. after \in [0..n -> T]
  <2> DEFINE G == {i \in 0..n : after[i] \in T}
  <2>1. 0 \in G
    BY <1>1, <1>11 DEF T
  <2>2. ASSUME NEW i \in 0..(n - 1), i \in G PROVE i + 1 \in G
    <3>1. i + 1 \in 1..n /\ i + 1 \in 0..n /\ (i + 1) - 1 = i
      BY <1>1
    <3>2. after[i + 1] = ApplyOperation(after[i], plan.operations[i + 1], v)
      BY <1>11, <3>1
    <3> QED
      BY <1>3, <2>2, <3>1, <3>2
  <2> HIDE DEF G
  <2>3. \A i \in 0..n : i \in G
    BY <1>1, <2>1, <2>2, IntervalInduction
  <2>4. \A i \in 0..n : after[i] \in T
    BY <2>3 DEF G
  <2>5. after = [i \in 0..n |-> after[i]]
    BY <1>9
  <2> HIDE DEF after
  <2> QED
    BY <2>4, <2>5
<1> HIDE DEF after
<1>13. IsApplyRun(after, s, o, plan, v)
  BY <1>2, <1>11, <1>12 DEF T, n, IsApplyRun
<1> QED
  BY <1>13

LEMMA ExecuteType ==
    ASSUME NEW s, NEW rows \in MapOf(Key, RowState), NEW op \in Operations(s), NEW v \in Nat
    PROVE  Execute(rows, op, v) \in MapOf(Key, RowState)
<1>1. KeyOf(op) \in Key /\ StateOf(op, v) \in RowState
  BY OperationIs
<1>2. With(rows, KeyOf(op), StateOf(op, v)) \in MapOf(Key, RowState)
  BY <1>1, WithType
<1>3. Without(rows, KeyOf(op)) \in MapOf(Key, RowState)
  BY WithoutIs
<1>4. Execute(rows, op, v) \in {With(rows, KeyOf(op), StateOf(op, v)), Without(rows, KeyOf(op)), rows}
  BY DEF Execute
<1> QED
  BY <1>2, <1>3, <1>4

\* h is a transaction of the source, operation by operation.
IsExecutedRun(h, rows, operations, v) ==
    /\ h \in [0..Len(operations) -> MapOf(Key, RowState)]
    /\ h[0] = rows
    /\ \A i \in 1..Len(operations) : h[i] = Execute(h[i - 1], operations[i], v)
    /\ Executed(rows, operations, v) = h[Len(operations)]

LEMMA ExecutedRun ==
    ASSUME NEW s, NEW rows \in MapOf(Key, RowState), NEW operations \in Seq(Operations(s)),
           NEW v \in Nat
    PROVE  \E h : IsExecutedRun(h, rows, operations, v)
<1> DEFINE n == Len(operations)
           T == MapOf(Key, RowState)
           Step(f, i) == IF i = 0 THEN rows ELSE Execute(f[i - 1], operations[i], v)
           F == [i \in 1..n |-> [x \in T |-> Execute(x, operations[i], v)]]
           after == CHOOSE f : f = [i \in 0..n |-> Step(f, i)]
<1>1. n \in Nat /\ rows \in T /\ \A i \in 1..n : operations[i] \in Operations(s)
  OBVIOUS
<1>2. Executed(rows, operations, v) = after[n]
  BY DEF Executed
<1> HIDE DEF n, after
<1>3. \A i \in 1..n : \A x \in T : Execute(x, operations[i], v) \in T
  BY <1>1, ExecuteType
<1> HIDE DEF T
<1>4. \A i \in 1..n : \A x \in T : F[i][x] = Execute(x, operations[i], v)
  OBVIOUS
<1>5. Maps(F, n, T)
  BY <1>3, <1>4 DEF Maps
<1> HIDE DEF F
<1>6. PICK g \in [0..n -> T] : IsRun(g, n, rows, F)
  BY <1>1, <1>5, RunExists
<1>7. \A i \in 0..n : g[i] = Step(g, i)
  <2> SUFFICES ASSUME NEW i \in 0..n PROVE g[i] = Step(g, i)
    OBVIOUS
  <2>1. CASE i = 0
    BY <1>6, <2>1 DEF IsRun
  <2>2. CASE i # 0
    <3>1. i \in 1..n /\ i - 1 \in 0..n
      BY <1>1, <2>2
    <3>2. g[i] = F[i][g[i - 1]] /\ g[i - 1] \in T
      BY <1>6, <3>1 DEF IsRun
    <3> QED
      BY <1>4, <2>2, <3>1, <3>2
  <2> QED
    BY <2>1, <2>2
<1>8. g = [i \in 0..n |-> Step(g, i)]
  <2> HIDE DEF Step
  <2> QED
    BY <1>7
<1>9. after = [i \in 0..n |-> Step(after, i)]
  <2> HIDE DEF Step
  <2> QED
    BY <1>8 DEF after
<1>10. \A i \in 0..n : after[i] = Step(after, i)
  <2> HIDE DEF Step
  <2> QED
    BY <1>9
<1>11. after[0] = rows /\ \A i \in 1..n : after[i] = Execute(after[i - 1], operations[i], v)
  <2>1. 0 \in 0..n /\ \A i \in 1..n : i \in 0..n /\ i # 0
    BY <1>1
  <2> QED
    BY <1>10, <2>1
<1> HIDE DEF Step
<1>12. after \in [0..n -> T]
  <2> DEFINE G == {i \in 0..n : after[i] \in T}
  <2>1. 0 \in G
    BY <1>1, <1>11 DEF T
  <2>2. ASSUME NEW i \in 0..(n - 1), i \in G PROVE i + 1 \in G
    <3>1. i + 1 \in 1..n /\ i + 1 \in 0..n /\ (i + 1) - 1 = i
      BY <1>1
    <3>2. after[i + 1] = Execute(after[i], operations[i + 1], v)
      BY <1>11, <3>1
    <3> QED
      BY <1>3, <2>2, <3>1, <3>2
  <2> HIDE DEF G
  <2>3. \A i \in 0..n : i \in G
    BY <1>1, <2>1, <2>2, IntervalInduction
  <2>4. \A i \in 0..n : after[i] \in T
    BY <2>3 DEF G
  <2>5. after = [i \in 0..n |-> after[i]]
    BY <1>9
  <2> HIDE DEF after
  <2> QED
    BY <2>4, <2>5
<1> HIDE DEF after
<1>13. IsExecutedRun(after, rows, operations, v)
  BY <1>2, <1>11, <1>12 DEF T, n, IsExecutedRun
<1> QED
  BY <1>13

LEMMA NewOracleType == \A s : NewOracle \in OracleState(s)
BY EmptyMap DEF NewOracle, OracleState

\* A plan applied none, one or two times.
AppliedTimes(o, plan, v, times) ==
    CASE times = 0 -> o
      [] times = 1 -> ApplyUnchecked(o, plan, v)
      [] times = 2 -> ApplyUnchecked(ApplyUnchecked(o, plan, v), plan, v)

LEMMA BookedIs ==
    ASSUME NEW s, NEW o \in OracleState(s), NEW plan, plan.operations \in Seq(Operations(s)),
           plan.sequence \in Nat, NEW v \in Nat
    PROVE  /\ Booked(o, plan, v) \in OracleState(s)
           /\ Booked(o, plan, v).rows = o.rows
           /\ Booked(o, plan, v).history = o.history
           /\ Booked(o, plan, v).hash = With(o.hash, plan.sequence, plan.operations)
           /\ Booked(o, plan, v).counts = With(o.counts, plan.sequence, At(o.counts, plan.sequence, 0) + 1)
           /\ Booked(o, plan, v).lsn = With(o.lsn, plan.sequence, v)
<1>1. /\ o.hash \in MapOf(Nat, Seq(Operations(s))) /\ o.counts \in MapOf(Nat, Nat)
      /\ o.lsn \in MapOf(Nat, Nat)
  BY DEF OracleState
<1>2. At(o.counts, plan.sequence, 0) + 1 \in Nat
  BY <1>1, MapIs DEF At
<1>3. /\ With(o.hash, plan.sequence, plan.operations) \in MapOf(Nat, Seq(Operations(s)))
      /\ With(o.counts, plan.sequence, At(o.counts, plan.sequence, 0) + 1) \in MapOf(Nat, Nat)
      /\ With(o.lsn, plan.sequence, v) \in MapOf(Nat, Nat)
  BY <1>1, <1>2, WithType
<1> QED
  BY <1>3 DEF OracleState, Booked

LEMMA BookedRows ==
    ASSUME NEW s, NEW o \in OracleState(s), NEW plan, NEW v
    PROVE  Booked(o, plan, v).rows = o.rows /\ Booked(o, plan, v).history = o.history
BY DEF Booked, OracleState

LEMMA ApplyType ==
    ASSUME NEW s, NEW o \in OracleState(s), NEW plan, plan.operations \in Seq(Operations(s)),
           plan.sequence \in Nat, NEW v \in Nat
    PROVE  ApplyUnchecked(o, plan, v) \in OracleState(s)
<1>1. PICK g : IsApplyRun(g, s, o, plan, v)
  BY ApplyRun
<1>2. Len(plan.operations) \in 0..Len(plan.operations)
  OBVIOUS
<1>3. /\ g[Len(plan.operations)] \in OracleState(s)
      /\ ApplyUnchecked(o, plan, v) = Booked(g[Len(plan.operations)], plan, v)
  BY <1>1, <1>2 DEF IsApplyRun
<1> QED
  BY <1>3, BookedIs

\* f is a replay, plan by plan.
IsReplayRun(f, s, plans, lsns, times) ==
    /\ f \in [0..Len(plans) -> OracleState(s)]
    /\ f[0] = NewOracle
    /\ \A i \in 1..Len(plans) : f[i] = AppliedTimes(f[i - 1], plans[i], lsns[i], times[i])

Replayable(s, plans, lsns, times) ==
    \A i \in 1..Len(plans) : /\ plans[i].operations \in Seq(Operations(s))
                             /\ plans[i].sequence \in Nat
                             /\ lsns[i] \in Nat /\ times[i] \in 0..2

LEMMA ReplayRun ==
    ASSUME NEW s, NEW plans, NEW lsns, NEW times, Len(plans) \in Nat,
           Replayable(s, plans, lsns, times)
    PROVE  IsReplayRun(Replay(plans, lsns, times), s, plans, lsns, times)
<1> DEFINE n == Len(plans)
           T == OracleState(s)
           Step1(x, i) == AppliedTimes(x, plans[i], lsns[i], times[i])
           Step(f, i) == IF i = 0 THEN NewOracle ELSE Step1(f[i - 1], i)
           F == [i \in 1..n |-> [x \in T |-> Step1(x, i)]]
           after == CHOOSE f : f = [i \in 0..n |-> Step(f, i)]
<1>1. n \in Nat /\ NewOracle \in T
  BY NewOracleType
<1>2. Replay(plans, lsns, times) = after
  BY DEF Replay, AppliedTimes
<1> HIDE DEF after
<1>3. \A i \in 1..n : \A x \in T : Step1(x, i) \in T
  <2> SUFFICES ASSUME NEW i \in 1..n, NEW x \in T PROVE Step1(x, i) \in T
    OBVIOUS
  <2>1. /\ plans[i].operations \in Seq(Operations(s)) /\ plans[i].sequence \in Nat
        /\ lsns[i] \in Nat /\ times[i] \in {0, 1, 2}
    BY DEF Replayable
  <2>2. ApplyUnchecked(x, plans[i], lsns[i]) \in T
    BY <2>1, ApplyType
  <2>3. ApplyUnchecked(ApplyUnchecked(x, plans[i], lsns[i]), plans[i], lsns[i]) \in T
    BY <2>1, <2>2, ApplyType
  <2> QED
    BY <2>1, <2>2, <2>3 DEF AppliedTimes
<1> HIDE DEF n, Step1
<1> HIDE DEF T
<1>4. \A i \in 1..n : \A x \in T : F[i][x] = Step1(x, i)
  OBVIOUS
<1>5. Maps(F, n, T)
  BY <1>3, <1>4 DEF Maps
<1> HIDE DEF F
<1>6. PICK g \in [0..n -> T] : IsRun(g, n, NewOracle, F)
  BY <1>1, <1>5, RunExists
<1>7. \A i \in 0..n : g[i] = Step(g, i)
  <2> SUFFICES ASSUME NEW i \in 0..n PROVE g[i] = Step(g, i)
    OBVIOUS
  <2>1. CASE i = 0
    BY <1>6, <2>1 DEF IsRun
  <2>2. CASE i # 0
    <3>1. i \in 1..n /\ i - 1 \in 0..n
      BY <1>1, <2>2
    <3>2. g[i] = F[i][g[i - 1]] /\ g[i - 1] \in T
      BY <1>6, <3>1 DEF IsRun
    <3> QED
      BY <1>4, <2>2, <3>1, <3>2
  <2> QED
    BY <2>1, <2>2
<1>8. g = [i \in 0..n |-> Step(g, i)]
  <2> HIDE DEF Step
  <2> QED
    BY <1>7
<1>9. after = [i \in 0..n |-> Step(after, i)]
  <2> HIDE DEF Step
  <2> QED
    BY <1>8 DEF after
<1>10. \A i \in 0..n : after[i] = Step(after, i)
  <2> HIDE DEF Step
  <2> QED
    BY <1>9
<1>11. after[0] = NewOracle /\ \A i \in 1..n : after[i] = Step1(after[i - 1], i)
  <2>1. 0 \in 0..n /\ \A i \in 1..n : i \in 0..n /\ i # 0
    BY <1>1
  <2> QED
    BY <1>10, <2>1
<1> HIDE DEF Step
<1>12. after \in [0..n -> T]
  <2> DEFINE G == {i \in 0..n : after[i] \in T}
  <2>1. 0 \in G
    BY <1>1, <1>11 DEF T
  <2>2. ASSUME NEW i \in 0..(n - 1), i \in G PROVE i + 1 \in G
    <3>1. i + 1 \in 1..n /\ i + 1 \in 0..n /\ (i + 1) - 1 = i
      BY <1>1
    <3>2. after[i + 1] = Step1(after[i], i + 1)
      BY <1>11, <3>1
    <3> QED
      BY <1>3, <2>2, <3>1, <3>2
  <2> HIDE DEF G
  <2>3. \A i \in 0..n : i \in G
    BY <1>1, <2>1, <2>2, IntervalInduction
  <2>4. \A i \in 0..n : after[i] \in T
    BY <2>3 DEF G
  <2>5. after = [i \in 0..n |-> after[i]]
    BY <1>9
  <2> HIDE DEF after
  <2> QED
    BY <2>4, <2>5
<1> HIDE DEF after
<1> QED
  BY <1>2, <1>11, <1>12 DEF T, n, Step1, IsReplayRun

\* The source's rows, transaction by transaction.
LEMMA SourceRun ==
    ASSUME NEW s, s = seed, Len(markers) \in Nat,
           \A t \in 1..Len(markers) : Plan(s, markers[t]).operations \in Seq(Operations(s))
    PROVE  /\ SourceRows \in [0..Len(markers) -> MapOf(Key, RowState)]
           /\ SourceRows[0] = NoEntries
           /\ \A t \in 1..Len(markers) :
                SourceRows[t] = Executed(SourceRows[t - 1], Plan(s, markers[t]).operations, t)
<1> DEFINE n == Len(markers)
           T == MapOf(Key, RowState)
           Step1(x, i) == Executed(x, Plan(s, markers[i]).operations, i)
           Step(f, i) == IF i = 0 THEN NoEntries ELSE Step1(f[i - 1], i)
           F == [i \in 1..n |-> [x \in T |-> Step1(x, i)]]
           after == CHOOSE f : f = [i \in 0..n |-> Step(f, i)]
<1>1. n \in Nat /\ NoEntries \in T
  BY EmptyMap
<1>2. SourceRows = after
  BY DEF SourceRows
<1> HIDE DEF after
<1>3. \A i \in 1..n : \A x \in T : Step1(x, i) \in T
  <2> SUFFICES ASSUME NEW i \in 1..n, NEW x \in T PROVE Step1(x, i) \in T
    OBVIOUS
  <2>1. Plan(s, markers[i]).operations \in Seq(Operations(s)) /\ i \in Nat
    OBVIOUS
  <2> DEFINE operations == Plan(s, markers[i]).operations
  <2> HIDE DEF operations
  <2>2. operations \in Seq(Operations(s))
    BY <2>1 DEF operations
  <2>3. PICK h : IsExecutedRun(h, x, operations, i)
    BY <2>1, <2>2, ExecutedRun
  <2>4. Len(operations) \in 0..Len(operations)
    BY <2>2
  <2> QED
    BY <2>3, <2>4 DEF operations, IsExecutedRun
<1> HIDE DEF n, Step1
<1> HIDE DEF T
<1>4. \A i \in 1..n : \A x \in T : F[i][x] = Step1(x, i)
  OBVIOUS
<1>5. Maps(F, n, T)
  BY <1>3, <1>4 DEF Maps
<1> HIDE DEF F
<1>6. PICK g \in [0..n -> T] : IsRun(g, n, NoEntries, F)
  BY <1>1, <1>5, RunExists
<1>7. \A i \in 0..n : g[i] = Step(g, i)
  <2> SUFFICES ASSUME NEW i \in 0..n PROVE g[i] = Step(g, i)
    OBVIOUS
  <2>1. CASE i = 0
    BY <1>6, <2>1 DEF IsRun
  <2>2. CASE i # 0
    <3>1. i \in 1..n /\ i - 1 \in 0..n
      BY <1>1, <2>2
    <3>2. g[i] = F[i][g[i - 1]] /\ g[i - 1] \in T
      BY <1>6, <3>1 DEF IsRun
    <3> QED
      BY <1>4, <2>2, <3>1, <3>2
  <2> QED
    BY <2>1, <2>2
<1>8. g = [i \in 0..n |-> Step(g, i)]
  <2> HIDE DEF Step
  <2> QED
    BY <1>7
<1>9. after = [i \in 0..n |-> Step(after, i)]
  <2> HIDE DEF Step
  <2> QED
    BY <1>8 DEF after
<1>10. \A i \in 0..n : after[i] = Step(after, i)
  <2> HIDE DEF Step
  <2> QED
    BY <1>9
<1>11. after[0] = NoEntries /\ \A i \in 1..n : after[i] = Step1(after[i - 1], i)
  <2>1. 0 \in 0..n /\ \A i \in 1..n : i \in 0..n /\ i # 0
    BY <1>1
  <2> QED
    BY <1>10, <2>1
<1> HIDE DEF Step
<1>12. after \in [0..n -> T]
  <2> DEFINE G == {i \in 0..n : after[i] \in T}
  <2>1. 0 \in G
    BY <1>1, <1>11 DEF T
  <2>2. ASSUME NEW i \in 0..(n - 1), i \in G PROVE i + 1 \in G
    <3>1. i + 1 \in 1..n /\ i + 1 \in 0..n /\ (i + 1) - 1 = i
      BY <1>1
    <3>2. after[i + 1] = Step1(after[i], i + 1)
      BY <1>11, <3>1
    <3> QED
      BY <1>3, <2>2, <3>1, <3>2
  <2> HIDE DEF G
  <2>3. \A i \in 0..n : i \in G
    BY <1>1, <2>1, <2>2, IntervalInduction
  <2>4. \A i \in 0..n : after[i] \in T
    BY <2>3 DEF G
  <2>5. after = [i \in 0..n |-> after[i]]
    BY <1>9
  <2> HIDE DEF after
  <2> QED
    BY <2>4, <2>5
<1> HIDE DEF after
<1> QED
  BY <1>2, <1>11, <1>12 DEF T, n, Step1

-----------------------------------------------------------------------------
(***************************************************************************)
(* One plan.                                                               *)
(***************************************************************************)
LEMMA SameHistory ==
    ASSUME NEW s, NEW o, NEW p, p.rows = o.rows, p.history = o.history
    PROVE  /\ \A target : RowsAt(p, target) = RowsAt(o, target)
           /\ \A v : Mirrored(o, s, v) => Mirrored(p, s, v)
           /\ \A b : ImagesOf(o, b) => ImagesOf(p, b)
BY DEF RowsAt, Mirrored, ImagesOf

\* The books, and what was said before.
LEMMA PlanBooks ==
    ASSUME NEW s, NEW o \in OracleState(s), NEW plan, plan.operations \in Seq(Operations(s)),
           plan.sequence \in Nat, NEW v \in Nat
    PROVE  /\ ApplyUnchecked(o, plan, v) \in OracleState(s)
           /\ ApplyUnchecked(o, plan, v).hash = With(o.hash, plan.sequence, plan.operations)
           /\ ApplyUnchecked(o, plan, v).counts
                = With(o.counts, plan.sequence, At(o.counts, plan.sequence, 0) + 1)
           /\ ApplyUnchecked(o, plan, v).lsn = With(o.lsn, plan.sequence, v)
           /\ \A target \in Nat : target < v =>
                RowsAt(ApplyUnchecked(o, plan, v), target) = RowsAt(o, target)
<1> DEFINE n == Len(plan.operations)
<1>0. PICK g : IsApplyRun(g, s, o, plan, v)
  BY ApplyRun
<1>1. /\ g \in [0..n -> OracleState(s)]
      /\ g[0] = o
      /\ \A i \in 1..n : g[i] = ApplyOperation(g[i - 1], plan.operations[i], v)
      /\ ApplyUnchecked(o, plan, v) = Booked(g[n], plan, v)
  BY <1>0 DEF IsApplyRun
<1>2. n \in Nat /\ \A i \in 1..n : plan.operations[i] \in Operations(s)
  OBVIOUS
<1> HIDE DEF n
<1> DEFINE Same(x) == /\ x.hash = o.hash /\ x.counts = o.counts /\ x.lsn = o.lsn
                      /\ \A target \in Nat : target < v => RowsAt(x, target) = RowsAt(o, target)
           G == {i \in 0..n : Same(g[i])}
<1>3. 0 \in G
  BY <1>1, <1>2
<1>4. ASSUME NEW i \in 0..(n - 1), i \in G PROVE i + 1 \in G
  <2>1. i + 1 \in 1..n /\ i + 1 \in 0..n /\ (i + 1) - 1 = i /\ i \in 0..n
    BY <1>2
  <2>2. /\ g[i] \in OracleState(s) /\ plan.operations[i + 1] \in Operations(s)
        /\ g[i + 1] = ApplyOperation(g[i], plan.operations[i + 1], v)
    BY <1>1, <1>2, <2>1
  <2>3. /\ g[i + 1].hash = g[i].hash /\ g[i + 1].counts = g[i].counts /\ g[i + 1].lsn = g[i].lsn
        /\ \A target \in Nat : target < v => RowsAt(g[i + 1], target) = RowsAt(g[i], target)
    <3>1. PICK a \in OracleState(s), op \in Operations(s) : a = g[i] /\ op = plan.operations[i + 1]
      BY <2>2
    <3>2. g[i + 1] = ApplyOperation(a, op, v)
      BY <2>2, <3>1
    <3>3. /\ ApplyOperation(a, op, v).hash = a.hash
          /\ ApplyOperation(a, op, v).counts = a.counts
          /\ ApplyOperation(a, op, v).lsn = a.lsn
          /\ \A target \in Nat : target < v => RowsAt(ApplyOperation(a, op, v), target) = RowsAt(a, target)
      BY OperationStep
    <3> QED
      BY <3>1, <3>2, <3>3
  <2>4. Same(g[i + 1])
    BY <1>4, <2>3
  <2> HIDE DEF Same
  <2> QED
    BY <2>1, <2>4
<1> HIDE DEF G
<1>5. n \in G
  <2>1. \A i \in 0..n : i \in G
    BY <1>2, <1>3, <1>4, IntervalInduction
  <2> QED
    BY <1>2, <2>1
<1>6. Same(g[n])
  BY <1>5 DEF G
<1>7. g[n] \in OracleState(s)
  BY <1>1, <1>2
<1>last. PICK last \in OracleState(s) : last = g[n]
  BY <1>7
<1> DEFINE p == Booked(last, plan, v)
<1>8. /\ p \in OracleState(s) /\ p.rows = last.rows /\ p.history = last.history
      /\ p.hash = With(last.hash, plan.sequence, plan.operations)
      /\ p.counts = With(last.counts, plan.sequence, At(last.counts, plan.sequence, 0) + 1)
      /\ p.lsn = With(last.lsn, plan.sequence, v)
  BY BookedIs
<1>9. Same(last)
  BY <1>6, <1>last
<1>10. ApplyUnchecked(o, plan, v) = p
  BY <1>1, <1>last
<1> HIDE DEF p
<1>11. \A target : RowsAt(p, target) = RowsAt(last, target)
  BY <1>8, SameHistory
<1> QED
  BY <1>8, <1>9, <1>10, <1>11

\* The rows are the source's.
LEMMA PlanMirrors ==
    ASSUME NEW s, NEW o \in OracleState(s), NEW plan, plan.operations \in Seq(Operations(s)),
           plan.sequence \in Nat, NEW v \in Nat, NEW u \in Nat, u <= v, Mirrored(o, s, u)
    PROVE  /\ Mirrored(ApplyUnchecked(o, plan, v), s, v)
           /\ ApplyUnchecked(o, plan, v).rows = Executed(o.rows, plan.operations, v)
<1> DEFINE n == Len(plan.operations)
<1>0. PICK g : IsApplyRun(g, s, o, plan, v)
  BY ApplyRun
<1>1. /\ g \in [0..n -> OracleState(s)]
      /\ g[0] = o
      /\ \A i \in 1..n : g[i] = ApplyOperation(g[i - 1], plan.operations[i], v)
      /\ ApplyUnchecked(o, plan, v) = Booked(g[n], plan, v)
  BY <1>0 DEF IsApplyRun
<1>2. PICK h : IsExecutedRun(h, o.rows, plan.operations, v)
  <2>1. o.rows \in MapOf(Key, RowState)
    BY DEF OracleState
  <2> QED
    BY <2>1, ExecutedRun
<1>chain. /\ h[0] = o.rows
          /\ \A i \in 1..n : h[i] = Execute(h[i - 1], plan.operations[i], v)
          /\ Executed(o.rows, plan.operations, v) = h[n]
  BY <1>2 DEF IsExecutedRun
<1>3. n \in Nat /\ \A i \in 1..n : plan.operations[i] \in Operations(s)
  OBVIOUS
<1> HIDE DEF n
<1> DEFINE G == {i \in 0..n : Mirrored(g[i], s, v) /\ g[i].rows = h[i]}
<1>4. 0 \in G
  BY <1>1, <1>chain, <1>3, MirrorGrows
<1>5. ASSUME NEW i \in 0..(n - 1), i \in G PROVE i + 1 \in G
  <2>1. i + 1 \in 1..n /\ i + 1 \in 0..n /\ (i + 1) - 1 = i /\ i \in 0..n
    BY <1>3
  <2>2. /\ g[i] \in OracleState(s) /\ plan.operations[i + 1] \in Operations(s)
        /\ g[i + 1] = ApplyOperation(g[i], plan.operations[i + 1], v)
        /\ h[i + 1] = Execute(h[i], plan.operations[i + 1], v)
    BY <1>1, <1>chain, <1>3, <2>1
  <2>3. Mirrored(g[i], s, v) /\ g[i].rows = h[i] /\ v <= v
    BY <1>5
  <2>4. /\ Mirrored(g[i + 1], s, v)
        /\ Execute(g[i].rows, plan.operations[i + 1], v) = g[i + 1].rows
    <3>1. PICK a \in OracleState(s), op \in Operations(s) : a = g[i] /\ op = plan.operations[i + 1]
      BY <2>2
    <3>2. g[i + 1] = ApplyOperation(a, op, v) /\ Mirrored(a, s, v) /\ v <= v /\ v \in Nat
      BY <2>2, <2>3, <3>1
    <3>3. Mirrored(ApplyOperation(a, op, v), s, v) /\ Execute(a.rows, op, v) = ApplyOperation(a, op, v).rows
      BY <3>2, OperationStep
    <3> QED
      BY <3>1, <3>2, <3>3
  <2> QED
    BY <2>1, <2>2, <2>3, <2>4
<1> HIDE DEF G
<1>6. n \in G
  <2>1. \A i \in 0..n : i \in G
    BY <1>3, <1>4, <1>5, IntervalInduction
  <2> QED
    BY <1>3, <2>1
<1>7. Mirrored(g[n], s, v) /\ g[n].rows = h[n]
  BY <1>6 DEF G
<1>8. g[n] \in OracleState(s)
  BY <1>1, <1>3
<1>9. PICK last \in OracleState(s) : last = g[n]
  BY <1>8
<1> DEFINE p == Booked(last, plan, v)
<1>10. p.rows = last.rows /\ p.history = last.history
  BY BookedRows
<1>11. ApplyUnchecked(o, plan, v) = p
  BY <1>1, <1>9
<1> HIDE DEF p
<1>12. Mirrored(last, s, v) /\ last.rows = h[n]
  BY <1>7, <1>9
<1>13. Mirrored(p, s, v)
  BY <1>10, <1>12, SameHistory
<1>14. Executed(o.rows, plan.operations, v) = h[n]
  BY <1>chain
<1>15. p.rows = Executed(o.rows, plan.operations, v)
  BY <1>10, <1>12, <1>14
<1> QED
  BY <1>11, <1>13, <1>15

\* The images stay apart.
LEMMA PlanImages ==
    ASSUME NEW s, NEW o \in OracleState(s), NEW plan, plan.operations \in Seq(Operations(s)),
           plan.sequence \in Nat, NEW v \in Nat, NEW x \in Nat, ImagesOf(o, x),
           \A i \in 1..Len(plan.operations) : plan.operations[i].image = ImageAt(x + i - 1)
    PROVE  ImagesOf(ApplyUnchecked(o, plan, v), x + Len(plan.operations))
<1> DEFINE n == Len(plan.operations)
<1>0. PICK g : IsApplyRun(g, s, o, plan, v)
  BY ApplyRun
<1>1. /\ g \in [0..n -> OracleState(s)]
      /\ g[0] = o
      /\ \A i \in 1..n : g[i] = ApplyOperation(g[i - 1], plan.operations[i], v)
      /\ ApplyUnchecked(o, plan, v) = Booked(g[n], plan, v)
  BY <1>0 DEF IsApplyRun
<1>2. n \in Nat /\ \A i \in 1..n : plan.operations[i] \in Operations(s)
  OBVIOUS
<1>3. \A i \in 1..n : plan.operations[i].image = ImageAt(x + i - 1)
  OBVIOUS
<1> HIDE DEF n
<1> DEFINE G == {i \in 0..n : ImagesOf(g[i], x + i)}
<1>4. 0 \in G
  BY <1>1, <1>2
<1>5. ASSUME NEW i \in 0..(n - 1), i \in G PROVE i + 1 \in G
  <2>1. i + 1 \in 1..n /\ i + 1 \in 0..n /\ (i + 1) - 1 = i /\ i \in 0..n
    BY <1>2
  <2>2. /\ g[i] \in OracleState(s) /\ plan.operations[i + 1] \in Operations(s)
        /\ g[i + 1] = ApplyOperation(g[i], plan.operations[i + 1], v)
    BY <1>1, <1>2, <2>1
  <2>3. x + i \in Nat /\ x + (i + 1) - 1 = x + i /\ x + (i + 1) = (x + i) + 1
    BY <2>1, <1>2
  <2>4. plan.operations[i + 1].image = ImageAt(x + i)
    BY <1>3, <2>1, <2>3
  <2>5. ImagesOf(g[i], x + i)
    BY <1>5
  <2>6. ImagesOf(g[i + 1], (x + i) + 1)
    <3>1. PICK a \in OracleState(s), op \in Operations(s), y \in Nat :
              a = g[i] /\ op = plan.operations[i + 1] /\ y = x + i
      BY <2>2, <2>3
    <3>2. g[i + 1] = ApplyOperation(a, op, v) /\ ImagesOf(a, y) /\ op.image = ImageAt(y)
      BY <2>2, <2>4, <2>5, <3>1
    <3>3. ImagesOf(ApplyOperation(a, op, v), y + 1)
      BY <3>2, OperationStep
    <3> QED
      BY <3>1, <3>2, <3>3
  <2> QED
    BY <2>1, <2>3, <2>6
<1> HIDE DEF G
<1>6. n \in G
  <2>1. \A i \in 0..n : i \in G
    BY <1>2, <1>4, <1>5, IntervalInduction
  <2> QED
    BY <1>2, <2>1
<1>7. ImagesOf(g[n], x + n) /\ g[n] \in OracleState(s)
  BY <1>1, <1>2, <1>6 DEF G
<1>8. PICK last \in OracleState(s) : last = g[n]
  BY <1>7
<1> DEFINE p == Booked(last, plan, v)
<1>9. p.rows = last.rows /\ p.history = last.history
  BY BookedRows
<1>10. ApplyUnchecked(o, plan, v) = p
  BY <1>1, <1>8
<1> HIDE DEF p
<1>11. ImagesOf(p, x + n)
  <2>1. ImagesOf(last, x + n)
    BY <1>7, <1>8
  <2> QED
    BY <1>9, <2>1, SameHistory
<1> QED
  BY <1>10, <1>11 DEF n

-----------------------------------------------------------------------------
(***************************************************************************)
(* A replay of the first N plans, each at the LSN of its number.           *)
(***************************************************************************)
Listed(s, N, plans, lsns) ==
    /\ DOMAIN plans = 1..N /\ Len(plans) = N
    /\ \A n \in 1..N : plans[n] = Plan(s, n) /\ lsns[n] = n

\* What a replay's books say: the plans not dropped, at their LSNs, as often as
\* they were applied.
BooksAre(o, s, n, times) ==
    /\ \A j : j \in DOMAIN o.hash <=> j \in 1..n /\ times[j] # 0
    /\ \A j : j \in DOMAIN o.counts <=> j \in 1..n /\ times[j] # 0
    /\ \A j : j \in DOMAIN o.lsn <=> j \in 1..n /\ times[j] # 0
    /\ \A j \in 1..n : times[j] # 0 => /\ o.hash[j] = Plan(s, j).operations
                                       /\ o.counts[j] = times[j]
                                       /\ o.lsn[j] = j

\* One application of plan n: the books count one more.
LEMMA BooksStep ==
    ASSUME NEW s, MixIsU64(s), NEW n \in Nat \ {0}, NEW o \in OracleState(s)
    PROVE  LET p == ApplyUnchecked(o, Plan(s, n), n) IN
           /\ p \in OracleState(s)
           /\ \A j : j \in DOMAIN p.hash <=> j \in DOMAIN o.hash \/ j = n
           /\ \A j : j \in DOMAIN p.counts <=> j \in DOMAIN o.counts \/ j = n
           /\ \A j : j \in DOMAIN p.lsn <=> j \in DOMAIN o.lsn \/ j = n
           /\ \A j \in DOMAIN o.hash \ {n} : p.hash[j] = o.hash[j]
           /\ \A j \in DOMAIN o.counts \ {n} : p.counts[j] = o.counts[j]
           /\ \A j \in DOMAIN o.lsn \ {n} : p.lsn[j] = o.lsn[j]
           /\ p.hash[n] = Plan(s, n).operations
           /\ p.counts[n] = At(o.counts, n, 0) + 1
           /\ p.lsn[n] = n
<1> DEFINE p == ApplyUnchecked(o, Plan(s, n), n)
<1>1. Plan(s, n).operations \in Seq(Operations(s)) /\ Plan(s, n).sequence = n
  BY PlanIs
<1>2. PICK plan : plan = Plan(s, n)
  OBVIOUS
<1>3. plan.operations \in Seq(Operations(s)) /\ plan.sequence \in Nat /\ n \in Nat /\ plan.sequence = n
  BY <1>1, <1>2
<1>4. p = ApplyUnchecked(o, plan, n)
  BY <1>2
<1> HIDE DEF p
<1>5. /\ p \in OracleState(s)
      /\ p.hash = With(o.hash, plan.sequence, plan.operations)
      /\ p.counts = With(o.counts, plan.sequence, At(o.counts, plan.sequence, 0) + 1)
      /\ p.lsn = With(o.lsn, plan.sequence, n)
  BY <1>3, <1>4, PlanBooks
<1>6. /\ p.hash = With(o.hash, n, plan.operations)
      /\ p.counts = With(o.counts, n, At(o.counts, n, 0) + 1)
      /\ p.lsn = With(o.lsn, n, n)
  BY <1>3, <1>5
<1>7. /\ \A j : j \in DOMAIN p.hash <=> j \in DOMAIN o.hash \/ j = n
      /\ \A j \in DOMAIN o.hash \ {n} : p.hash[j] = o.hash[j]
      /\ p.hash[n] = plan.operations
  BY <1>6, WithIs
<1>8. /\ \A j : j \in DOMAIN p.counts <=> j \in DOMAIN o.counts \/ j = n
      /\ \A j \in DOMAIN o.counts \ {n} : p.counts[j] = o.counts[j]
      /\ p.counts[n] = At(o.counts, n, 0) + 1
  BY <1>6, WithIs
<1>9. /\ \A j : j \in DOMAIN p.lsn <=> j \in DOMAIN o.lsn \/ j = n
      /\ \A j \in DOMAIN o.lsn \ {n} : p.lsn[j] = o.lsn[j]
      /\ p.lsn[n] = n
  BY <1>6, WithIs
<1> QED
  BY <1>2, <1>5, <1>7, <1>8, <1>9 DEF p

\* A replay's steps, with the plans it is given.
LEMMA ListedRun ==
    ASSUME NEW s, MixIsU64(s), NEW N \in Nat, NEW plans, NEW lsns, NEW times,
           Listed(s, N, plans, lsns), \A i \in 1..N : times[i] \in 0..2
    PROVE  /\ Replay(plans, lsns, times) \in [0..N -> OracleState(s)]
           /\ Replay(plans, lsns, times)[0] = NewOracle
           /\ \A i \in 1..N : Replay(plans, lsns, times)[i]
                = AppliedTimes(Replay(plans, lsns, times)[i - 1], Plan(s, i), i, times[i])
<1>1. Len(plans) = N /\ \A i \in 1..N : plans[i] = Plan(s, i) /\ lsns[i] = i
  BY DEF Listed
<1>2. \A i \in 1..N : i \in Nat \ {0}
  OBVIOUS
<1>3. \A i \in 1..N : Plan(s, i).operations \in Seq(Operations(s)) /\ Plan(s, i).sequence = i
  BY <1>2, PlanIs
<1>4. \A i \in 1..Len(plans) : /\ plans[i].operations \in Seq(Operations(s))
                               /\ plans[i].sequence \in Nat
                               /\ lsns[i] \in Nat /\ times[i] \in 0..2
  BY <1>1, <1>2, <1>3
<1>5. Len(plans) \in Nat
  BY <1>1
<1>6. Replayable(s, plans, lsns, times)
  BY <1>4 DEF Replayable
<1>7. IsReplayRun(Replay(plans, lsns, times), s, plans, lsns, times)
  BY <1>5, <1>6, ReplayRun
<1> DEFINE R == Replay(plans, lsns, times)
<1>8. IsReplayRun(R, s, plans, lsns, times)
  BY <1>7
<1> HIDE DEF R
<1>9. /\ R \in [0..N -> OracleState(s)]
      /\ R[0] = NewOracle
      /\ \A i \in 1..N : R[i] = AppliedTimes(R[i - 1], Plan(s, i), i, times[i])
  BY <1>1, <1>8 DEF IsReplayRun
<1> QED
  BY <1>9 DEF R

LEMMA ReplayBooks ==
    ASSUME NEW s, MixIsU64(s), NEW N \in Nat, NEW plans, NEW lsns, NEW times,
           Listed(s, N, plans, lsns), \A i \in 1..N : times[i] \in 0..2
    PROVE  \A n \in 0..N : BooksAre(Replay(plans, lsns, times)[n], s, n, times)
<1> DEFINE R == Replay(plans, lsns, times)
<1>1. /\ R \in [0..N -> OracleState(s)]
      /\ R[0] = NewOracle
      /\ \A i \in 1..N : R[i] = AppliedTimes(R[i - 1], Plan(s, i), i, times[i])
  BY ListedRun
<1> HIDE DEF R
<1> DEFINE G == {n \in 0..N : BooksAre(R[n], s, n, times)}
<1>2. 0 \in G
  <2>1. BooksAre(NewOracle, s, 0, times)
    BY EmptyMap DEF BooksAre, NewOracle
  <2> QED
    BY <1>1, <2>1
<1>3. ASSUME NEW i \in 0..(N - 1), i \in G PROVE i + 1 \in G
  <2>1. i + 1 \in 1..N /\ i + 1 \in 0..N /\ (i + 1) - 1 = i /\ i \in 0..N
    OBVIOUS
  <2>2. PICK o \in OracleState(s), n \in Nat \ {0} : o = R[i] /\ n = i + 1
    BY <1>1, <2>1
  <2>3. times[n] \in {0, 1, 2} /\ BooksAre(o, s, i, times) /\ i = n - 1
    BY <1>3, <2>1, <2>2
  <2>4. R[n] = AppliedTimes(o, Plan(s, n), n, times[n])
    BY <1>1, <2>1, <2>2
  <2> DEFINE p == ApplyUnchecked(o, Plan(s, n), n)
             q == ApplyUnchecked(p, Plan(s, n), n)
  <2>5. /\ p \in OracleState(s)
        /\ \A j : j \in DOMAIN p.hash <=> j \in DOMAIN o.hash \/ j = n
        /\ \A j : j \in DOMAIN p.counts <=> j \in DOMAIN o.counts \/ j = n
        /\ \A j : j \in DOMAIN p.lsn <=> j \in DOMAIN o.lsn \/ j = n
        /\ \A j \in DOMAIN o.hash \ {n} : p.hash[j] = o.hash[j]
        /\ \A j \in DOMAIN o.counts \ {n} : p.counts[j] = o.counts[j]
        /\ \A j \in DOMAIN o.lsn \ {n} : p.lsn[j] = o.lsn[j]
        /\ p.hash[n] = Plan(s, n).operations
        /\ p.counts[n] = At(o.counts, n, 0) + 1
        /\ p.lsn[n] = n
    BY BooksStep
  <2> HIDE DEF p
  <2>6. /\ q \in OracleState(s)
        /\ \A j : j \in DOMAIN q.hash <=> j \in DOMAIN p.hash \/ j = n
        /\ \A j : j \in DOMAIN q.counts <=> j \in DOMAIN p.counts \/ j = n
        /\ \A j : j \in DOMAIN q.lsn <=> j \in DOMAIN p.lsn \/ j = n
        /\ \A j \in DOMAIN p.hash \ {n} : q.hash[j] = p.hash[j]
        /\ \A j \in DOMAIN p.counts \ {n} : q.counts[j] = p.counts[j]
        /\ \A j \in DOMAIN p.lsn \ {n} : q.lsn[j] = p.lsn[j]
        /\ q.hash[n] = Plan(s, n).operations
        /\ q.counts[n] = At(p.counts, n, 0) + 1
        /\ q.lsn[n] = n
    BY <2>5, BooksStep
  <2> HIDE DEF q
  <2>7. /\ times[n] = 0 => R[n] = o
        /\ times[n] = 1 => R[n] = p
        /\ times[n] = 2 => R[n] = q
    BY <2>4 DEF AppliedTimes, p, q
  <2>8. /\ \A j : j \in DOMAIN o.hash <=> j \in 1..i /\ times[j] # 0
        /\ \A j : j \in DOMAIN o.counts <=> j \in 1..i /\ times[j] # 0
        /\ \A j : j \in DOMAIN o.lsn <=> j \in 1..i /\ times[j] # 0
        /\ \A j \in 1..i : times[j] # 0 => /\ o.hash[j] = Plan(s, j).operations
                                           /\ o.counts[j] = times[j]
                                           /\ o.lsn[j] = j
    BY <2>3 DEF BooksAre
  <2>9. /\ \A j : j \in 1..n <=> j \in 1..i \/ j = n
        /\ n \notin 1..i
    BY <2>1, <2>2
  <2>10. At(o.counts, n, 0) = 0
    BY <2>8, <2>9 DEF At
  <2>11. p.counts[n] = 1 /\ q.counts[n] = 2
    <3>1. p.counts[n] = 1
      BY <2>5, <2>10
    <3>2. At(p.counts, n, 0) = 1
      BY <2>5, <3>1 DEF At
    <3> QED
      BY <2>6, <3>1, <3>2
  <2>12. CASE times[n] = 0
    <3>1. R[n] = o
      BY <2>7, <2>12
    <3>2. \A j \in 1..n : times[j] # 0 => j \in 1..i
      BY <2>9, <2>12
    <3>3. BooksAre(o, s, n, times)
      BY <2>8, <2>9, <2>12, <3>2 DEF BooksAre
    <3> QED
      BY <2>1, <2>2, <3>1, <3>3
  <2>13. CASE times[n] = 1
    <3>1. R[n] = p
      BY <2>7, <2>13
    <3>2. BooksAre(p, s, n, times)
      <4>1. /\ \A j : j \in DOMAIN p.hash <=> j \in 1..n /\ times[j] # 0
            /\ \A j : j \in DOMAIN p.counts <=> j \in 1..n /\ times[j] # 0
            /\ \A j : j \in DOMAIN p.lsn <=> j \in 1..n /\ times[j] # 0
        BY <2>5, <2>8, <2>9, <2>13
      <4>2. \A j \in 1..i : times[j] # 0 => /\ p.hash[j] = Plan(s, j).operations
                                            /\ p.counts[j] = times[j]
                                            /\ p.lsn[j] = j
        BY <2>5, <2>8, <2>9
      <4>3. p.hash[n] = Plan(s, n).operations /\ p.counts[n] = times[n] /\ p.lsn[n] = n
        BY <2>5, <2>11, <2>13
      <4> QED
        BY <2>9, <4>1, <4>2, <4>3 DEF BooksAre
    <3> QED
      BY <2>1, <2>2, <3>1, <3>2
  <2>14. CASE times[n] = 2
    <3>1. R[n] = q
      BY <2>7, <2>14
    <3>2. BooksAre(q, s, n, times)
      <4>1. /\ \A j : j \in DOMAIN q.hash <=> j \in 1..n /\ times[j] # 0
            /\ \A j : j \in DOMAIN q.counts <=> j \in 1..n /\ times[j] # 0
            /\ \A j : j \in DOMAIN q.lsn <=> j \in 1..n /\ times[j] # 0
        BY <2>5, <2>6, <2>8, <2>9, <2>14
      <4>2. \A j \in 1..i : times[j] # 0 => /\ q.hash[j] = Plan(s, j).operations
                                            /\ q.counts[j] = times[j]
                                            /\ q.lsn[j] = j
        BY <2>5, <2>6, <2>8, <2>9
      <4>3. q.hash[n] = Plan(s, n).operations /\ q.counts[n] = times[n] /\ q.lsn[n] = n
        BY <2>6, <2>11, <2>14
      <4> QED
        BY <2>9, <4>1, <4>2, <4>3 DEF BooksAre
    <3> QED
      BY <2>1, <2>2, <3>1, <3>2
  <2> QED
    BY <2>3, <2>12, <2>13, <2>14
<1> HIDE DEF G
<1>4. \A n \in 0..N : n \in G
  BY <1>2, <1>3, IntervalInduction
<1> QED
  BY <1>4 DEF G, R

\* A replay of every plan once: at every LSN so far it says the source's rows h,
\* and its images are those of the operations so far.
LEMMA ReplayMirrors ==
    ASSUME NEW s, MixIsU64(s), NEW N \in Nat, NEW plans, NEW lsns, NEW times,
           Listed(s, N, plans, lsns), \A i \in 1..N : times[i] = 1, NEW h, h[0] = NoEntries,
           \A t \in 1..N : h[t] = Executed(h[t - 1], Plan(s, t).operations, t)
    PROVE  \A n \in 0..N : /\ Mirrored(Replay(plans, lsns, times)[n], s, n)
                           /\ Replay(plans, lsns, times)[n].rows = h[n]
                           /\ \A t \in 0..n : RowsAt(Replay(plans, lsns, times)[n], t) = h[t]
                           /\ ImagesOf(Replay(plans, lsns, times)[n], RowsBeforeSequence(s, n + 1))
<1> DEFINE R == Replay(plans, lsns, times)
<1>1. /\ R \in [0..N -> OracleState(s)]
      /\ R[0] = NewOracle
      /\ \A i \in 1..N : R[i] = AppliedTimes(R[i - 1], Plan(s, i), i, times[i])
  <2>1. \A i \in 1..N : times[i] \in 0..2
    OBVIOUS
  <2> QED
    BY <2>1, ListedRun
<1> HIDE DEF R
<1>2. \A i \in 1..N : R[i] = ApplyUnchecked(R[i - 1], Plan(s, i), i)
  BY <1>1 DEF AppliedTimes
<1> DEFINE Good(o, n) == /\ Mirrored(o, s, n)
                         /\ o.rows = h[n]
                         /\ \A t \in 0..n : RowsAt(o, t) = h[t]
                         /\ ImagesOf(o, RowsBeforeSequence(s, n + 1))
           G == {n \in 0..N : Good(R[n], n)}
<1>3. 0 \in G
  <2>1. NewOracle.history = NoEntries /\ NewOracle.rows = NoEntries /\ NewOracle \in OracleState(s)
    BY NewOracleType DEF NewOracle
  <2>2. Mirrored(NewOracle, s, 0)
    BY <2>1, EmptyMap DEF Mirrored
  <2>3. RowsAt(NewOracle, 0) = NoEntries
    BY <2>1, <2>2, MirrorNow
  <2>4. ImagesOf(NewOracle, RowsBeforeSequence(s, 0 + 1))
    BY <2>1, EmptyMap DEF ImagesOf
  <2>5. \A t \in 0..0 : t = 0
    OBVIOUS
  <2>6. Good(NewOracle, 0)
    BY <2>1, <2>2, <2>3, <2>4, <2>5
  <2> HIDE DEF Good
  <2> QED
    BY <1>1, <2>6
<1>4. ASSUME NEW i \in 0..(N - 1), i \in G PROVE i + 1 \in G
  <2>1. i + 1 \in 1..N /\ i + 1 \in 0..N /\ (i + 1) - 1 = i /\ i \in 0..N
    OBVIOUS
  <2>2. PICK o \in OracleState(s), n \in Nat \ {0} : o = R[i] /\ n = i + 1
    BY <1>1, <2>1
  <2>3. i = n - 1 /\ i \in Nat /\ i <= n /\ i + 1 = n
    BY <2>2
  <2>4. /\ Mirrored(o, s, i) /\ o.rows = h[i] /\ (\A t \in 0..i : RowsAt(o, t) = h[t])
        /\ ImagesOf(o, RowsBeforeSequence(s, n))
    BY <1>4, <2>2, <2>3
  <2>5. PICK plan : plan = Plan(s, n)
    OBVIOUS
  <2>6. /\ plan.operations \in Seq(Operations(s)) /\ plan.sequence \in Nat
        /\ Len(plan.operations) = TransactionSize(s, n)
        /\ \A j \in 1..Len(plan.operations) : plan.operations[j].image = ImageAt(OrdinalOf(s, n, j))
    BY <2>5, PlanIs
  <2> DEFINE p == ApplyUnchecked(o, plan, n)
  <2>7. R[n] = p /\ h[n] = Executed(h[i], plan.operations, n)
    BY <1>2, <2>1, <2>2, <2>3, <2>5
  <2>8. /\ p \in OracleState(s)
        /\ \A target \in Nat : target < n => RowsAt(p, target) = RowsAt(o, target)
    BY <2>6, PlanBooks
  <2>9. Mirrored(p, s, n) /\ p.rows = Executed(o.rows, plan.operations, n)
    BY <2>3, <2>4, <2>6, PlanMirrors
  <2>10. ImagesOf(p, RowsBeforeSequence(s, n + 1))
    <3>1. PICK x \in Nat : x = RowsBeforeSequence(s, n)
      BY RowsFollow
    <3>2. \A j \in 1..Len(plan.operations) : plan.operations[j].image = ImageAt(x + j - 1)
      BY <2>6, <3>1 DEF OrdinalOf
    <3>3. ImagesOf(o, x)
      BY <2>4, <3>1
    <3>4. ImagesOf(p, x + Len(plan.operations))
      BY <2>6, <3>2, <3>3, PlanImages
    <3>5. RowsBeforeSequence(s, n + 1) = x + Len(plan.operations)
      BY <2>6, <3>1, RowsFollow
    <3> QED
      BY <3>4, <3>5
  <2> HIDE DEF p
  <2>11. RowsAt(p, n) = h[n] /\ p.rows = h[n]
    <3>1. RowsAt(p, n) = p.rows
      BY <2>8, <2>9, MirrorNow
    <3> QED
      BY <2>4, <2>7, <2>9, <3>1
  <2>12. \A t \in 0..n : RowsAt(p, t) = h[t]
    <3> SUFFICES ASSUME NEW t \in 0..n PROVE RowsAt(p, t) = h[t]
      OBVIOUS
    <3>1. CASE t = n
      BY <2>11, <3>1
    <3>2. CASE t # n
      <4>1. t \in Nat /\ t < n /\ t \in 0..i
        BY <2>3, <3>2
      <4> QED
        BY <2>4, <2>8, <4>1
    <3> QED
      BY <3>1, <3>2
  <2>13. Good(p, n)
    BY <2>9, <2>10, <2>11, <2>12
  <2> HIDE DEF Good
  <2> QED
    BY <2>1, <2>2, <2>7, <2>13
<1> HIDE DEF G
<1>5. \A n \in 0..N : n \in G
  BY <1>3, <1>4, IntervalInduction
<1> QED
  BY <1>5 DEF G, R

-----------------------------------------------------------------------------
(***************************************************************************)
(* The ledger's replay, and what the comparison finds.                     *)
(***************************************************************************)
\* What WriterInv says of the ledger and of the source.
LedgerFollows ==
    /\ MixIsU64(seed)
    /\ Len(ledger) \in Nat /\ DOMAIN ledger = 1..Len(ledger)
    /\ \A n \in DOMAIN ledger : ledger[n] = EntryOf(n)
    /\ Len(markers) \in Nat /\ DOMAIN markers = 1..Len(markers)
    /\ \A t \in DOMAIN markers : markers[t] = t
    /\ Len(ledger) <= Len(markers)

LEMMA LedgerListed ==
    ASSUME LedgerFollows
    PROVE  Listed(seed, Len(ledger), LedgerPlans, LedgerLsns)
<1> DEFINE N == Len(ledger)
<1>1. N \in Nat /\ DOMAIN ledger = 1..N
  BY DEF LedgerFollows
<1>2. \A n \in 1..N : ledger[n].sequence = n /\ ledger[n].source_lsn = n
  BY <1>1 DEF LedgerFollows, EntryOf
<1>3. LedgerPlans = [n \in 1..N |-> Plan(seed, n)] /\ LedgerLsns = [n \in 1..N |-> n]
  BY <1>1, <1>2 DEF LedgerPlans, LedgerLsns
<1> HIDE DEF N
<1>4. DOMAIN LedgerPlans = 1..N /\ \A n \in 1..N : LedgerPlans[n] = Plan(seed, n) /\ LedgerLsns[n] = n
  BY <1>3
<1>5. Len(LedgerPlans) = N
  <2> DEFINE S == {Plan(seed, n) : n \in 1..N}
  <2>1. LedgerPlans \in [1..N -> S]
    BY <1>3
  <2>2. N \in Nat
    BY <1>1 DEF N
  <2> HIDE DEF S
  <2>3. PICK f \in [1..N -> S] : f = LedgerPlans
    BY <2>1
  <2>4. f \in Seq(S) /\ Len(f) = N
    BY <2>2
  <2> QED
    BY <2>3, <2>4
<1>6. Listed(seed, N, LedgerPlans, LedgerLsns)
  BY <1>4, <1>5 DEF Listed
<1> QED
  BY <1>6 DEF N

LEMMA SourceFollows ==
    ASSUME LedgerFollows
    PROVE  /\ SourceRows[0] = NoEntries
           /\ \A t \in 1..Len(ledger) :
                SourceRows[t] = Executed(SourceRows[t - 1], Plan(seed, t).operations, t)
<1>1. /\ Len(markers) \in Nat /\ Len(ledger) \in Nat /\ Len(ledger) <= Len(markers)
      /\ \A t \in 1..Len(markers) : markers[t] = t
  BY DEF LedgerFollows
<1>2. \A t \in 1..Len(markers) : t \in Nat \ {0}
  OBVIOUS
<1>3. \A t \in 1..Len(markers) : Plan(seed, markers[t]).operations \in Seq(Operations(seed))
  BY <1>1, <1>2, PlanIs DEF LedgerFollows
<1>4. /\ SourceRows[0] = NoEntries
      /\ \A t \in 1..Len(markers) :
           SourceRows[t] = Executed(SourceRows[t - 1], Plan(seed, markers[t]).operations, t)
  BY <1>1, <1>3, SourceRun
<1>5. \A t \in 1..Len(ledger) : t \in 1..Len(markers)
  BY <1>1
<1> QED
  BY <1>1, <1>4, <1>5

\* The ledger's oracles: their books, and the source's rows.
LEMMA OraclesAre ==
    ASSUME LedgerFollows
    PROVE  \A n \in 0..Len(ledger) :
              /\ Oracles[n] \in OracleState(seed)
              /\ BooksAre(Oracles[n], seed, n, OnceBut(LedgerPlans, 0, 1))
              /\ Mirrored(Oracles[n], seed, n)
              /\ \A t \in 0..n : RowsAt(Oracles[n], t) = SourceRows[t]
              /\ ImagesOf(Oracles[n], RowsBeforeSequence(seed, n + 1))
<1> DEFINE N == Len(ledger)
           times == OnceBut(LedgerPlans, 0, 1)
           R == Replay(LedgerPlans, LedgerLsns, times)
<1>1. N \in Nat /\ MixIsU64(seed)
  BY DEF LedgerFollows
<1>2. Listed(seed, N, LedgerPlans, LedgerLsns)
  BY LedgerListed
<1>3. \A i \in 1..N : times[i] = 1
  BY <1>2 DEF Listed, OnceBut
<1>4. /\ SourceRows[0] = NoEntries
      /\ \A t \in 1..N : SourceRows[t] = Executed(SourceRows[t - 1], Plan(seed, t).operations, t)
  BY SourceFollows
<1>5. Oracles = R
  BY DEF Oracles
<1>6. \A i \in 1..N : times[i] \in 0..2
  BY <1>3
<1> HIDE DEF N, times
<1>7. R \in [0..N -> OracleState(seed)]
  BY <1>1, <1>2, <1>6, ListedRun
<1>8. \A n \in 0..N : BooksAre(R[n], seed, n, times)
  BY <1>1, <1>2, <1>6, ReplayBooks
<1>9. PICK h : h = SourceRows
  OBVIOUS
<1>10. \A n \in 0..N : /\ Mirrored(R[n], seed, n)
                       /\ R[n].rows = h[n]
                       /\ \A t \in 0..n : RowsAt(R[n], t) = h[t]
                       /\ ImagesOf(R[n], RowsBeforeSequence(seed, n + 1))
  BY <1>1, <1>2, <1>3, <1>4, <1>9, ReplayMirrors
<1> HIDE DEF R
<1> QED
  BY <1>5, <1>7, <1>8, <1>9, <1>10 DEF N, times

\* The sequences an oracle of the ledger has applied.
LEMMA OracleBooks ==
    ASSUME LedgerFollows, NEW n \in 0..Len(ledger)
    PROVE  /\ DOMAIN Oracles[n].hash = 1..n /\ DOMAIN Oracles[n].lsn = 1..n
           /\ \A j \in 1..n : /\ Oracles[n].hash[j] = Plan(seed, j).operations
                              /\ Oracles[n].counts[j] = 1 /\ Oracles[n].lsn[j] = j
<1> DEFINE times == OnceBut(LedgerPlans, 0, 1)
<1>1. BooksAre(Oracles[n], seed, n, times)
  BY OraclesAre
<1>2. \A j \in 1..n : times[j] = 1
  <2>1. \A j \in 1..n : j \in DOMAIN LedgerPlans
    BY LedgerListed DEF Listed, LedgerFollows
  <2> QED
    BY <2>1 DEF OnceBut
<1> HIDE DEF times
<1>3. \A j \in 1..n : times[j] # 0
  BY <1>2
<1>4. /\ \A j : j \in DOMAIN Oracles[n].hash <=> j \in 1..n
      /\ \A j : j \in DOMAIN Oracles[n].lsn <=> j \in 1..n
  BY <1>1, <1>3 DEF BooksAre
<1>5. DOMAIN Oracles[n].hash = 1..n /\ DOMAIN Oracles[n].lsn = 1..n
  BY <1>4
<1> QED
  BY <1>1, <1>2, <1>3, <1>5 DEF BooksAre

LEMMA MaxOfFirst ==
    ASSUME NEW n \in Nat \ {0}
    PROVE  Max(1..n) = n
<1>1. 1..n \in SUBSET Int /\ n \in 1..n /\ \A y \in 1..n : y <= n
  OBVIOUS
<1> QED
  BY <1>1, MaxIs

LEMMA OracleSafety ==
    ASSUME LedgerFollows
    PROVE  OracleIsSource
<1> DEFINE N == Len(ledger)
<1>1. /\ N \in Nat /\ DOMAIN ledger = 1..N
      /\ \A n \in 1..N : LedgerPlans[n] = Plan(seed, n) /\ LedgerLsns[n] = n
      /\ MixIsU64(seed)
  BY LedgerListed DEF LedgerFollows, Listed
<1> HIDE DEF N
<1>2. ASSUME NEW n \in 1..N
      PROVE  Applicable(Oracles[n - 1], LedgerPlans[n], LedgerLsns[n])
  <2>1. n \in Nat \ {0} /\ n - 1 \in 0..N /\ n - 1 \in Nat
    BY <1>1
  <2>2. PICK m \in 0..N : m = n - 1
    BY <2>1
  <2>3. PICK o : o = Oracles[m]
    OBVIOUS
  <2>4. DOMAIN o.hash = 1..m /\ \A j \in 1..m : o.lsn[j] = j
    BY <2>3, OracleBooks DEF N
  <2>5. m \in Nat /\ n = m + 1
    BY <1>1, <2>1, <2>2
  <2>6. LedgerPlans[n] = Plan(seed, n) /\ Plan(seed, n).sequence = n /\ LedgerLsns[n] = n
    BY <1>1, <2>1, PlanIs
  <2>7. PICK plan, lsn : plan = LedgerPlans[n] /\ lsn = LedgerLsns[n]
    OBVIOUS
  <2>8. plan.sequence = m + 1 /\ lsn = m + 1
    BY <2>5, <2>6, <2>7
  <2>9. CASE m = 0
    <3>1. DOMAIN o.hash = {}
      BY <2>4, <2>9
    <3>2. Applicable(o, plan, lsn)
      BY <2>8, <2>9, <3>1 DEF Applicable
    <3> QED
      BY <2>2, <2>3, <2>7, <3>2
  <2>10. CASE m # 0
    <3>1. m \in Nat \ {0} /\ m \in 1..m /\ 1..m # {}
      BY <2>5, <2>10
    <3>2. Max(1..m) = m
      BY <3>1, MaxOfFirst
    <3>3. Max(DOMAIN o.hash) = m /\ o.lsn[m] = m /\ DOMAIN o.hash # {}
      BY <2>4, <3>1, <3>2
    <3>4. Applicable(o, plan, lsn)
      BY <2>5, <2>8, <3>3 DEF Applicable
    <3> QED
      BY <2>2, <2>3, <2>7, <3>4
  <2> QED
    BY <2>9, <2>10
<1>3. ASSUME NEW n \in 1..N
      PROVE  RowsAt(Oracle, LedgerLsns[n]) = SourceRows[LedgerLsns[n]]
  <2>1. N \in 0..N /\ n \in 0..N
    BY <1>1
  <2>2. RowsAt(Oracles[N], n) = SourceRows[n]
    BY <2>1, OraclesAre DEF N
  <2> QED
    BY <1>1, <2>2 DEF Oracle, N
<1> QED
  BY <1>1, <1>2, <1>3 DEF OracleIsSource

-----------------------------------------------------------------------------
(***************************************************************************)
(* What the comparison refuses.                                            *)
(***************************************************************************)
\* A history says at an LSN what its rows there say.
LEMMA RowIsLatest ==
    ASSUME NEW o, NEW target, NEW k \in DOMAIN o.history
    PROVE  At(RowsAt(o, target), k, Gone) = Latest(o.history[k], target)
<1>1. CASE Latest(o.history[k], target) = Gone
  <2>1. k \notin DOMAIN RowsAt(o, target)
    BY <1>1 DEF RowsAt
  <2> QED
    BY <1>1, <2>1 DEF At
<1>2. CASE Latest(o.history[k], target) # Gone
  <2>1. k \in DOMAIN RowsAt(o, target) /\ RowsAt(o, target)[k] = Latest(o.history[k], target)
    BY <1>2 DEF RowsAt
  <2> QED
    BY <2>1 DEF At
<1> QED
  BY <1>1, <1>2

LEMMA RowRefused ==
    ASSUME NEW e, NEW a, NEW target, NEW k,
           At(RowsAt(e, target), k, Gone) # At(RowsAt(a, target), k, Gone)
    PROVE  ~Passed(e, a, target)
<1>1. k \in DOMAIN RowsAt(e, target) \union DOMAIN RowsAt(a, target)
  BY DEF At
<1>2. k \in RowDifferences(e, a, target)
  BY <1>1 DEF RowDifferences
<1> QED
  BY <1>2 DEF Passed

LEMMA MissingRefused ==
    ASSUME NEW e, NEW a, NEW target, NEW n \in DOMAIN e.hash, e.lsn[n] <= target,
           n \notin DOMAIN a.hash
    PROVE  ~Passed(e, a, target)
<1>1. n \in SequenceDifferences(e, a, target)
  BY DEF SequenceDifferences
<1> QED
  BY <1>1 DEF Passed

LEMMA RepeatRefused ==
    ASSUME NEW e, NEW a, NEW target, NEW n \in DOMAIN a.hash, a.lsn[n] <= target,
           a.counts[n] > 1
    PROVE  ~Passed(e, a, target)
<1>1. n \in SequenceDifferences(e, a, target)
  BY DEF SequenceDifferences
<1> QED
  BY <1>1 DEF Passed

LEMMA SelfPasses ==
    ASSUME NEW o, NEW target, \A n \in DOMAIN o.hash : ~(o.counts[n] > 1)
    PROVE  Passed(o, o, target)
<1>1. SequenceDifferences(o, o, target) = {}
  BY DEF SequenceDifferences
<1>2. RowDifferences(o, o, target) = {}
  BY DEF RowDifferences
<1> QED
  BY <1>1, <1>2 DEF Passed

\* A key's last state replaced by another one is seen at the LSN of the last
\* version and after.
LEMMA LastRefused ==
    ASSUME NEW s, NEW v \in Nat, NEW o \in OracleState(s), Mirrored(o, s, v),
           NEW k \in DOMAIN o.history, NEW state \in State, state # At(o.rows, k, Gone)
    PROVE  ~Passed(o, WithLast(o, k, state), v)
<1> DEFINE h == o.history[k]
           h2 == [h EXCEPT ![Len(h)] = <<@[1], state>>]
           p == WithLast(o, k, state)
<1>1. h \in Versions
  BY MapIs DEF OracleState
<1>2. /\ Len(h) # 0 /\ h[Len(h)][2] = At(o.rows, k, Gone)
      /\ \A i \in 1..Len(h) : h[i][1] <= v
  BY DEF Mirrored
<1>3. p.history[k] = h2
  <2>1. p.history = [o.history EXCEPT ![k] = h2]
    BY DEF WithLast, OracleState
  <2> QED
    BY <2>1
<1>4. k \in DOMAIN p.history
  <2>1. p.history = [o.history EXCEPT ![k] = h2]
    BY DEF WithLast, OracleState
  <2> QED
    BY <2>1
<1> HIDE DEF p
<1>5. /\ h2 \in Versions /\ Len(h2) = Len(h) /\ Len(h) \in Nat
      /\ h2[Len(h)][2] = state
      /\ \A i \in 1..Len(h) : h2[i][1] = h[i][1]
  <2> HIDE DEF h
  <2>1. h \in Seq(Nat \X State)
    BY <1>1 DEF Versions
  <2>2. Len(h) \in Nat /\ Len(h) \in 1..Len(h) /\ DOMAIN h = 1..Len(h)
    BY <1>2, <2>1
  <2>3. h[Len(h)] \in Nat \X State /\ h[Len(h)][1] \in Nat
    BY <2>1, <2>2
  <2>4. PICK pair \in Nat \X State : pair = <<h[Len(h)][1], state>>
    BY <2>3
  <2>5. h2 = [h EXCEPT ![Len(h)] = pair] /\ pair[1] = h[Len(h)][1] /\ pair[2] = state
    BY <2>4
  <2>6. h2 \in Seq(Nat \X State) /\ Len(h2) = Len(h)
    BY <2>1, <2>2, <2>5
  <2>7. h2[Len(h)] = pair /\ \A i \in 1..Len(h) : i # Len(h) => h2[i] = h[i]
    BY <2>2, <2>5
  <2> QED
    BY <2>2, <2>5, <2>6, <2>7 DEF Versions
<1> HIDE DEF h, h2
<1>6. Latest(h, v) = At(o.rows, k, Gone)
  BY <1>1, <1>2, LatestIsLast
<1>7. Latest(h2, v) = state
  <2>1. Len(h2) # 0 /\ \A i \in 1..Len(h2) : h2[i][1] <= v
    BY <1>2, <1>5
  <2> QED
    BY <1>5, <2>1, LatestIsLast
<1>8. At(RowsAt(o, v), k, Gone) = Latest(h, v) /\ At(RowsAt(p, v), k, Gone) = Latest(h2, v)
  BY <1>3, <1>4, RowIsLatest DEF h
<1>9. ~Passed(o, p, v)
  BY <1>6, <1>7, <1>8, RowRefused
<1> QED
  BY <1>9 DEF p

LEMMA StaleRefused ==
    ASSUME NEW s, NEW v \in Nat, NEW o \in OracleState(s), Mirrored(o, s, v), NEW b \in Nat,
           ImagesOf(o, b), NEW candidate \in StaleVersions(o)
    PROVE  ~Passed(o, candidate, v)
<1>1. PICK k \in DOMAIN o.history : /\ Len(o.history[k]) > 1 /\ k \in DOMAIN o.rows
                                    /\ candidate = WithLast(o, k, o.history[k][1][2])
  BY DEF StaleVersions
<1>2. PICK h \in Versions : h = o.history[k]
  BY MapIs DEF OracleState
<1>3. Len(h) \in Nat /\ 1 \in 1..Len(h) /\ Len(h) \in 1..Len(h) /\ Len(h) # 1
  BY <1>1, <1>2 DEF Versions
<1>4. h[1][2] \in State
  BY <1>3, OneMoreIs DEF State
<1>5. h[Len(h)][2] = o.rows[k] /\ h[Len(h)][2] # Gone
  <2>1. o.rows[k] # Gone
    BY <1>1, MapIs, GoneIsNoRow DEF OracleState
  <2> QED
    BY <1>1, <1>2, <2>1 DEF Mirrored, At
<1>6. h[1][2] # h[Len(h)][2]
  BY <1>2, <1>3, <1>5 DEF ImagesOf
<1>7. h[1][2] # At(o.rows, k, Gone)
  BY <1>1, <1>5, <1>6 DEF At
<1> QED
  BY <1>1, <1>2, <1>4, <1>7, LastRefused

LEMMA TombstoneRefused ==
    ASSUME NEW s, NEW v \in Nat, NEW o \in OracleState(s), Mirrored(o, s, v),
           NEW candidate \in IgnoredTombstones(o)
    PROVE  ~Passed(o, candidate, v)
<1>1. PICK k \in DOMAIN o.history :
         /\ Len(o.history[k]) > 1 /\ k \notin DOMAIN o.rows
         /\ o.history[k][Len(o.history[k]) - 1][2] # Gone
         /\ candidate = WithLast(o, k, o.history[k][Len(o.history[k]) - 1][2])
  BY DEF IgnoredTombstones
<1>2. PICK h \in Versions : h = o.history[k]
  BY MapIs DEF OracleState
<1>3. Len(h) - 1 \in 1..Len(h)
  BY <1>1, <1>2 DEF Versions
<1>4. h[Len(h) - 1][2] \in State
  <2>1. PICK i \in 1..Len(h) : i = Len(h) - 1
    BY <1>3
  <2>2. h[i][2] \in State
    BY OneMoreIs DEF State
  <2> QED
    BY <2>1, <2>2
<1>5. At(o.rows, k, Gone) = Gone
  BY <1>1 DEF At
<1>6. PICK state \in State : state = h[Len(h) - 1][2] /\ state # Gone
  BY <1>1, <1>2, <1>4
<1>7. ~Passed(o, WithLast(o, k, state), v)
  BY <1>5, <1>6, LastRefused
<1> QED
  BY <1>1, <1>2, <1>6, <1>7

\* The oracle of the whole ledger, and the LSN the comparison is made at.
LEMMA OracleNow ==
    ASSUME LedgerFollows
    PROVE  /\ Len(ledger) \in Nat
           /\ Replayed(LedgerPlans, LedgerLsns) = Oracle
           /\ LatestCheckpoint(Oracle) = Len(ledger)
           /\ Oracle \in OracleState(seed)
           /\ Mirrored(Oracle, seed, Len(ledger))
           /\ ImagesOf(Oracle, RowsBeforeSequence(seed, Len(ledger) + 1))
           /\ DOMAIN Oracle.hash = 1..Len(ledger)
           /\ \A j \in 1..Len(ledger) : Oracle.counts[j] = 1 /\ Oracle.lsn[j] = j
<1> DEFINE N == Len(ledger)
<1>1. N \in Nat
  BY DEF LedgerFollows
<1> HIDE DEF N
<1>2. N \in 0..N
  BY <1>1
<1>3. PICK o : o = Oracles[N]
  OBVIOUS
<1>4. Oracle = o
  BY <1>3 DEF Oracle, N
<1>5. /\ DOMAIN o.hash = 1..N /\ DOMAIN o.lsn = 1..N
      /\ \A j \in 1..N : o.counts[j] = 1 /\ o.lsn[j] = j
  BY <1>2, <1>3, OracleBooks DEF N
<1>6. /\ o \in OracleState(seed) /\ Mirrored(o, seed, N)
      /\ ImagesOf(o, RowsBeforeSequence(seed, N + 1))
  BY <1>2, <1>3, OraclesAre DEF N
<1>7. Len(LedgerPlans) = N
  BY LedgerListed DEF Listed, N
<1>8. Replayed(LedgerPlans, LedgerLsns) = Oracles[N]
  BY <1>7 DEF Replayed, Oracles
<1>9. LatestCheckpoint(o) = N
  <2>1. {o.lsn[n] : n \in DOMAIN o.lsn} \union {0} = 0..N
    <3>1. \A y : y \in {o.lsn[n] : n \in DOMAIN o.lsn} <=> y \in 1..N
      BY <1>5
    <3>2. \A y : y \in 0..N <=> y \in 1..N \/ y = 0
      BY <1>1
    <3> QED
      BY <3>1, <3>2
  <2>2. Max(0..N) = N
    <3>1. 0..N \in SUBSET Int /\ N \in 0..N /\ \A y \in 0..N : y <= N
      BY <1>1
    <3> QED
      BY <3>1, MaxIs
  <2> QED
    BY <2>1, <2>2 DEF LatestCheckpoint
<1> QED
  BY <1>1, <1>3, <1>4, <1>5, <1>6, <1>8, <1>9 DEF N

\* A replay of the ledger with plan m applied no time, or twice.
LEMMA CorruptedBooks ==
    ASSUME LedgerFollows, NEW m \in DOMAIN LedgerPlans, NEW c \in {0, 2}
    PROVE  LET a == Replay(LedgerPlans, LedgerLsns, OnceBut(LedgerPlans, m, c))[Len(LedgerPlans)] IN
           /\ m \in 1..Len(ledger)
           /\ c = 0 => m \notin DOMAIN a.hash
           /\ c = 2 => m \in DOMAIN a.hash /\ a.lsn[m] = m /\ a.counts[m] = 2
<1> DEFINE N == Len(ledger)
           times == OnceBut(LedgerPlans, m, c)
           a == Replay(LedgerPlans, LedgerLsns, times)[N]
<1>1. N \in Nat /\ MixIsU64(seed)
  BY DEF LedgerFollows
<1>2. Listed(seed, N, LedgerPlans, LedgerLsns) /\ DOMAIN LedgerPlans = 1..N /\ Len(LedgerPlans) = N
  BY LedgerListed DEF Listed
<1>3. times[m] = c /\ \A i \in 1..N : times[i] \in 0..2
  BY <1>2 DEF OnceBut
<1> HIDE DEF N, times
<1>4. N \in 0..N
  BY <1>1
<1>5. BooksAre(a, seed, N, times)
  BY <1>1, <1>2, <1>3, <1>4, ReplayBooks
<1>6. m \in 1..N
  BY <1>2
<1>7. /\ c = 0 => m \notin DOMAIN a.hash
      /\ c = 2 => m \in DOMAIN a.hash /\ a.lsn[m] = m /\ a.counts[m] = 2
  <2> HIDE DEF a
  <2> QED
    BY <1>3, <1>5, <1>6 DEF BooksAre
<1> QED
  BY <1>2, <1>6, <1>7 DEF N, times

LEMMA CompareSafety ==
    ASSUME LedgerFollows
    PROVE  CompareRefuses
<1> DEFINE N == Len(ledger)
           o == Oracle
<1>1. /\ N \in Nat /\ Replayed(LedgerPlans, LedgerLsns) = o /\ LatestCheckpoint(o) = N
      /\ o \in OracleState(seed) /\ Mirrored(o, seed, N)
      /\ ImagesOf(o, RowsBeforeSequence(seed, N + 1))
      /\ DOMAIN o.hash = 1..N
      /\ \A j \in 1..N : o.counts[j] = 1 /\ o.lsn[j] = j
  BY OracleNow
<1>2. MixIsU64(seed)
  BY DEF LedgerFollows
<1> HIDE DEF N, o
<1>3. Passed(o, o, N)
  BY <1>1, SelfPasses
<1>4. ASSUME NEW m \in DOMAIN LedgerPlans
      PROVE  ~Passed(o, DropSequence(LedgerPlans, LedgerLsns, m), N)
  <2>1. PICK a : a = DropSequence(LedgerPlans, LedgerLsns, m)
    OBVIOUS
  <2>2. m \in 1..N /\ m \notin DOMAIN a.hash
    BY <2>1, CorruptedBooks DEF DropSequence, N
  <2>3. m \in DOMAIN o.hash /\ o.lsn[m] <= N
    BY <1>1, <2>2
  <2>4. ~Passed(o, a, N)
    BY <2>2, <2>3, MissingRefused
  <2> QED
    BY <2>1, <2>4
<1>5. ASSUME NEW m \in DOMAIN LedgerPlans
      PROVE  ~Passed(o, DuplicateSequence(LedgerPlans, LedgerLsns, m), N)
  <2>1. PICK a : a = DuplicateSequence(LedgerPlans, LedgerLsns, m)
    OBVIOUS
  <2>2. m \in 1..N /\ m \in DOMAIN a.hash /\ a.lsn[m] = m /\ a.counts[m] = 2
    BY <2>1, CorruptedBooks DEF DuplicateSequence, N
  <2>3. a.lsn[m] <= N /\ a.counts[m] > 1
    BY <1>1, <2>2
  <2>4. ~Passed(o, a, N)
    BY <2>2, <2>3, RepeatRefused
  <2> QED
    BY <2>1, <2>4
<1>6. ASSUME NEW candidate \in StaleVersions(o) PROVE ~Passed(o, candidate, N)
  <2>1. RowsBeforeSequence(seed, N + 1) \in Nat
    <3>1. N + 1 \in Nat \ {0}
      BY <1>1
    <3> QED
      BY <1>2, <3>1, RowsFollow
  <2>2. PICK b \in Nat : ImagesOf(o, b)
    BY <1>1, <2>1
  <2> QED
    BY <1>1, <2>2, StaleRefused
<1>7. ASSUME NEW candidate \in IgnoredTombstones(o) PROVE ~Passed(o, candidate, N)
  BY <1>1, TombstoneRefused
<1>8. ASSUME NEW candidate \in Corruptions(LedgerPlans, LedgerLsns)
      PROVE  ~Passed(o, candidate, N)
  <2>1. \/ \E m \in DOMAIN LedgerPlans : candidate = DropSequence(LedgerPlans, LedgerLsns, m)
        \/ \E m \in DOMAIN LedgerPlans : candidate = DuplicateSequence(LedgerPlans, LedgerLsns, m)
        \/ candidate \in StaleVersions(o)
        \/ candidate \in IgnoredTombstones(o)
    BY <1>1 DEF Corruptions
  <2> QED
    BY <1>4, <1>5, <1>6, <1>7, <2>1
<1>9. Oracle = o
  BY DEF o
<1> QED
  BY <1>1, <1>3, <1>8, <1>9 DEF CompareRefuses

-----------------------------------------------------------------------------
(***************************************************************************)
(* The ledger in every reachable state.                                    *)
(***************************************************************************)
SeedIsGiven == seed \in Seeds

LEMMA InitSeed == WriterInit => SeedIsGiven
BY DEF WriterInit, SeedIsGiven

LEMMA SeedKeeps ==
    ASSUME SeedIsGiven, [WriterNext]_wVars
    PROVE  SeedIsGiven'
<1> SUFFICES seed' = seed
  BY DEF SeedIsGiven
<1>1. CASE Stream
  BY <1>1 DEF Stream, writerVars
<1>2. CASE Call
  BY <1>2 DEF Call, ExecuteAndRecord, SubmitPlan, Begin, RecoverAndRecord, NewWriter
<1>3. CASE Postgres
  BY <1>3 DEF Postgres, Commit, RollBack
<1>4. CASE WriterStep
  BY <1>4 DEF WriterStep, SendCommit, SqlFails, Recover, WaitForMapping, MapperStopped,
     AppendStarts, AppendWrites, AppendEnds
<1>5. CASE LoseConnection \/ Refresh \/ Die
  BY <1>5 DEF LoseConnection, Refresh, Die
<1>6. CASE UNCHANGED wVars
  BY <1>6 DEF wVars, writerVars
<1> QED
  BY <1>1, <1>2, <1>3, <1>4, <1>5, <1>6 DEF WriterNext

LEMMA LedgerIsFollowed ==
    ASSUME WriterInv, SeedIsGiven, \A s \in Seeds : MixIsU64(s)
    PROVE  LedgerFollows
BY WriterTypes DEF LedgerFollows, WriterInv, History, SeedIsGiven

LEMMA SeedInductive == WriterSpec => []SeedIsGiven
BY InitSeed, SeedKeeps, PTL DEF WriterSpec

\* The oracle applies every entry of the ledger without a gap, and rebuilds the
\* source's tables at every commit LSN of the ledger (apply, orders_at,
\* customers_at, events_at), whatever the writer lost and recovered, for every
\* seed, every number of tenants and every length of the workload's cycles:
\* updates and deletes that find no row change nothing on either side, a delete
\* asks for the tenant the row has, and a later version hides no earlier one.
\* That mix64 returns an unsigned number is its type.
THEOREM OracleCorrect ==
    (\A s \in Seeds : MixIsU64(s)) => (WriterSpec => []OracleIsSource)
<1> SUFFICES ASSUME \A s \in Seeds : MixIsU64(s) PROVE WriterSpec => []OracleIsSource
  OBVIOUS
<1>1. WriterInv /\ SeedIsGiven => OracleIsSource
  BY LedgerIsFollowed, OracleSafety
<1> QED
  BY <1>1, WriterInductive, SeedInductive, PTL

\* compare_at accepts the oracle itself and refuses every candidate that lacks a
\* sequence, has one twice, says an earlier version of a row, or lacks the last
\* tombstone of a key (mutation_fixtures), for every history a run can have.
THEOREM ComparisonCorrect ==
    (\A s \in Seeds : MixIsU64(s)) => (WriterSpec => []CompareRefuses)
<1> SUFFICES ASSUME \A s \in Seeds : MixIsU64(s) PROVE WriterSpec => []CompareRefuses
  OBVIOUS
<1>1. WriterInv /\ SeedIsGiven => CompareRefuses
  BY LedgerIsFollowed, CompareSafety
<1> QED
  BY <1>1, WriterInductive, SeedInductive, PTL
=============================================================================
