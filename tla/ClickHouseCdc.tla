--------------------------- MODULE ClickHouseCdc ----------------------------
(***************************************************************************)
(* The R1 harness's ClickHouse replication task: pgoutput frames of the    *)
(* source are buffered in a window, a window of complete transactions is   *)
(* written to ClickHouse by a few HTTP requests, and only then is          *)
(* PostgreSQL told that it may forget them.                                *)
(*                                                                         *)
(* A transaction is its number, which is also its commit LSN; it changes   *)
(* one row in every raw table, so a version row is a table and a           *)
(* transaction.  The last table is the events', where a transaction either *)
(* inserts an event or deletes an earlier one: EventOf names it, and the   *)
(* delete's tombstone is a row with the same event id.                     *)
(* Positions between two commits are the earlier commit's.                 *)
(* The frame log of the task is only ever asked for its next number.       *)
(***************************************************************************)
EXTENDS StreamDecoder, FiniteSets

CONSTANTS Tables,        \* how many raw tables, numbered in the sink's order
          MaxTxn,        \* bound: commits of the source
          EventOf,       \* transaction -> the event it inserts or deletes
          WindowCommits, \* WINDOW_COMMITS
          MaxLosses,     \* bound: how often the source connection breaks
          MaxOutages     \* bound: how often ClickHouse goes away

ASSUME CdcConstants ==
    /\ Tables \in Nat \ {0} /\ WindowCommits \in Nat \ {0}
    /\ EventOf \in [1..MaxTxn -> Nat]
    /\ MaxTxn \in Nat /\ MaxLosses \in Nat /\ MaxOutages \in Nat

VARIABLES
    wal,        \* commits of the source, the writer's
    ledger,     \* entries of the committed-workload ledger
    conn,       \* [up, from, txn, i]: the session began at from and sends frame i of txn next
    losses,
    ack,        \* the slot's confirmed position
    ch,         \* ClickHouse: [up, outages, rows, markers, tokens, visibility]
    task,       \* "running", or how the task ended
    next_seq,   \* of the task's frame log
    window,     \* frames received and not flushed
    cdc,        \* the adapter's StreamDecoder
    flush,      \* [at, commits, table]: where the flush in progress stands
    applied_lsn,
    last_visibility_lsn,
    answer      \* the last answered query: [target, seen]

source == <<wal, ledger>>
session == <<conn, losses>>
buffered == <<next_seq, window, cdc>>
position == <<applied_lsn, last_visibility_lsn>>
cdcVars == <<source, session, ack, ch, task, buffered, flush, position, answer>>

Txns == 1..MaxTxn

NoFlush == [at |-> "idle", commits |-> <<>>, table |-> 1]

CdcInit ==
    /\ wal = 0 /\ ledger = 0
    /\ conn = [up |-> TRUE, from |-> 1, txn |-> 1, i |-> 1] /\ losses = 0
    /\ ack = 0
    /\ ch = [up |-> TRUE, outages |-> 0,
             rows |-> [o \in 1..Tables |-> [t \in Txns |-> 0]],
             markers |-> [t \in Txns |-> 0], tokens |-> {}, visibility |-> 0]
    /\ task = "running"
    /\ next_seq = 0 /\ window = <<>> /\ cdc = NewDecoder
    /\ flush = NoFlush
    /\ applied_lsn = 0 /\ last_visibility_lsn = 0
    /\ answer = [target |-> 0, seen |-> {}]

-----------------------------------------------------------------------------
\* The source: the writer commits, and records the commit in the ledger later.

Commit ==
    /\ wal < MaxTxn
    /\ wal' = wal + 1
    /\ UNCHANGED <<ledger, session, ack, ch, task, buffered, flush, position, answer>>

LedgerAppend ==
    /\ ledger < wal
    /\ ledger' = ledger + 1
    /\ UNCHANGED <<wal, session, ack, ch, task, buffered, flush, position, answer>>

\* What a session sends for a transaction: the table's Relation message comes
\* once in every session, with its first transaction.
Messages(txn) ==
    <<"begin">> \o (IF txn = conn.from THEN <<"relation">> ELSE <<>>)
                \o [o \in 1..Tables |-> "change"] \o <<"commit">>

NewSession(after) == [up |-> TRUE, from |-> after + 1, txn |-> after + 1, i |-> 1]

\* Mutant of NextFrame: the window's number is the one after the log's.
FrameNumberedLate == [seq |-> next_seq + 1, payload |-> Messages(conn.txn)[conn.i], txn |-> conn.txn]

NextFrame == [seq |-> next_seq, payload |-> Messages(conn.txn)[conn.i], txn |-> conn.txn]

Sent ==
    IF conn.i = Len(Messages(conn.txn))
    THEN [conn EXCEPT !.txn = @ + 1, !.i = 1]
    ELSE [conn EXCEPT !.i = @ + 1]

LoseConnection ==
    /\ conn.up /\ losses < MaxLosses
    /\ conn' = [conn EXCEPT !.up = FALSE]
    /\ losses' = losses + 1
    /\ UNCHANGED <<source, ack, ch, task, buffered, flush, position, answer>>

Outage ==
    /\ ch.up /\ ch.outages < MaxOutages
    /\ ch' = [ch EXCEPT !.up = FALSE, !.outages = @ + 1]
    /\ UNCHANGED <<source, session, ack, task, buffered, flush, position, answer>>

Recover ==
    /\ ~ch.up
    /\ ch' = [ch EXCEPT !.up = TRUE]
    /\ UNCHANGED <<source, session, ack, task, buffered, flush, position, answer>>

-----------------------------------------------------------------------------
\* The task's loop: one message at a time, and no other while a flush runs.

Idle == task = "running" /\ flush.at = "idle"

IsCommit(frame) == frame.payload = "commit"

CommitsIn(frames) == Cardinality({k \in 1..Len(frames) : IsCommit(frames[k])})

MustFlush(frames) == CommitsIn(frames) >= WindowCommits

\* XLogData: the frame goes to the log and into the window, and the window is
\* flushed when it is full, or holds a commit and the interval has passed;
\* the interval is only looked at here, when a frame arrives.
Receive ==
    /\ Idle /\ conn.up /\ conn.txn <= wal
    /\ conn' = Sent
    /\ next_seq' = next_seq + 1
    /\ window' = Append(window, NextFrame)
    /\ \/ /\ CommitsIn(window') > 0
          /\ flush' = [NoFlush EXCEPT !.at = "resolve"]
       \/ /\ ~MustFlush(window')
          /\ UNCHANGED flush
    /\ UNCHANGED <<source, losses, ack, ch, task, cdc, position, answer>>

End(reason) == task' = reason /\ UNCHANGED <<flush, window>>

\* Mutant of WindowInLedger: off by one, the newest entry is not looked at.
WindowBelowLedger ==
    \A k \in 1..Len(window) : IsCommit(window[k]) => window[k].txn < ledger

WindowInLedger ==
    \A k \in 1..Len(window) : IsCommit(window[k]) => window[k].txn <= ledger

\* One batch for every commit frame, in their order: the batch's transaction.
Batches ==
    LET found[k \in 0..Len(window)] ==
            IF k = 0 THEN <<>>
            ELSE IF IsCommit(window[k]) THEN Append(found[k - 1], window[k].txn)
            ELSE found[k - 1]
    IN  found[Len(window)]

\* resolve_window_hashes polls the ledger until it has every commit of the
\* window; then the frames go through the decoder, whose error ends the task.
\* (A batch has a row for every table: every session sends a transaction from
\* its Begin, and Begin empties what the decoder holds of an earlier one.)
Resolve ==
    /\ task = "running" /\ flush.at = "resolve"
    /\ WindowInLedger
    /\ \E fed \in Feed(cdc, window) :
           /\ cdc' = fed.decoder
           /\ IF fed.error # "none"
              THEN End(fed.error)
              ELSE /\ flush' = [at |-> "insert", table |-> 1, commits |-> Batches]
                   /\ UNCHANGED <<task, window>>
    /\ UNCHANGED <<source, session, ack, ch, next_seq, position, answer>>

Times(commits, t) == Cardinality({k \in 1..Len(commits) : commits[k] = t})

Counted(count, commits) == [t \in Txns |-> count[t] + Times(commits, t)]

\* The insert's token is a hash of the table, the window's last LSN and the
\* body; ClickHouse drops a block whose token it has seen.
Token(block) == <<block, Last(flush.commits), flush.commits>>

InsertRows ==
    IF Token(flush.table) \in ch.tokens THEN ch
    ELSE [ch EXCEPT !.rows[flush.table] = Counted(@, flush.commits),
                    !.tokens = @ \union {Token(flush.table)}]

InsertMarkers ==
    IF Token(0) \in ch.tokens THEN ch
    ELSE [ch EXCEPT !.markers = Counted(@, flush.commits),
                    !.tokens = @ \union {Token(0)}]

\* Mutant of AfterRows: the markers go out before the last table's rows.
AfterRowsEarly == IF flush.table >= Tables - 1 THEN "markers" ELSE "insert"

AfterRows == IF flush.table = Tables THEN "markers" ELSE "insert"

Verified ==
    LET between == {t \in Txns : flush.commits[1] <= t /\ t <= Last(flush.commits)}
        found[n \in 0..MaxTxn] ==
            IF n = 0 THEN 0
            ELSE found[n - 1] + (IF n \in between THEN ch.markers[n] ELSE 0)
    IN  found[MaxTxn] = Len(flush.commits)

\* One request of apply_window: it takes effect and the flush goes on; or
\* ClickHouse goes away with it, before or after its effect, and the error
\* ends the task.  Nothing here is retried.
Request(at, effect, next) ==
    /\ task = "running" /\ flush.at = at
    /\ \/ ch.up /\ ch' = effect /\ next
       \/ ~ch.up /\ ch' = ch /\ End("clickhouse")
       \/ /\ ch.up /\ ch.outages < MaxOutages
          /\ ch' = [effect EXCEPT !.up = FALSE, !.outages = @ + 1]
          /\ End("clickhouse")
    /\ UNCHANGED <<source, session, ack, next_seq, cdc, position, answer>>

PostRows ==
    Request("insert", InsertRows,
            /\ flush' = [flush EXCEPT !.at = AfterRows, !.table = @ + 1]
            /\ UNCHANGED <<task, window>>)

PostMarkers ==
    Request("markers", InsertMarkers,
            flush' = [flush EXCEPT !.at = "verify"] /\ UNCHANGED <<task, window>>)

VerifyMarkers ==
    Request("verify", ch,
            IF Verified
            THEN flush' = [flush EXCEPT !.at = "ack"] /\ UNCHANGED <<task, window>>
            ELSE End("verify"))

\* send_standby_status(lsn): on a broken connection the send either fails or
\* is never seen by the server.
Confirm(lsn) == ack' = IF conn.up /\ lsn > ack THEN lsn ELSE ack

Acknowledge ==
    /\ task = "running" /\ flush.at = "ack"
    /\ Confirm(Last(flush.commits))
    /\ \/ /\ applied_lsn' = Last(flush.commits)
          /\ window' = <<>>
          /\ flush' = NoFlush
          /\ UNCHANGED task
       \/ ~conn.up /\ End("connection") /\ UNCHANGED applied_lsn
    /\ UNCHANGED <<source, session, ch, next_seq, cdc, last_visibility_lsn, answer>>

-----------------------------------------------------------------------------
\* Keepalives, interruptions and the end

WalEnd == conn.txn - 1

\* Mutant of KeepaliveStatus: what was received is confirmed.
KeepaliveConfirmsReceived == Confirm(WalEnd)

KeepaliveStatus == Confirm(applied_lsn)

RecordVisibility ==
    IF WalEnd > last_visibility_lsn /\ ch.up
    THEN /\ ch' = [ch EXCEPT !.visibility = WalEnd]
         /\ last_visibility_lsn' = WalEnd
    ELSE UNCHANGED <<ch, last_visibility_lsn>>

\* A keepalive that wants an answer also publishes its position as visible,
\* best effort; the window is not looked at.  When the connection breaks
\* before the answer is out, the error ends the task.
Keepalive ==
    /\ Idle /\ conn.up
    /\ \/ KeepaliveStatus /\ RecordVisibility /\ UNCHANGED <<session, task>>
       \/ /\ losses < MaxLosses
          /\ conn' = [conn EXCEPT !.up = FALSE] /\ losses' = losses + 1
          /\ task' = "connection"
          /\ UNCHANGED <<ack, ch, last_visibility_lsn>>
    /\ UNCHANGED <<source, buffered, flush, applied_lsn, answer>>

\* An error of the connection: a new adapter, so a new decoder, every time
\* round; the window and the frame log's numbering stay.
Reconnect ==
    /\ Idle /\ ~conn.up
    /\ cdc' = NewDecoder
    /\ \/ conn' = NewSession(applied_lsn) /\ UNCHANGED task
       \/ UNCHANGED <<conn, task>>
       \/ UNCHANGED conn /\ task' = "timeout"
    /\ UNCHANGED <<source, losses, ack, ch, next_seq, window, flush, position, answer>>

Stop ==
    /\ Idle
    /\ task' = "stopped"
    /\ Confirm(applied_lsn)
    /\ UNCHANGED <<source, session, ch, buffered, flush, position, answer>>

-----------------------------------------------------------------------------
\* The query adapter: ClickHouse's proof of its position, the check that no
\* event is there twice, the query at its target.

MaxOf(S) == CHOOSE m \in S : \A n \in S : n <= m

LastMarker == MaxOf({0} \union {t \in Txns : ch.markers[t] > 0})

AppliedLsn == MaxOf({LastMarker, ch.visibility})

\* verify_event_ids_unique: count() = uniqExact(event_id) over the raw table, so
\* no event has two rows, tombstones counted.
EventIdsUnique ==
    \A s, t \in Txns :
        ch.rows[Tables][s] > 0 /\ ch.rows[Tables][t] > 0 /\ EventOf[s] = EventOf[t]
            => s = t /\ ch.rows[Tables][t] = 1

Complete(t) == \A o \in 1..Tables : ch.rows[o][t] > 0

Query(target) ==
    /\ ch.up
    /\ AppliedLsn >= target
    /\ EventIdsUnique
    /\ answer' = [target |-> target, seen |-> {t \in 1..target : Complete(t)}]
    /\ UNCHANGED <<source, session, ack, ch, task, buffered, flush, position>>

-----------------------------------------------------------------------------
Flush == Resolve \/ PostRows \/ PostMarkers \/ VerifyMarkers \/ Acknowledge

CdcNext ==
    \/ Commit \/ LedgerAppend \/ LoseConnection \/ Outage \/ Recover
    \/ Receive \/ Flush \/ Keepalive \/ Reconnect \/ Stop
    \/ \E target \in Txns : Query(target)

\* The task is polled and its peers answer; the writer records what it
\* committed.  Nothing makes the source commit, or send another message.
CdcSpec ==
    /\ CdcInit /\ [][CdcNext]_cdcVars
    /\ WF_cdcVars(Receive) /\ WF_cdcVars(Flush) /\ WF_cdcVars(Reconnect)
    /\ WF_cdcVars(LedgerAppend)

-----------------------------------------------------------------------------
CdcTypeOK ==
    /\ wal \in 0..MaxTxn /\ ledger \in 0..wal /\ ack \in 0..wal
    /\ conn.txn \in 1..(wal + 1) /\ conn.from \in 1..conn.txn
    /\ next_seq \in Nat
    /\ \A k \in 1..Len(window) : window[k].seq = next_seq - Len(window) + k - 1
    /\ CommitsIn(window) <= WindowCommits
    /\ flush.at \in {"idle", "resolve", "insert", "markers", "verify", "ack"}
    /\ applied_lsn \in 0..wal /\ last_visibility_lsn \in 0..wal

\* clickhouse.rs: "The applied marker proves every transaction through the
\* target LSN is ingested": below the greatest marker no transaction misses a
\* row in any table, whatever request failed and whatever was sent again.
MarkerProves == \A t \in 1..LastMarker : Complete(t) /\ ch.markers[t] > 0

\* The CDC recovery plan: PostgreSQL feedback advances only through the
\* highest contiguous LSN whose data and proof are in ClickHouse; the source
\* may drop what was confirmed, so nothing could send it again.
FeedbackIsApplied == \A t \in 1..ack : Complete(t) /\ ch.markers[t] > 0

\* A commit does not stay in the window for ever once the window can fill: as
\* long as the task runs, a transaction followed by a window's worth of others
\* is applied.
FullWindowApplies ==
    \A t \in Txns :
        wal >= t + WindowCommits - 1 ~> applied_lsn >= t \/ task # "running"

\* The keepalive branch's comment: "the synchronous sink has applied every
\* publication change, so the keepalive end position is a valid visible LSN":
\* an answer at a target holds every transaction up to it.
AnswerIsExact == answer.seen = 1..answer.target

-----------------------------------------------------------------------------
(***************************************************************************)
(* Why nothing is confirmed or marked too early.  The applied position may *)
(* go back (a window that holds a transaction twice ends with the earlier  *)
(* one), so the argument never compares positions: a transaction that was  *)
(* received is either done, in every table and marked, or its Commit still *)
(* is in the window, which only a flush that did all of it empties.        *)
(***************************************************************************)
Done(t) == Complete(t) /\ ch.markers[t] > 0

InWindow(t) == \E k \in 1..Len(window) : IsCommit(window[k]) /\ window[k].txn = t

\* The commits of the flush in progress, once its window is resolved.
Flushed(t) == \E k \in 1..Len(flush.commits) : flush.commits[k] = t

CdcShape ==
    /\ conn \in [up : BOOLEAN, from : Nat, txn : Nat, i : Nat]
    /\ conn.i \in 1..Len(Messages(conn.txn))
    /\ ch \in [up : BOOLEAN, outages : Nat,
               rows : [1..Tables -> [Txns -> Nat]], markers : [Txns -> Nat],
               tokens : SUBSET ((0..Tables) \X Txns \X Seq(Txns)), visibility : Nat]
    /\ window \in Seq([seq : Nat, payload : {"begin", "relation", "change", "commit"}, txn : Txns])
    /\ flush \in [at : {"idle", "resolve", "insert", "markers", "verify", "ack"},
                  commits : Seq(Txns), table : Nat]

\* Nothing that was received is lost, and the window holds no commit whose
\* predecessors are neither done nor with it.
ReceivedIsKept ==
    /\ \A t \in 1..(conn.txn - 1) : Done(t) \/ InWindow(t)
    /\ \A c \in Txns : InWindow(c) => c <= wal /\ \A t \in 1..c : Done(t) \/ InWindow(t)

MarkedIsDone == \A t \in Txns : ch.markers[t] > 0 => \A s \in 1..t : Done(s)

PositionsAreDone ==
    /\ \A t \in 1..applied_lsn : Done(t)
    /\ \A t \in 1..ack : Done(t)

\* A token ClickHouse has seen is the token of rows it has.
TokensTell ==
    \A token \in ch.tokens : \A k \in 1..Len(token[3]) :
        IF token[1] = 0 THEN ch.markers[token[3][k]] > 0
                        ELSE ch.rows[token[1]][token[3][k]] > 0

\* The window waits below its limit; it is flushed with a commit in it; and
\* what the flush has sent so far is there, for the window's very commits.
FlushIsOfWindow ==
    /\ Idle => CommitsIn(window) < WindowCommits
    /\ flush.at = "resolve" => \E t \in Txns : InWindow(t)
    /\ flush.at = "insert" => flush.table \in 1..Tables
    /\ flush.at \in {"insert", "markers", "verify", "ack"} =>
           /\ flush.commits # <<>>
           /\ \A t \in Txns : Flushed(t) <=> InWindow(t)
           /\ \A o \in 1..Tables : \A t \in Txns :
                  Flushed(t) /\ (flush.at = "insert" => o < flush.table) => ch.rows[o][t] > 0
    /\ flush.at \in {"verify", "ack"} => \A t \in Txns : Flushed(t) => ch.markers[t] > 0

CdcInv ==
    /\ CdcTypeOK
    /\ CdcShape
    /\ ReceivedIsKept
    /\ MarkedIsDone
    /\ PositionsAreDone
    /\ TokensTell
    /\ FlushIsOfWindow
=============================================================================
