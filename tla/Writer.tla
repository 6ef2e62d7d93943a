------------------------------- MODULE Writer -------------------------------
(***************************************************************************)
(* graydb-r1's ApplicationWriter, one plan at a time (execute_and_record,  *)
(* submit_plan, recover_and_record), with PostgreSQL, the control stream,  *)
(* the committed ledger it writes, and a task that reads the ledger's file *)
(* while it is written.                                                    *)
(*                                                                         *)
(* The caller takes the plan after the ledger's last one: it executes it,  *)
(* or submits it and gives the writer up (into_mapped_receiver), or        *)
(* recovers it.  A new writer has a new connection and the old channel.    *)
(*                                                                         *)
(* A ledger entry is [sequence, source_lsn]; its xid and its operation     *)
(* hash are those of the marker at source_lsn, and its hash chain stands   *)
(* for the entries before it.                                              *)
(***************************************************************************)
EXTENDS ControlStream, LedgerOracle

CONSTANTS
    Seeds,     \* seeds a run may have
    MaxPlans   \* bound: plans a behaviour may commit

ASSUME MaxPlansAssumption == MaxPlans \in Nat /\ 2 * MaxPlans <= MaxSeq

VARIABLES
    seed,      \* SystemRuntimeConfig::seed
    intents,   \* sequences in workload-intents.jsonl
    conn,      \* the writer's connection is alive
    commit,    \* a COMMIT under way: its plan, and whether its session lives
    wpc,       \* where the writer is
    current,   \* the plan being executed or recovered
    submitted, \* the call is submit_plan: it ends with the COMMIT's answer
    stash,     \* pending_maps: mappings of later plans
    entry,     \* the ledger entry being appended
    tail,      \* the unterminated last line of workload-ledger.jsonl
    ledger,    \* the entries of its complete lines, and of the writer
    view,      \* the entries a reader of the file has loaded
    refused    \* a check of the ledger or of the mappings has failed

writerVars == <<seed, intents, conn, commit, wpc, current, submitted, stash, entry,
                tail, ledger, view, refused>>

wVars == <<controlVars, writerVars>>

NoLiveCommit == [plan |-> 0, live |-> FALSE]

NoLedgerEntry == [sequence |-> 0, source_lsn |-> 0]

Marked(n) == \E t \in DOMAIN markers : markers[t] = n

\* CommittedLedger::next_sequence.
NextSequence(entries) == IF entries = <<>> THEN 1 ELSE Last(entries).sequence + 1

WriterInit ==
    /\ ControlInit
    /\ seed \in Seeds
    /\ intents = {}
    /\ conn = TRUE
    /\ commit = NoLiveCommit
    /\ wpc = "idle"
    /\ current = 0
    /\ submitted = FALSE
    /\ stash = {}
    /\ entry = NoLedgerEntry
    /\ tail = "none"
    /\ ledger = <<>>
    /\ view = <<>>
    /\ refused = FALSE

-----------------------------------------------------------------------------
(***************************************************************************)
(* The calls of the writer's owner.                                        *)
(***************************************************************************)
\* Mutant of NextPlan: the plan after the last one submitted.
NextPlanByIntent == Max(intents \union {0}) + 1

\* The caller goes on after the ledger's last entry.
NextPlan == NextSequence(ledger)

\* The intent is fsync'd before the transaction begins.
Begin(is_submit) ==
    /\ wpc = "idle"
    /\ NextPlan <= MaxPlans
    /\ current' = NextPlan
    /\ intents' = intents \union {current'}
    /\ submitted' = is_submit
    /\ wpc' = "operations"
    /\ UNCHANGED <<controlVars, seed, conn, commit, stash, entry, tail, ledger, view,
                   refused>>

ExecuteAndRecord == Begin(FALSE)

SubmitPlan == Begin(TRUE)

RecoverAndRecord ==
    /\ wpc = "idle"
    /\ NextSequence(ledger) \in intents
    /\ current' = NextSequence(ledger)
    /\ submitted' = FALSE
    /\ wpc' = "recover"
    /\ UNCHANGED <<controlVars, seed, intents, conn, commit, stash, entry, tail, ledger,
                   view, refused>>

\* into_mapped_receiver: the connection and pending_maps are dropped, the new
\* writer resumes the ledger's file.
NewWriter ==
    /\ wpc = "idle"
    /\ conn' = TRUE
    /\ stash' = {}
    /\ UNCHANGED <<controlVars, seed, intents, commit, wpc, current, submitted, entry,
                   tail, ledger, view, refused>>

-----------------------------------------------------------------------------
(***************************************************************************)
(* The SQL transaction.                                                    *)
(***************************************************************************)
\* An error of submit_plan: its caller classifies the plan, or is given it.
AfterSqlError == IF submitted THEN "idle" ELSE "recover"

\* Mutant of SendCommit: the marker table has no primary key.
SendCommitAgain ==
    /\ wpc = "operations"
    /\ conn
    /\ commit.plan # current
    /\ commit' = [plan |-> current, live |-> TRUE]
    /\ wpc' = "commit"
    /\ UNCHANGED <<controlVars, seed, intents, conn, current, submitted, stash, entry,
                   tail, ledger, view, refused>>

\* The operations and the marker are sent, and then the COMMIT.  The marker's
\* primary key waits for another session's transaction with the same marker.
SendCommit ==
    /\ wpc = "operations"
    /\ conn
    /\ commit.plan # current
    /\ ~Marked(current)
    /\ commit' = [plan |-> current, live |-> TRUE]
    /\ wpc' = "commit"
    /\ UNCHANGED <<controlVars, seed, intents, conn, current, submitted, stash, entry,
                   tail, ledger, view, refused>>

\* A statement fails: the marker is already there, or the connection is gone.
SqlFails ==
    /\ wpc = "operations"
    /\ Marked(current) \/ ~conn
    /\ wpc' = AfterSqlError
    /\ UNCHANGED <<controlVars, seed, intents, conn, commit, current, submitted, stash,
                   entry, tail, ledger, view, refused>>

\* PostgreSQL executes the COMMIT, and answers if the session lives.
Commit ==
    /\ commit.plan # 0
    /\ markers' = Append(markers, commit.plan)
    /\ commit' = NoLiveCommit
    /\ wpc' = IF ~commit.live THEN wpc ELSE IF submitted THEN "idle" ELSE "mapping"
    /\ UNCHANGED <<logVars, row_sent, ctl, mapped, unacked, confirmed, seed, intents, conn,
                   current, submitted, stash, entry, tail, ledger, view, refused>>

\* The writer's connection breaks: a COMMIT on its way may still be executed,
\* later, or never arrive.
LoseConnection ==
    /\ conn
    /\ conn' = FALSE
    /\ wpc' = IF wpc \in {"operations", "commit"} THEN AfterSqlError ELSE wpc
    /\ commit' \in IF commit.live THEN {[commit EXCEPT !.live = FALSE], NoLiveCommit}
                   ELSE {commit}
    /\ UNCHANGED <<controlVars, seed, intents, current, submitted, stash, entry, tail,
                   ledger, view, refused>>

\* PostgreSQL rolls back the transaction of a session that is gone.
RollBack ==
    /\ commit.plan # 0
    /\ ~commit.live
    /\ commit' = NoLiveCommit
    /\ UNCHANGED <<controlVars, seed, intents, conn, wpc, current, submitted, stash, entry,
                   tail, ledger, view, refused>>

-----------------------------------------------------------------------------
(***************************************************************************)
(* Recovery, the mapping and the ledger.                                   *)
(***************************************************************************)
\* classify_committed_plan, by a fresh connection.
Classify == Marked(current)

\* An unknown outcome is returned to the caller, and nothing is retried.
Recover ==
    /\ wpc = "recover"
    /\ wpc' = IF Classify THEN "mapping" ELSE "idle"
    /\ UNCHANGED <<controlVars, seed, intents, conn, commit, current, submitted, stash,
                   entry, tail, ledger, view, refused>>

\* wait_for_mapping takes a mapping that came earlier, or receives the next one:
\* a later plan's is kept, an earlier plan's is an error.
WaitForMapping ==
    /\ wpc = "mapping"
    /\ IF \E m \in stash : m.sequence = current
       THEN /\ entry' = CHOOSE m \in stash : m.sequence = current
            /\ stash' = stash \ {entry'}
            /\ wpc' = "append"
            /\ UNCHANGED <<mapped, refused>>
       ELSE /\ mapped # <<>>
            /\ mapped' = Tail(mapped)
            /\ LET m == Head(mapped) IN
                 /\ entry' = IF m.sequence = current THEN m ELSE entry
                 /\ stash' = IF m.sequence > current THEN stash \union {m} ELSE stash
                 /\ refused' = (refused \/ m.sequence < current)
                 /\ wpc' = CASE m.sequence = current -> "append"
                             [] m.sequence > current -> "mapping"
                             [] m.sequence < current -> "idle"
    /\ UNCHANGED <<logVars, markers, row_sent, ctl, unacked, confirmed, seed, intents, conn,
                   commit, current, submitted, tail, ledger, view>>

\* "control mapper stopped before transaction was visible".
MapperStopped ==
    /\ wpc = "mapping"
    /\ mapped = <<>>
    /\ \A m \in stash : m.sequence # current
    /\ ControlGone
    /\ wpc' = "failed"
    /\ UNCHANGED <<controlVars, seed, intents, conn, commit, current, submitted, stash,
                   entry, tail, ledger, view, refused>>

\* CommittedLedger::append: the checks, then a line in two writes (the entry,
\* its newline), the first of which a reader may see a part of.
AppendStarts ==
    /\ wpc = "append"
    /\ tail = "none"
    /\ IF entry.sequence = NextSequence(ledger)
       THEN /\ tail' \in {"partial", "json"}
            /\ UNCHANGED <<wpc, refused>>
       ELSE /\ refused' = TRUE
            /\ wpc' = "idle"
            /\ UNCHANGED tail
    /\ UNCHANGED <<controlVars, seed, intents, conn, commit, current, submitted, stash,
                   entry, ledger, view>>

AppendWrites ==
    /\ wpc = "append"
    /\ tail = "partial"
    /\ tail' = "json"
    /\ UNCHANGED <<controlVars, seed, intents, conn, commit, wpc, current, submitted,
                   stash, entry, ledger, view, refused>>

AppendEnds ==
    /\ wpc = "append"
    /\ tail = "json"
    /\ tail' = "none"
    /\ ledger' = Append(ledger, entry)
    /\ wpc' = "idle"
    /\ UNCHANGED <<controlVars, seed, intents, conn, commit, current, submitted, stash,
                   entry, view, refused>>

\* Mutant of Unterminated: a line without its newline ends the read as an entry,
\* whole or not.
UnterminatedTaken == IF tail = "none" THEN <<>> ELSE <<[entry EXCEPT
    !.source_lsn = IF tail = "json" THEN @ ELSE 0]>>

\* What a read makes of the last line: an entry once its JSON is complete, with
\* or without the newline; left for the next read before that.
Unterminated == IF tail = "json" THEN <<entry>> ELSE <<>>

\* refresh, by the tasks that follow the ledger.
Refresh ==
    /\ view' = ledger \o Unterminated
    /\ UNCHANGED <<controlVars, seed, intents, conn, commit, wpc, current, submitted,
                   stash, entry, tail, ledger, refused>>

\* The process is killed, or the machine stops: what the ledger's fsync has not
\* covered is the line being written.  Nothing of the writer starts again: the
\* control slot exists, so a new control stream cannot be created.
Die ==
    /\ \/ up /\ (Kill \/ PowerLoss)
       \/ ~up /\ UNCHANGED logVars
    /\ wpc # "dead"
    /\ ctl' = IF ctl = "stopped" THEN "stopped" ELSE "failed"
    /\ mapped' = <<>>
    /\ wpc' = "dead"
    /\ tail' \in {tail, "none"}
    /\ view' = <<>>
    /\ conn' = FALSE
    /\ commit' = [commit EXCEPT !.live = FALSE]
    /\ UNCHANGED <<markers, row_sent, unacked, confirmed, seed, intents, current,
                   submitted, stash, entry, ledger, refused>>

-----------------------------------------------------------------------------
Stream == ControlNext /\ UNCHANGED writerVars

Call == ExecuteAndRecord \/ SubmitPlan \/ RecoverAndRecord \/ NewWriter

Postgres == Commit \/ RollBack

WriterStep ==
    \/ SendCommit
    \/ SqlFails
    \/ Recover
    \/ WaitForMapping
    \/ MapperStopped
    \/ AppendStarts
    \/ AppendWrites
    \/ AppendEnds

WriterNext == Stream \/ Call \/ Postgres \/ WriterStep \/ LoseConnection \/ Refresh \/ Die

(***************************************************************************)
(* The runtime polls the control task and the writer's call, and           *)
(* PostgreSQL ends every transaction.  The session's messages are read in  *)
(* their order, so no number of keepalives keeps a row or a commit back.   *)
(* Nothing makes a keepalive ask for a reply, the caller call again, or a  *)
(* connection break.                                                       *)
(***************************************************************************)
Delivered == (ReceiveRow \/ ReceiveCommit) /\ UNCHANGED writerVars

Handled == (RollControlLog \/ MapCommit \/ FlushBatch \/ SendStatus) /\ UNCHANGED writerVars

WriterFairness ==
    /\ SF_wVars(Delivered)
    /\ WF_wVars(Handled)
    /\ WF_wVars(WriterStep)
    /\ WF_wVars(Postgres)

WriterSpec == WriterInit /\ [][WriterNext]_wVars /\ WriterFairness
-----------------------------------------------------------------------------
(***************************************************************************)
(* Properties.                                                             *)
(***************************************************************************)
\* The ledger is the history of the source: its n-th entry is plan n at the
\* commit LSN where PostgreSQL has plan n's marker, whatever was submitted,
\* lost, recovered and tried again.
LedgerIsHistory ==
    \A n \in DOMAIN ledger :
        /\ ledger[n].sequence = n
        /\ ledger[n].source_lsn \in DOMAIN markers
        /\ markers[ledger[n].source_lsn] = n

\* "A disconnect after COMMIT submission is intentionally never retried" before
\* the marker tells (replication.rs:631): every plan commits at most once, in
\* order, and at most one committed plan is not yet in the ledger.
OneUnresolved ==
    /\ \A t \in DOMAIN markers : markers[t] = t
    /\ Len(markers) <= Len(ledger) + 1

\* No mapping is behind the plan that waits for one, and no entry misses its
\* place in the ledger: the two errors that would end the run.
NothingRefused == ~refused

\* A reader of the ledger's file (the runtime's cache, the ClickHouse task) has
\* a prefix of the history, with at most the entry now being appended more.
ReaderFollows ==
    /\ Len(view) <= Len(ledger) + 1
    /\ \A n \in DOMAIN view : /\ view[n].sequence = n
                              /\ view[n].source_lsn \in DOMAIN markers
                              /\ markers[view[n].source_lsn] = n

\* wait_for_mapping has no timeout, and the next commit, which could fill a
\* batch, waits for it: the mapping must come, or the control stream end.
WaitEnds == wpc = "mapping" ~> wpc # "mapping"

(***************************************************************************)
(* The inductive invariant behind the first four, on top of ControlInv.    *)
(***************************************************************************)
\* The entry of plan n, at its marker's commit.
EntryOf(n) == [sequence |-> n, source_lsn |-> n]

\* The plan the ledger waits for has its marker.
Resolved == Len(markers) = Len(ledger) + 1

\* PostgreSQL has the plans in their order, the ledger all but the last at most.
History ==
    /\ \A t \in DOMAIN markers : markers[t] = t
    /\ \A n \in DOMAIN ledger : ledger[n] = EntryOf(n)
    /\ Len(ledger) <= head
    /\ Len(markers) = Len(ledger) \/ Resolved

\* The writer works on the plan after the ledger's last one; it waits for a
\* mapping, and appends, only when PostgreSQL has the plan.
Working ==
    /\ wpc \in {"idle", "operations", "commit", "recover", "mapping", "append", "failed",
                "dead"}
    /\ wpc \notin {"idle", "dead"} => current = Len(ledger) + 1
    /\ wpc \in {"mapping", "append"} => Resolved
    /\ wpc = "append" => entry = EntryOf(current) /\ head = Len(markers)

\* A COMMIT under way, of this session or of a lost one, is that plan's, and
\* PostgreSQL does not have it yet.
CommitIsNext ==
    /\ commit \in [plan : Nat, live : BOOLEAN]
    /\ commit.plan # 0 => commit.plan = Len(ledger) + 1 /\ ~Resolved
    /\ commit.live <=> wpc = "commit"
    /\ commit.live => commit.plan # 0

\* The channel holds at most the mapping the writer needs next, and that one
\* is not received again nor still to be sent; so nothing is ever put aside.
MappingIsNext ==
    /\ stash = {}
    /\ mapped # <<>> => /\ mapped = <<EntryOf(Len(ledger) + 1)>>
                        /\ Resolved
                        /\ head = Len(markers)
                        /\ ctl # "map"
                        /\ wpc # "append"
    /\ ctl = "map" => head = Len(ledger) + 1 /\ wpc # "append"

\* The line being written is that plan's entry, also after the writer died.
LineIsNext ==
    /\ tail \in {"none", "partial", "json"}
    /\ tail # "none" => wpc \in {"append", "dead"} /\ Resolved /\ entry = EntryOf(Len(ledger) + 1)

ViewFollows ==
    /\ Len(view) <= Len(ledger) + 1 /\ Len(view) <= Len(markers)
    /\ \A n \in DOMAIN view : view[n] = EntryOf(n)

WriterInv ==
    /\ ControlInv
    /\ ledger \in Seq([sequence : Nat, source_lsn : Nat])
    /\ view \in Seq([sequence : Nat, source_lsn : Nat])
    /\ History
    /\ Working
    /\ CommitIsNext
    /\ MappingIsNext
    /\ LineIsNext
    /\ ViewFollows
    /\ NothingRefused

-----------------------------------------------------------------------------
(***************************************************************************)
(* The source's tables after its first t transactions, by SQL: an UPDATE   *)
(* or DELETE whose WHERE clause finds no row changes nothing; a DELETE     *)
(* asks for the tenant too.                                                *)
(***************************************************************************)
Execute(rows, op, lsn) ==
    LET k == KeyOf(op)
        found == k \in DOMAIN rows /\ (op.op = "delete" => rows[k].tenant = op.row.tenant)
    IN CASE op.op = "insert" -> With(rows, k, StateOf(op, lsn))
         [] op.op = "update" /\ found -> With(rows, k, StateOf(op, lsn))
         [] op.op = "delete" /\ found -> Without(rows, k)
         [] OTHER -> rows

Executed(rows, operations, lsn) ==
    LET after[i \in 0..Len(operations)] ==
            IF i = 0 THEN rows ELSE Execute(after[i - 1], operations[i], lsn)
    IN after[Len(operations)]

SourceRows ==
    LET after[t \in 0..Len(markers)] ==
            IF t = 0 THEN NoEntries
            ELSE Executed(after[t - 1], Plan(seed, markers[t]).operations, t)
    IN after

LedgerPlans == [n \in DOMAIN ledger |-> Plan(seed, ledger[n].sequence)]

LedgerLsns == [n \in DOMAIN ledger |-> ledger[n].source_lsn]

\* The oracles of the ledger's first entries.
Oracles == Replay(LedgerPlans, LedgerLsns, OnceBut(LedgerPlans, 0, 1))

Oracle == Oracles[Len(ledger)]

\* The oracle replays the ledger without a gap, and its state at every commit
\* LSN of the ledger is the source's: updates and deletes that find no row,
\* rows written twice, and rows deleted and looked up at an earlier LSN.
OracleIsSource ==
    /\ \A n \in DOMAIN ledger : Applicable(Oracles[n - 1], LedgerPlans[n], LedgerLsns[n])
    /\ \A n \in DOMAIN ledger : RowsAt(Oracle, LedgerLsns[n]) = SourceRows[LedgerLsns[n]]

\* "Any gap, duplicate, stale version, or ignored tombstone must fail compare"
\* (oracle.rs:2): every such corruption of a candidate is refused, for every
\* history a run can have, and the candidate without one is accepted.
CompareRefuses ==
    LET target == LatestCheckpoint(Oracle) IN
    /\ Passed(Oracle, Replayed(LedgerPlans, LedgerLsns), target)
    /\ \A candidate \in Corruptions(LedgerPlans, LedgerLsns) :
         ~Passed(Oracle, candidate, target)
=============================================================================
