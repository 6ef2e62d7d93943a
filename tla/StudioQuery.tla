----------------------------- MODULE StudioQuery ----------------------------
(***************************************************************************)
(* One query of GrayDB Studio against the live pipeline: resolve_class     *)
(* turns its consistency class into a target, Engine::query then captures  *)
(* a snapshot of the shapes, and the HTTP handler finally samples the      *)
(* status from which it proves what the answer shows.  The pump's and the  *)
(* pipeline's locks are held for one sample each, so the pipeline moves    *)
(* between any two steps.                                                  *)
(*                                                                         *)
(* Targets are WAL positions.  The bound of 600 polls of a strong read is  *)
(* left out: a read it ends returns an error and no data.                  *)
(***************************************************************************)
EXTENDS Pipeline

CONSTANTS
    StaleBytes,   \* bounded(X): X seconds at the reference rate, in WAL positions
    AskFrom       \* bound: transactions committed when the query is asked

ASSUME StaleBytesAssumption == StaleBytes \in Nat
ASSUME AskFromAssumption == AskFrom \in Nat

VARIABLES
    reader,   \* the query, in [at, class, barrier, commits, stream, durable, target, rows, visible]
    framed    \* IngestMetrics::frames of this pump is not zero

readVars == <<vars, reader, framed>>

\* barrier: the WAL head it asked for, with `commits` transactions committed;
\* rows: the transactions its snapshot shows; visible: proof_data.visible_lsn.
NoRead == [at |-> "idle", class |-> "none", barrier |-> 0, commits |-> 0, stream |-> 0,
           durable |-> 0, target |-> 0, rows |-> 0, visible |-> 0]

Read ==
    [at : {"idle", "poll", "sampled", "head", "refused", "resolved", "captured", "answered"},
     class : {"none", "eventual", "target", "strong", "bounded"},
     barrier : Nat, commits : Nat, stream : Nat, durable : Nat, target : Nat, rows : Nat,
     visible : Nat]

\* The target of an `eventual` read, u64::MAX.
Everything == EndOf(MaxTxn) + 1

-----------------------------------------------------------------------------
\* resolve_class.
AskEventual ==
    /\ reader.at = "idle" /\ wal >= AskFrom
    /\ reader' = [reader EXCEPT !.at = "resolved", !.class = "eventual", !.target = Everything]
    /\ UNCHANGED vars

AskTarget(target) ==
    /\ reader.at = "idle" /\ wal >= AskFrom
    /\ reader' = [reader EXCEPT !.at = "resolved", !.class = "target", !.target = target,
                                !.commits = wal]
    /\ UNCHANGED vars

\* `strong` and `bounded` begin with the source's WAL head.
AskHead(class) ==
    /\ reader.at = "idle" /\ wal >= AskFrom
    /\ reader' = [reader EXCEPT !.at = IF class = "strong" THEN "poll" ELSE "head",
                                !.class = class, !.barrier = WalHead, !.commits = wal]
    /\ UNCHANGED vars

\* The mark and the stream's position; no pump running counts as (0, 0).
SamplePump ==
    /\ reader.at = "poll"
    /\ reader' = [reader EXCEPT !.at = "sampled",
                                !.stream = IF up THEN stream_lsn ELSE 0,
                                !.durable = IF up THEN durable.lsn ELSE 0]
    /\ UNCHANGED vars

CaughtUp == reader.stream >= reader.barrier /\ applied_lsn >= reader.durable

CompareApplied ==
    /\ reader.at = "sampled"
    /\ reader' = IF CaughtUp
                 THEN [reader EXCEPT !.at = "resolved",
                                     !.target = Greater(EndOf(applied_lsn), reader.barrier)]
                 ELSE [reader EXCEPT !.at = "poll"]
    /\ UNCHANGED vars

\* Mutant of CompareLag: the bound is reported and not enforced.
CompareLagLeniently ==
    /\ reader.at = "head"
    /\ reader' = [reader EXCEPT !.at = "resolved", !.target = EndOf(applied_lsn)]
    /\ UNCHANGED vars

\* bounded(X): a fast error if the shapes lag too far behind the head.
CompareLag ==
    /\ reader.at = "head"
    /\ reader' = IF reader.barrier <= EndOf(applied_lsn) + StaleBytes
                 THEN [reader EXCEPT !.at = "resolved", !.target = EndOf(applied_lsn)]
                 ELSE [reader EXCEPT !.at = "refused"]
    /\ UNCHANGED vars

-----------------------------------------------------------------------------
\* Engine::query: the segments, delete states and open rows at the target.
Capture ==
    /\ reader.at = "resolved"
    /\ reader' = [reader EXCEPT !.at = "captured",
                     !.rows = Cardinality({t \in 1..applied_lsn : EndOf(t) <= reader.target})]
    /\ UNCHANGED vars

\* Engine::status: the position received, of a pump that runs.
Received == IF up THEN Greater(stream_lsn, EndOf(durable.lsn)) ELSE 0

\* The handler asks for the status after the query; `frames == 0` reads the
\* pump's lifetime counter.
Prove ==
    /\ reader.at = "captured"
    /\ reader' = [reader EXCEPT !.at = "answered",
                     !.visible = IF up /\ framed THEN EndOf(applied_lsn)
                                 ELSE Greater(EndOf(applied_lsn), Received)]
    /\ UNCHANGED vars

Ask ==
    \/ AskEventual
    \/ \E t \in 1..MaxTxn : AskTarget(EndOf(t))
    \/ \E class \in {"strong", "bounded"} : AskHead(class)

Serve == SamplePump \/ CompareApplied \/ CompareLag \/ Capture \/ Prove

\* A restarted pump has new metrics; every frame sends the session on.
CountFrames == framed' = (up /\ (framed \/ msg' # msg))

QueryInit == PipelineInit /\ reader = NoRead /\ framed = FALSE

QueryNext ==
    \/ PipelineNext /\ CountFrames /\ UNCHANGED reader
    \/ Ask /\ UNCHANGED framed
    \/ Serve /\ UNCHANGED framed

QuerySpec == QueryInit /\ [][QueryNext]_readVars

\* Beyond the pipeline's: the request's own task is polled, and sleeps 100 ms
\* between two samples.
FairQuerySpec ==
    /\ QuerySpec
    /\ WF_readVars(Pump /\ CountFrames /\ UNCHANGED reader)
    /\ WF_readVars(Keepalive(FALSE) /\ CountFrames /\ UNCHANGED reader)
    /\ WF_readVars(ApplyNewFrames /\ CountFrames /\ UNCHANGED reader)
    /\ WF_readVars(Serve /\ UNCHANGED framed)

-----------------------------------------------------------------------------
\* A bounded read holds what it promises for the head it asked for: the answer
\* lacks no transaction that ended more than the bound before it, although
\* the lag is measured in one sample and the snapshot taken in another
\* (resolve_class, Engine::query).
BoundedIsFresh ==
    reader.at = "answered" /\ reader.class = "bounded" =>
        \A t \in 1..MaxTxn : EndOf(t) + StaleBytes <= reader.barrier => t <= reader.rows

\* The shapes the bound was measured against are still there at the capture.
BoundedInv ==
    reader.class = "bounded" =>
        /\ reader.at \notin {"idle", "poll", "sampled"}
        /\ reader.at = "resolved" =>
               \E a \in 0..applied_lsn : /\ reader.target = EndOf(a)
                                         /\ reader.barrier <= EndOf(a) + StaleBytes
        /\ reader.at \in {"captured", "answered"} =>
               reader.barrier <= EndOf(reader.rows) + StaleBytes

QueryInv == PumpInv /\ reader \in Read /\ BoundedInv

\* DECISIONS D-016: once the stream has passed the barrier and apply has
\* reached the durable mark, every transaction committed at or before the
\* barrier is materialized, so that is what the answer shows.
StrongSeesBarrier ==
    reader.at = "answered" /\ reader.class = "strong" => reader.rows >= reader.commits

\* The machine visibility contract (main.rs, query): an answer whose proof
\* reaches its target, which graydb.rs takes for exact, shows every transaction
\* committed at or before the target when the query was asked.
ProofCoversAnswer ==
    reader.at = "answered" /\ reader.class = "target" /\ reader.visible >= reader.target =>
        \A t \in 1..reader.commits : EndOf(t) <= reader.target => t <= reader.rows

\* Every query ends, a strong one although its barrier usually lies past the
\* last commit (D-016), as long as the pump lives and is not stalled.
QueryEnds ==
    reader.at # "idle" ~> reader.at \in {"answered", "refused"} \/ ~up \/ stalled
=============================================================================
