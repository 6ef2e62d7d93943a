----------------------------- MODULE WriterLoop -----------------------------
(***************************************************************************)
(* graydb-r1's ApplicationWriter::run, the pipelined loop that the         *)
(* benchmark's WriterCoordinator starts and stops, against a PostgreSQL    *)
(* and a control stream that never fail.                                   *)
(*                                                                         *)
(* An iteration executes the pending chunk, collects its mappings and      *)
(* fills the next chunk, all three concurrently, and then makes the new    *)
(* chunk the pending one.  A plan is its sequence number.                  *)
(***************************************************************************)
EXTENDS Integers, Sequences

CONSTANTS
    ChunkSize,   \* chunk_size: plans an iteration fills
    MaxPlans,    \* bound: plans a behaviour may record intents for
    NoChunk      \* None: no chunk has been filled yet

VARIABLES
    pc,          \* "idle", "run" (between iterations), "iterate" or "ok"
    stop,        \* the coordinator's stop signal
    stop_now,    \* the value the iteration has read
    next_plan,   \* next_sequence
    intents,     \* the plans in workload-intents.jsonl, in order
    pending,     \* the pending chunk: plans with an execution result
    chunk,       \* the chunk being filled
    executed,    \* results of the pending chunk's executions
    source,      \* plans PostgreSQL has committed, in order
    ledger       \* plans in workload-ledger.jsonl, in order

loopVars == <<pc, stop, stop_now, next_plan, intents, pending, chunk, executed, source,
              ledger>>

LoopInit ==
    /\ pc = "idle"
    /\ stop = FALSE
    /\ stop_now = FALSE
    /\ next_plan = 1
    /\ intents = <<>>
    /\ pending = NoChunk
    /\ chunk = <<>>
    /\ executed = <<>>
    /\ source = <<>>
    /\ ledger = <<>>

\* The plans there are to execute: none before the first chunk is filled.
Plans == IF pending = NoChunk THEN <<>> ELSE pending

\* WriterCoordinator::start: run begins after the ledger's last plan.
Start ==
    /\ pc = "idle"
    /\ pc' = "run"
    /\ stop' = FALSE
    /\ next_plan' = Len(ledger) + 1
    /\ pending' = NoChunk
    /\ UNCHANGED <<stop_now, intents, chunk, executed, source, ledger>>

\* WriterCoordinator::stop sends the signal and joins the task.
SignalStop ==
    /\ pc \in {"run", "iterate"}
    /\ ~stop
    /\ stop' = TRUE
    /\ UNCHANGED <<pc, stop_now, next_plan, intents, pending, chunk, executed, source,
                   ledger>>

Iterate ==
    /\ pc = "run"
    /\ stop_now' = stop
    /\ pc' = IF stop /\ pending = NoChunk THEN "ok" ELSE "iterate"
    /\ chunk' = <<>>
    /\ executed' = <<>>
    /\ UNCHANGED <<stop, next_plan, intents, pending, source, ledger>>

\* exec: the next plan of the pending chunk commits.
Execute ==
    /\ pc = "iterate"
    /\ Len(executed) < Len(Plans)
    /\ source' = Append(source, Plans[Len(executed) + 1])
    /\ executed' = Append(executed, "ok")
    /\ UNCHANGED <<pc, stop, stop_now, next_plan, intents, pending, chunk, ledger>>

\* map: the mapping of a committed plan reaches the ledger.
Map ==
    /\ pc = "iterate"
    /\ Len(ledger) < Len(source)
    /\ ledger' = Append(ledger, source[Len(ledger) + 1])
    /\ UNCHANGED <<pc, stop, stop_now, next_plan, intents, pending, chunk, executed, source>>

\* fill: a plan is recorded as an intent and put into the next chunk.
Fill ==
    /\ pc = "iterate"
    /\ ~stop_now
    /\ Len(chunk) < ChunkSize
    /\ next_plan <= MaxPlans
    /\ intents' = Append(intents, next_plan)
    /\ chunk' = Append(chunk, next_plan)
    /\ next_plan' = next_plan + 1
    /\ UNCHANGED <<pc, stop, stop_now, pending, executed, source, ledger>>

\* chunk.into_iter().zip(executed): the shorter of the two sets the length.
Zip(plans, results) ==
    SubSeq(plans, 1, IF Len(plans) < Len(results) THEN Len(plans) ELSE Len(results))

\* try_join! of the three phases, and the next pending chunk.
Join ==
    /\ pc = "iterate"
    /\ Len(executed) = Len(Plans)
    /\ Len(ledger) = Len(source)
    /\ stop_now \/ Len(chunk) = ChunkSize \/ next_plan > MaxPlans
    /\ pc' = IF stop_now THEN "ok" ELSE "run"
    /\ pending' = Zip(chunk, executed)
    /\ UNCHANGED <<stop, stop_now, next_plan, intents, chunk, executed, source, ledger>>

LoopNext == Start \/ SignalStop \/ Iterate \/ Execute \/ Map \/ Fill \/ Join

LoopSpec == LoopInit /\ [][LoopNext]_loopVars

(***************************************************************************)
(* "Affected rows from the durable intent log: every planned operation the *)
(* writer committed during the window" (tests/cdc_phase_a.rs:367), and "a  *)
(* terminal iteration still runs exec+map for the pending chunk before     *)
(* returning" (replication.rs:389): when the writer has stopped without an *)
(* error, every plan recorded as intended has been committed.              *)
(***************************************************************************)
IntentsAreCommitted == pc = "ok" => intents = source
=============================================================================
