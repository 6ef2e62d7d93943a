------------------------------ MODULE Workload ------------------------------
(***************************************************************************)
(* graydb-r1's WorkloadPlanner: the deterministic stream of row operations *)
(* the benchmark's application writer commits.  Transaction n is planned   *)
(* from the seed and n alone, so a restarted writer, the oracle and the    *)
(* isolated replay all plan the same operations for the same n.            *)
(*                                                                         *)
(* The cycle lengths of the code (50 rows of which 45 insert, 4 update and *)
(* 1 deletes; 20 inserts of which 12 are events, 7 orders and 1 a          *)
(* customer; ...) are CONSTANTS, so that a short stream has every kind.    *)
(* mix64 is a CONSTANT operator.  A row is its key, its tenant and its     *)
(* image, which names what its other columns are computed from.            *)
(***************************************************************************)
EXTENDS Integers, Sequences, SequencesExt

CONSTANTS
    Mix(_, _),                        \* mix64 of the seed and an index
    Sizes,                            \* rows of each class of transaction
    TenantCount,                      \* FIXTURE_TENANT_COUNT
    InsertRows, UpdateRows, DeleteRows,           \* ..._ROWS_PER_CYCLE
    EventInserts, OrderInserts, CustomerInserts,  \* of INSERT_DISTRIBUTION_CYCLE
    OrderUpdates, CustomerUpdates,                \* of UPDATE_DISTRIBUTION_CYCLE
    OrderDeletes, EventDeletes                    \* of DELETE_DISTRIBUTION_CYCLE

ASSUME CycleAssumption ==
    /\ {TenantCount, InsertRows, UpdateRows, DeleteRows, EventInserts, OrderInserts,
        CustomerInserts, OrderUpdates, CustomerUpdates, OrderDeletes,
        EventDeletes} \subseteq Nat \ {0}
    /\ Sizes \in Seq(Nat) /\ Sizes # <<>>

OperationCycle == InsertRows + UpdateRows + DeleteRows

InsertCycle == EventInserts + OrderInserts + CustomerInserts

\* The lesser of two counts (u64::min), and a subtraction that stops at zero.
Lesser(a, b) == IF a < b THEN a ELSE b
Saturating(a) == IF a < 0 THEN 0 ELSE a

-----------------------------------------------------------------------------
TransactionSize(seed, n) == Sizes[(Mix(seed, n) % Len(Sizes)) + 1]

\* rows_before_sequence: the rows of the transactions before n.
RowsBeforeSequence(seed, n) ==
    LET prefix_rows[i \in 0..(n - 1)] ==
            IF i = 0 THEN 0 ELSE prefix_rows[i - 1] + TransactionSize(seed, i)
    IN prefix_rows[n - 1]

\* make_insert_order and make_insert_customer: the i-th application row.
MakeRow(table, seed, i) ==
    [table |-> table, id |-> i + 1, tenant |-> Mix(seed, i) % TenantCount]

\* deterministic_target_index: an index below `available`, 0 when there is none.
TargetIndex(seed, i, available) ==
    IF available = 0 THEN 0 ELSE Mix(seed, i) % available

\* make_insert_event: an event has the tenant of the order it is about.
MakeEvent(seed, i) ==
    [MakeRow("order_events", seed, i) EXCEPT
        !.tenant = MakeRow("orders", seed, TargetIndex(seed, i, i + 1)).tenant]

InsertRowsBefore(ordinal) ==
    ((ordinal \div OperationCycle) * InsertRows)
        + Lesser(ordinal % OperationCycle, InsertRows)

InsertTargetCountBefore(ordinal, table) ==
    LET full == InsertRowsBefore(ordinal) \div InsertCycle
        rest == InsertRowsBefore(ordinal) % InsertCycle
    IN CASE table = "customers" -> full
         [] table = "orders" ->
              full * OrderInserts + Lesser(Saturating(rest - EventInserts), OrderInserts)
         [] table = "order_events" -> full * EventInserts + Lesser(rest, EventInserts)

Operation(op, row, image) == [op |-> op, row |-> row, image |-> image]

PlanInsert(seed, i) ==
    LET slot == i % InsertCycle
        row == IF slot < EventInserts THEN MakeEvent(seed, i)
               ELSE IF slot < EventInserts + OrderInserts
                    THEN MakeRow("orders", seed, i)
                    ELSE MakeRow("customers", seed, i)
    IN Operation("insert", row, <<"insert", i>>)

PlanUpdate(seed, u, ordinal) ==
    LET table == IF u % (OrderUpdates + CustomerUpdates) < OrderUpdates
                 THEN "orders" ELSE "customers"
        target == TargetIndex(seed, u, InsertTargetCountBefore(ordinal, table))
    IN Operation("update", MakeRow(table, seed, target), <<"update", u>>)

PlanDelete(seed, d) ==
    LET row == IF d % (OrderDeletes + EventDeletes) < OrderDeletes
               THEN MakeRow("orders", seed, d) ELSE MakeEvent(seed, d)
    IN Operation("delete", row, <<"delete", d>>)

PlanOperation(seed, ordinal) ==
    LET cycle == ordinal \div OperationCycle
        slot == ordinal % OperationCycle
    IN IF slot < InsertRows
       THEN PlanInsert(seed, cycle * InsertRows + slot)
       ELSE IF slot < InsertRows + UpdateRows
            THEN PlanUpdate(seed, cycle * UpdateRows + slot - InsertRows, ordinal)
            ELSE PlanDelete(seed, cycle * DeleteRows + slot - InsertRows - UpdateRows)

\* WorkloadPlanner::plan.  The hash of a plan stands for its operations, and is
\* them.
Plan(seed, n) ==
    LET offset == RowsBeforeSequence(seed, n) IN
    [sequence |-> n,
     operations |-> [i \in 1..TransactionSize(seed, n) |->
                        PlanOperation(seed, offset + i - 1)]]
=============================================================================
