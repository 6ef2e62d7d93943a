------------------------------- MODULE Dataset --------------------------------
(***************************************************************************)
(* graydb-r1's seed data: which rows the loader copies into PostgreSQL,    *)
(* in which order and until when, and which rows a generated row refers    *)
(* to.  The source has no foreign keys; the generator, which sees one row  *)
(* at a time, keeps the relations by construction.                         *)
(*                                                                         *)
(* A row is its table, its id and what it refers to; the columns drawn     *)
(* from dictionaries are left out.                                         *)
(***************************************************************************)
EXTENDS Integers, Sequences, FiniteSetsExt, SequencesExt

CONSTANT Draw(_, _, _)   \* mix64 of the seed, a table, an id and a salt: a u64

SeedTables == <<"tenants", "customers", "orders", "order_events">>

RowsPerCycle == [tenants |-> 1, customers |-> 5, orders |-> 20, order_events |-> 60]

\* single_cycle_ranges: the ids of a table's rows in a 0-based cycle.
CycleRange(cycle, table) == (100 * cycle + 1) .. (100 * cycle + RowsPerCycle[table])

CycleBase(id) == IF id = 0 THEN 0 ELSE ((id - 1) \div 100) * 100

-----------------------------------------------------------------------------
MaxTenantActivityRank == 64

\* The weights of the ranks up to one, summed.
ZipfWeight(rank) == MapThenSumSet(LAMBDA r : 10000 \div r, 1 .. rank)

\* There is a weight to draw from, whichever of the ranks is the highest.
ASSUME ZipfAssumption ==
    \A rank \in 1 .. MaxTenantActivityRank : ZipfWeight(rank) \in Nat \ {0}

BoundedZipfRank(draw, max_rank) ==
    LET slot == draw % ZipfWeight(max_rank) IN
    Min({rank \in 1 .. max_rank : slot < ZipfWeight(rank)})

\* The tenants loaded so far, the first of them drawn most often.
TenantForCustomer(id, draw) ==
    LET loaded == CycleBase(id) \div 100 + 1
        rank == BoundedZipfRank(draw, IF loaded < MaxTenantActivityRank THEN loaded
                                      ELSE MaxTenantActivityRank)
    IN (rank - 1) * 100 + 1

CustomerForOrder(id, draw) == CycleBase(id) + 1 + (draw % 5)

OrderForEvent(id, draw) == CycleBase(id) + 1 + (draw % 20)

\* DeterministicGenerator::row: a row's tenant is drawn as its customer's is,
\* and an event's customer as its order's is.
TenantOf(customer) == TenantForCustomer(customer, Draw("customers", customer, 11))
CustomerOf(order) == CustomerForOrder(order, Draw("orders", order, 7))
OrderOf(event) == OrderForEvent(event, Draw("order_events", event, 3))

\* What a row names, by table.
Named(table, id) ==
    CASE table = "tenants"      -> [tenants |-> id]
      [] table = "customers"    -> [tenants |-> TenantOf(id)]
      [] table = "orders"       -> [tenants |-> TenantOf(CustomerOf(id)),
                                    customers |-> CustomerOf(id)]
      [] table = "order_events" -> [tenants |-> TenantOf(CustomerOf(OrderOf(id))),
                                    orders |-> OrderOf(id)]

-----------------------------------------------------------------------------
\* A turn of load_until's loop: a cycle is loaded whole, and the published size
\* is measured when a sixteenth of the minimum has been generated since the
\* last time.
LoadCycle(load, bytes, published, minimum) ==
    LET unmeasured == load.unmeasured + bytes
        measured == unmeasured >= IF minimum < 16 THEN 1 ELSE minimum \div 16
    IN [cycles     |-> load.cycles + 1,
        unmeasured |-> IF measured THEN 0 ELSE unmeasured,
        done       |-> measured /\ published >= minimum]

\* bytes and published, by cycle: what it generates, and the size after it.
LoadUntil(bytes, published, minimum) ==
    FoldLeft(LAMBDA load, c : IF load.done THEN load
                              ELSE LoadCycle(load, bytes[c], published[c], minimum),
             [cycles |-> 0, unmeasured |-> 0, done |-> FALSE],
             [c \in 1 .. Len(bytes) |-> c])

-----------------------------------------------------------------------------
\* The rows of a table that are there when a cycle's k-th table is copied.
LoadedBefore(cycle, k, table) ==
    UNION {CycleRange(c, table) : c \in {c \in 0 .. cycle :
               c < cycle \/ \E j \in 1 .. (k - 1) : SeedTables[j] = table}}

\* "Customer and order ownership remain referentially valid" (benchmark design,
\* section 4): whatever a row of a cycle's k-th table names in another table has
\* been copied before the row, and a row's tenant is the tenant of what it
\* belongs to (DeterministicGenerator::row).
OwnersAreLoaded(cycle, k) ==
    LET table == SeedTables[k] IN
    \A id \in CycleRange(cycle, table) :
        LET row == Named(table, id) IN
        /\ \A parent \in DOMAIN row \ {table} : row[parent] \in LoadedBefore(cycle, k, parent)
        /\ table = "orders" => row.tenants = Named("customers", row.customers).tenants
        /\ table = "order_events" => row.tenants = Named("orders", row.orders).tenants
=============================================================================
