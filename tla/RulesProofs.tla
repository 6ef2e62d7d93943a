---------------------------- MODULE RulesProofs ----------------------------
(***************************************************************************)
(* The verdict of graydb-r1 favours no engine, and its seed data keeps its *)
(* relations in every cycle, whatever is drawn.                            *)
(***************************************************************************)
EXTENDS Verdict, Dataset, RunLemmas, FiniteSetTheorems

\* The latencies whose products do not saturate: all a run can measure, 100
\* times below 2^128 ns.
Measurable == {ns \in Nat : ns * 100 <= U128Max}

\* A percentage of a measurable latency is computed exactly (saturating_mul).
LEMMA Exact ==
    ASSUME NEW ns \in Measurable, NEW k \in 0 .. 100
    PROVE  /\ SaturatingMul(ns, k) = ns * k
           /\ ns * k \in Nat
<1>1. ns \in Nat /\ ns * 100 <= U128Max
  BY DEF Measurable
<1>2. ns * k <= ns * 100
  BY <1>1, Z3
<1>3. ns * k <= U128Max
  BY <1>1, <1>2, U128Assumption, Z3
<1>4. ns * k \in Nat
  BY <1>1, Z3
<1>5. ~(ns * k > U128Max)
  BY <1>3, <1>4, U128Assumption
<1> QED
  BY <1>4, <1>5 DEF SaturatingMul

\* For measurable latencies a margin is what the specification's arithmetic
\* says (at_least_percent_lower).
LEMMA Margin ==
    ASSUME NEW a \in Measurable, NEW b \in Measurable
    PROVE  AtLeastPercentLower(a, b, 5) <=> b # 0 /\ a * 100 <= b * 95
<1>1. SaturatingMul(a, 100) = a * 100 /\ SaturatingMul(b, 95) = b * 95
  BY Exact
<1> QED
  BY <1>1 DEF AtLeastPercentLower

\* Only one of two engines can win a cell by the margin.
LEMMA OneWinner ==
    ASSUME NEW g, NEW c, {g.p95, c.p95} \subseteq Measurable,
           WinsCell(g, c)
    PROVE  ~WinsCell(c, g)
<1>1. g.p95 \in Nat /\ c.p95 \in Nat
  BY DEF Measurable
<1>2. c.p95 # 0 /\ g.p95 * 100 <= c.p95 * 95
  BY Margin DEF WinsCell
<1>3. ~(g.p95 # 0 /\ c.p95 * 100 <= g.p95 * 95)
  BY <1>1, <1>2
<1> QED
  BY <1>3, Margin DEF WinsCell

\* The cell rule favours neither engine: exchanging their measurements exchanges
\* the verdict, although evaluate_cell tests GrayDB's win first and the margins
\* of win and tie are taken from different bases.
THEOREM CellIsFair ==
    ASSUME NEW g, NEW c, {g.p95, c.p95} \subseteq Measurable,
           g.p99 \in Nat, c.p99 \in Nat
    PROVE  /\ EvaluateCell(g, c) = "GrayDbWin" <=> EvaluateCell(c, g) = "ClickHouseWin"
           /\ EvaluateCell(g, c) = "Tie" <=> EvaluateCell(c, g) = "Tie"
<1>1. ~(WinsCell(g, c) /\ WinsCell(c, g))
  BY OneWinner
<1>2. TiesCell(g, c) <=> TiesCell(c, g)
  <2>1. g.p95 \in Nat /\ c.p95 \in Nat
    BY DEF Measurable
  <2>2. \A a, b \in Nat : DiffersByLessThanPercent(a, b, 5) <=> DiffersByLessThanPercent(b, a, 5)
    BY DEF DiffersByLessThanPercent
  <2> QED
    BY <2>1, <2>2 DEF TiesCell
<1>3. CASE WinsCell(g, c)
  BY <1>1, <1>3 DEF EvaluateCell
<1>4. CASE WinsCell(c, g)
  BY <1>1, <1>4 DEF EvaluateCell
<1>5. CASE ~WinsCell(g, c) /\ ~WinsCell(c, g)
  BY <1>2, <1>5 DEF EvaluateCell
<1> QED
  BY <1>3, <1>4, <1>5

\* Of measurable latencies, differing by less than 5% is what the design's
\* arithmetic says (differs_by_less_than_percent).
LEMMA Tied ==
    ASSUME NEW a \in Measurable, NEW b \in Measurable
    PROVE  DiffersByLessThanPercent(a, b, 5) <=> Near(a, b)
<1>1. a \in Nat /\ b \in Nat /\ a * 100 <= U128Max /\ b * 100 <= U128Max
  BY DEF Measurable
<1>2. SaturatingMul(a, 5) = a * 5 /\ SaturatingMul(b, 5) = b * 5
  BY Exact
<1>3. CASE a = b
  BY <1>3 DEF DiffersByLessThanPercent, Near
<1>4. CASE a < b
  <2>1. b - a \in Measurable
    BY <1>1, <1>4, U128Assumption DEF Measurable
  <2>2. SaturatingMul(b - a, 100) = (b - a) * 100
    BY <2>1, Exact
  <2> QED
    BY <1>1, <1>2, <1>4, <2>2 DEF DiffersByLessThanPercent, Near
<1>5. CASE b < a
  <2>1. a - b \in Measurable
    BY <1>1, <1>5, U128Assumption DEF Measurable
  <2>2. SaturatingMul(a - b, 100) = (a - b) * 100
    BY <2>1, Exact
  <2> QED
    BY <1>1, <1>2, <1>5, <2>2 DEF DiffersByLessThanPercent, Near
<1> QED
  BY <1>1, <1>3, <1>4, <1>5

\* The cell rule is the design's for all latencies whose products do not
\* saturate, and not only for those that are tried out: two sides that multiply
\* different numbers and subtract before or after it agree to the nanosecond
\* (evaluate_cell, at_least_percent_lower, differs_by_less_than_percent).
THEOREM CellIsTheDesigns ==
    ASSUME NEW g, NEW c, {g.p95, g.p99, c.p95, c.p99} \subseteq Measurable
    PROVE  EvaluateCell(g, c) = DesignCell(g, c)
<1>1. \A a, b \in Measurable :
        AtLeastPercentLower(a, b, 5) <=> b > 0 /\ 100 * (b - a) >= 5 * b
  <2> SUFFICES ASSUME NEW a \in Measurable, NEW b \in Measurable
               PROVE  AtLeastPercentLower(a, b, 5) <=> b > 0 /\ 100 * (b - a) >= 5 * b
    OBVIOUS
  <2>1. a \in Nat /\ b \in Nat
    BY DEF Measurable
  <2> QED
    BY <2>1, Margin
<1>2. /\ WinsCell(g, c) <=> DesignWins(g, c)
      /\ WinsCell(c, g) <=> DesignWins(c, g)
  BY <1>1 DEF WinsCell, DesignWins
<1>3. TiesCell(g, c) <=> Near(g.p95, c.p95) /\ Near(g.p99, c.p99)
  BY Tied DEF TiesCell
<1> QED
  BY <1>2, <1>3 DEF EvaluateCell, DesignCell

\* The same run with the engines' names exchanged: every cell of the one is
\* evaluated from the latencies of the other's, with the sides changed.
Exchanged(ours, theirs) ==
    /\ DOMAIN ours = DOMAIN theirs
    /\ \A r \in DOMAIN ours : \A q \in RequiredQueries :
          \E g, c : /\ {g.p95, c.p95} \subseteq Measurable /\ g.p99 \in Nat /\ c.p99 \in Nat
                   /\ ours[r].cells[q] = EvaluateCell(g, c)
                   /\ theirs[r].cells[q] = EvaluateCell(c, g)

\* A run cannot be read as a victory of either engine: if GrayDB beat ClickHouse,
\* then ClickHouse, put in GrayDB's place with the same latencies, did not beat
\* GrayDB, whatever the ratios say.  The four wins at 1,000 rows/s are four
\* losses of the other side, and none is allowed (graydb_beat_clickhouse of
\* Scorecard and WinnerEvaluation, evaluate_cell).
THEOREM OneVictor ==
    ASSUME NEW ours, NEW theirs, Exchanged(ours, theirs),
           Beat(Evaluate(ours))
    PROVE  ~Beat(Evaluate(theirs))
<1>1. ASSUME NEW cards, Beat(Evaluate(cards))
      PROVE  1000 \in DOMAIN cards /\ CardBeats(cards[1000])
  <2> DEFINE e == Evaluate(cards)
  <2>1. e.required_rates = RequiredRates(cards)
        /\ e.passed_rates = [r \in RequiredRates(cards) |-> r \in DOMAIN cards /\ CardBeats(cards[r])]
    BY DEF Evaluate
  <2>2. 1000 \in RequiredRates(cards)
    BY <1>1, <2>1 DEF Beat, RequiredRates
  <2>3. e.passed_rates[1000]
    BY <1>1, <2>1, <2>2 DEF Beat
  <2>4. e.passed_rates[1000] = (1000 \in DOMAIN cards /\ CardBeats(cards[1000]))
    BY <2>1, <2>2
  <2> QED
    BY <2>3, <2>4
<1> SUFFICES ASSUME Beat(Evaluate(theirs)) PROVE FALSE
  OBVIOUS
<1> DEFINE won == {q \in DOMAIN ours[1000].cells : ours[1000].cells[q] = "GrayDbWin"}
           lost == {q \in DOMAIN theirs[1000].cells : theirs[1000].cells[q] = "ClickHouseWin"}
<1>2. /\ DOMAIN ours[1000].cells = RequiredQueries
      /\ DOMAIN theirs[1000].cells = RequiredQueries
      /\ Cardinality(won) >= 4
      /\ Cardinality(lost) = 0
  <2>1. CardBeats(ours[1000]) /\ CardBeats(theirs[1000])
    BY <1>1
  <2>2. Wins(ours[1000]) = Cardinality(won) /\ Losses(theirs[1000]) = Cardinality(lost)
    BY DEF Wins, Losses
  <2> HIDE DEF won, lost
  <2> QED
    BY <2>1, <2>2 DEF CardBeats
<1>3. PICK q \in RequiredQueries : ours[1000].cells[q] = "GrayDbWin"
  <2> HIDE DEF won
  <2>1. won # {}
    BY <1>2, FS_EmptySet
  <2> QED
    BY <1>2, <2>1 DEF won
<1>4. 1000 \in DOMAIN ours
  BY <1>1
<1>5. PICK g, c : /\ {g.p95, c.p95} \subseteq Measurable /\ g.p99 \in Nat /\ c.p99 \in Nat
                  /\ ours[1000].cells[q] = EvaluateCell(g, c)
                  /\ theirs[1000].cells[q] = EvaluateCell(c, g)
  BY <1>4 DEF Exchanged
<1>6. theirs[1000].cells[q] = "ClickHouseWin"
  BY <1>3, <1>5, CellIsFair
<1>7. q \in lost
  BY <1>2, <1>6
<1>8. IsFiniteSet(lost)
  <2>1. IsFiniteSet(RequiredQueries)
    <3>1. IsFiniteSet({"q1"} \union {"q2"})
      BY FS_Singleton, FS_AddElement
    <3>2. IsFiniteSet((({"q1"} \union {"q2"}) \union {"q3"}) \union {"q4"})
      BY <3>1, FS_AddElement
    <3>3. IsFiniteSet(((({"q1"} \union {"q2"}) \union {"q3"}) \union {"q4"}) \union {"q5"})
      BY <3>2, FS_AddElement
    <3>4. RequiredQueries = ((({"q1"} \union {"q2"}) \union {"q3"}) \union {"q4"}) \union {"q5"}
      BY DEF RequiredQueries
    <3> QED
      BY <3>3, <3>4
  <2>2. lost \subseteq RequiredQueries
    BY <1>2
  <2> QED
    BY <2>1, <2>2, FS_Subset
<1> HIDE DEF lost
<1> QED
  BY <1>2, <1>7, <1>8, FS_EmptySet

-----------------------------------------------------------------------------
\* A set of numbers has a least one (Min of FiniteSetsExt).
LEMMA LeastIsInIt ==
    ASSUME NEW S \in SUBSET Nat, S # {}
    PROVE  Min(S) \in S
<1>1. \E least \in S : \A y \in S : least <= y
  BY SmallestExists
<1> QED
  BY <1>1 DEF Min

\* A draw gives one of the ranks asked for: the weights are not used up before
\* the last one (the unreachable! of bounded_zipf_rank).
LEMMA RankIsBounded ==
    ASSUME NEW draw \in Nat, NEW max_rank \in 1 .. MaxTenantActivityRank
    PROVE  BoundedZipfRank(draw, max_rank) \in 1 .. max_rank
<1> DEFINE slot == draw % ZipfWeight(max_rank)
           ranks == {rank \in 1 .. max_rank : slot < ZipfWeight(rank)}
<1>1. ZipfWeight(max_rank) \in Nat \ {0}
  BY ZipfAssumption
<1>2. slot < ZipfWeight(max_rank)
  BY <1>1
<1>3. max_rank \in ranks /\ ranks \in SUBSET Nat
  BY <1>2 DEF MaxTenantActivityRank
<1> HIDE DEF ranks
<1>4. Min(ranks) \in ranks
  BY <1>3, LeastIsInIt
<1> QED
  BY <1>4 DEF ranks, BoundedZipfRank

\* An id of a cycle leads back to the cycle it is of (cycle_base).
LEMMA BaseOfCycle ==
    ASSUME NEW cycle \in Nat, NEW id \in (100 * cycle + 1) .. (100 * cycle + 60)
    PROVE  CycleBase(id) = 100 * cycle
<1>1. id # 0 /\ (id - 1) \div 100 = cycle
  OBVIOUS
<1> QED
  BY <1>1 DEF CycleBase

\* Every row of a cycle has the id of one of its places.
LEMMA PlacesOfCycle ==
    ASSUME NEW cycle \in Nat, NEW k \in 1 .. 4
    PROVE  /\ CycleRange(cycle, SeedTables[k]) \subseteq (100 * cycle + 1) .. (100 * cycle + 60)
           /\ CycleRange(cycle, "tenants") = (100 * cycle + 1) .. (100 * cycle + 1)
           /\ CycleRange(cycle, "customers") = (100 * cycle + 1) .. (100 * cycle + 5)
           /\ CycleRange(cycle, "orders") = (100 * cycle + 1) .. (100 * cycle + 20)
           /\ CycleRange(cycle, "order_events") = (100 * cycle + 1) .. (100 * cycle + 60)
<1>1. k \in {1, 2, 3, 4}
  OBVIOUS
<1>2. SeedTables[k] \in {"tenants", "customers", "orders", "order_events"}
  BY <1>1 DEF SeedTables
<1>3. RowsPerCycle[SeedTables[k]] \in 1 .. 60
  BY <1>2 DEF RowsPerCycle
<1> QED
  BY <1>3 DEF CycleRange, RowsPerCycle

\* A cycle's customer has for a tenant the first row of this cycle or of an
\* earlier one, also where the ranks stop at the 64th (tenant_for_customer).
LEMMA TenantIsLoaded ==
    ASSUME NEW cycle \in Nat, NEW id \in (100 * cycle + 1) .. (100 * cycle + 60),
           NEW draw \in Nat
    PROVE  \E c \in 0 .. cycle : TenantForCustomer(id, draw) = 100 * c + 1
<1> DEFINE ranks == IF cycle + 1 < MaxTenantActivityRank THEN cycle + 1 ELSE MaxTenantActivityRank
           rank == BoundedZipfRank(draw, ranks)
<1>1. CycleBase(id) \div 100 + 1 = cycle + 1
  <2>1. CycleBase(id) = 100 * cycle
    BY BaseOfCycle
  <2> QED
    BY <2>1
<1>2. ranks \in 1 .. MaxTenantActivityRank /\ ranks <= cycle + 1
  BY DEF MaxTenantActivityRank
<1>3. TenantForCustomer(id, draw) = (rank - 1) * 100 + 1
  BY <1>1 DEF TenantForCustomer
<1> HIDE DEF ranks
<1>4. rank \in 1 .. ranks
  BY <1>2, RankIsBounded
<1> HIDE DEF rank
<1>5. rank - 1 \in 0 .. cycle /\ (rank - 1) * 100 + 1 = 100 * (rank - 1) + 1
  BY <1>2, <1>4 DEF MaxTenantActivityRank
<1> QED
  BY <1>3, <1>5

\* When a table is copied, all of the earlier tables' rows of its cycle and of
\* the cycles before are there.
LEMMA EarlierTables ==
    ASSUME NEW cycle \in Nat, NEW k \in 1 .. 4, NEW j \in 1 .. (k - 1), NEW c \in 0 .. cycle
    PROVE  CycleRange(c, SeedTables[j]) \subseteq LoadedBefore(cycle, k, SeedTables[j])
<1>1. c \in {d \in 0 .. cycle : d < cycle \/ \E i \in 1 .. (k - 1) : SeedTables[i] = SeedTables[j]}
  OBVIOUS
<1> QED
  BY <1>1 DEF LoadedBefore

-----------------------------------------------------------------------------
\* Ownership in the seed data is valid in every cycle of a load of any size and
\* for every seed: whatever a row names is there before the row is copied, and
\* its tenant is the tenant of what it belongs to (DeterministicGenerator::row).
THEOREM OwnersLoaded ==
    ASSUME \A table, id, salt : Draw(table, id, salt) \in Nat,
           NEW cycle \in Nat, NEW k \in 1 .. 4
    PROVE  OwnersAreLoaded(cycle, k)
<1> DEFINE table == SeedTables[k]
           places == (100 * cycle + 1) .. (100 * cycle + 60)
<1> SUFFICES ASSUME NEW id \in CycleRange(cycle, table)
             PROVE  LET row == Named(table, id) IN
                    /\ \A parent \in DOMAIN row \ {table} :
                          row[parent] \in LoadedBefore(cycle, k, parent)
                    /\ table = "orders" => row.tenants = Named("customers", row.customers).tenants
                    /\ table = "order_events" => row.tenants = Named("orders", row.orders).tenants
  BY DEF OwnersAreLoaded
<1>1. id \in places
  BY PlacesOfCycle
<1>2. \A customer \in places : k > 1 => TenantOf(customer) \in LoadedBefore(cycle, k, "tenants")
  <2> SUFFICES ASSUME NEW customer \in places, k > 1
               PROVE  TenantOf(customer) \in LoadedBefore(cycle, k, "tenants")
    OBVIOUS
  <2>1. PICK c \in 0 .. cycle : TenantOf(customer) = 100 * c + 1
    <3> DEFINE draw == Draw("customers", customer, 11)
    <3>1. draw \in Nat /\ TenantOf(customer) = TenantForCustomer(customer, draw)
      BY DEF TenantOf
    <3> HIDE DEF draw
    <3>2. \E c \in 0 .. cycle : TenantForCustomer(customer, draw) = 100 * c + 1
      BY <3>1, TenantIsLoaded, Zenon
    <3> QED
      BY <3>1, <3>2, Zenon
  <2>2. TenantOf(customer) \in CycleRange(c, "tenants")
    BY <2>1, PlacesOfCycle
  <2>3. 1 \in 1 .. (k - 1) /\ SeedTables[1] = "tenants"
    BY DEF SeedTables
  <2> QED
    BY <2>2, <2>3, EarlierTables
<1>3. \A order \in places : /\ CustomerOf(order) \in CycleRange(cycle, "customers")
                            /\ CustomerOf(order) \in places
  <2> SUFFICES ASSUME NEW order \in places
               PROVE  /\ CustomerOf(order) \in CycleRange(cycle, "customers")
                      /\ CustomerOf(order) \in places
    OBVIOUS
  <2> DEFINE draw == Draw("orders", order, 7)
  <2>1. CycleBase(order) = 100 * cycle
    BY BaseOfCycle
  <2>2. draw \in Nat /\ CustomerOf(order) = 100 * cycle + 1 + (draw % 5)
    BY <2>1 DEF CustomerOf, CustomerForOrder
  <2> HIDE DEF draw
  <2>3. CustomerOf(order) \in (100 * cycle + 1) .. (100 * cycle + 5)
    BY <2>2
  <2>4. CycleRange(cycle, "customers") = (100 * cycle + 1) .. (100 * cycle + 5)
    BY PlacesOfCycle
  <2> QED
    BY <2>3, <2>4
<1>4. /\ OrderOf(id) \in CycleRange(cycle, "orders")
      /\ OrderOf(id) \in places
  <2>1. CycleBase(id) = 100 * cycle
    BY <1>1, BaseOfCycle
  <2> DEFINE draw == Draw("order_events", id, 3)
  <2>2. draw \in Nat /\ OrderOf(id) = 100 * cycle + 1 + (draw % 20)
    BY <2>1 DEF OrderOf, OrderForEvent
  <2> HIDE DEF draw
  <2>3. OrderOf(id) \in (100 * cycle + 1) .. (100 * cycle + 20)
    BY <2>2
  <2>4. CycleRange(cycle, "orders") = (100 * cycle + 1) .. (100 * cycle + 20)
    BY PlacesOfCycle
  <2> QED
    BY <2>3, <2>4
<1>5. k > 2 => CycleRange(cycle, "customers") \subseteq LoadedBefore(cycle, k, "customers")
  BY EarlierTables, 2 \in 1 .. 4, SeedTables[2] = "customers" DEF SeedTables
<1>6. k > 3 => CycleRange(cycle, "orders") \subseteq LoadedBefore(cycle, k, "orders")
  BY EarlierTables, SeedTables[3] = "orders" DEF SeedTables
<1>7. CASE k = 1
  BY <1>7 DEF Named, SeedTables
<1>8. CASE k = 2
  BY <1>1, <1>2, <1>8 DEF Named, SeedTables
<1>9. CASE k = 3
  BY <1>1, <1>2, <1>3, <1>5, <1>9 DEF Named, SeedTables
<1>10. CASE k = 4
  BY <1>1, <1>2, <1>3, <1>4, <1>6, <1>10 DEF Named, SeedTables
<1> QED
  BY <1>7, <1>8, <1>9, <1>10
=============================================================================
