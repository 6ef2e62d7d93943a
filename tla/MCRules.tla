------------------------------ MODULE MCRules -------------------------------
(***************************************************************************)
(* The rules of Verdict, Gates and Dataset against the words of the        *)
(* design, or against a plainer definition, over bounded inputs.           *)
(***************************************************************************)
EXTENDS Verdict, Gates, Dataset, SequencesExt

\* The cell rule against the design's, on every pair of latencies up to 21,
\* where five percent of one falls on and beside whole numbers (evaluate_cell).
Latencies == [p95 : 0 .. 21, p99 : {0, 19, 20, 21}]

ASSUME CellRule ==
    \A g, c \in Latencies : EvaluateCell(g, c) = DesignCell(g, c)

\* A percentile is the nearest rank: the least sample that so many percent of
\* the samples do not exceed (LatencySeries::percentile).
IsNearestRank(v, samples, percent) ==
    LET upTo(w) == Cardinality({i \in DOMAIN samples : samples[i] <= w}) IN
    /\ v \in Range(samples) /\ 100 * upTo(v) >= percent * Len(samples)
    /\ \A w \in Range(samples) : w < v => 100 * upTo(w) < percent * Len(samples)

ASSUME PercentileRule ==
    \A percent \in {50, 95, 99} :
        /\ \A n \in 1 .. 4 : \A samples \in [1 .. n -> 0 .. 3] :
              IsNearestRank(Percentile(samples, percent), samples, percent)
        /\ \A n \in 1 .. 101 : LET up == [i \in 1 .. n |-> i] IN
              IsNearestRank(Percentile(up, percent), up, percent)

\* The stop rules of the design (section 13, "stops when"), on every sequence of
\* four observations that sit on or just beside a limit (rate_search_stop).
Observed == [target |-> 100, achieved |-> 95, freshness |-> FreshnessLimit,
             backlog |-> BacklogLimit, growing |-> TRUE, correct |-> TRUE, gate |-> FALSE]
Observations ==
    {Observed, [Observed EXCEPT !.achieved = 94], [Observed EXCEPT !.freshness = @ + 1],
     [Observed EXCEPT !.backlog = @ + 1], [Observed EXCEPT !.backlog = @ + 1, !.growing = FALSE],
     [Observed EXCEPT !.achieved = 94, !.backlog = @ + 1], [Observed EXCEPT !.correct = FALSE]}

ASSUME StopRule ==
    \A o \in UNION {[1 .. n -> Observations] : n \in 1 .. 4} :
        LET n == Len(o)
            three == IF n < 3 THEN {} ELSE {o[n - 2], o[n - 1], o[n]}
        IN  RateSearchStop(o) # "none" <=>
                \/ three # {} /\ \A x \in three : x.achieved < 95
                \/ o[n].freshness > FreshnessLimit
                \/ three # {} /\ \A x \in three : x.growing /\ x.backlog > BacklogLimit
                \/ ~o[n].correct

\* An engine that has replayed the ledger up to an entry counts as fresh as one
\* that follows the source and stands at the same entry (freshness_at_position).
ASSUME FreshnessRule ==
    \A gaps \in [1 .. 3 -> 1 .. 2] :
        LET entries == [i \in 1 .. 3 |->
                         [sequence |-> i, source_lsn |-> 10 * i, committed_unix_ms |-> 5 * i]]
            map == [i \in 1 .. 3 |->
                      [logical_sequence |-> i,
                       replay_source_lsn |-> FoldSet(LAMBDA k, sum : sum + gaps[k], 0, 1 .. i)]]
        IN  \A i \in 1 .. 3 :
                /\ FreshnessAt(entries, 10 * i, 20) = 20 - 5 * i
                /\ ReplayFreshnessAt(entries, map, map[i].replay_source_lsn, 20) = 20 - 5 * i

\* A stage's samples must be enough for every query of every engine: plenty of
\* one does not make up for another (query_sample_counts, validates).
ASSUME SampleRule ==
    LET queries == <<"q1", "q2", "q3", "q4", "q5">>
        engines == <<"graydb", "clickhouse">>
        policy == StagePolicy([warmup_secs |-> 10], "Warmup", "Isolated", Range(engines))
        enough == [i \in 0 .. 9 |-> [query |-> queries[(i % 5) + 1], engine |-> engines[(i % 2) + 1],
                                     failed |-> FALSE]]
        Enough(records, elapsed) ==
            Validates(policy, QuerySampleCounts(records, Range(engines)), elapsed)
    IN  /\ policy.maximum = 40
        /\ Enough(enough, 40) /\ ~Enough(enough, 41)
        /\ \A i, j \in 0 .. 9 :
              i # j => /\ ~Enough([enough EXCEPT ![i].failed = TRUE], 40)
                       /\ ~Enough([enough EXCEPT ![i] = enough[j]], 40)

\* Draws that differ from table to table by their salt.
MCDraw(table, id, salt) == 7919 * id + 104729 * salt

\* Of as many draws as there are weights, a rank gets its weight: the first is
\* twice as busy as the second (bounded_zipf_rank).
ASSUME RankRule ==
    \A rank \in 1 .. 3 :
        Cardinality({draw \in 0 .. 18332 : BoundedZipfRank(draw, 3) = rank}) = 10000 \div rank

\* Whatever a seeded row refers to is there when it is copied, in the first
\* cycles and around the rank at which the tenants' activity is cut off
\* (DeterministicGenerator::row, single_cycle_ranges).
ASSUME OwnersRule ==
    \A cycle \in {0, 1, 2, 62, 63, 64, 65} : \A k \in 1 .. 4 : OwnersAreLoaded(cycle, k)

\* The load ends at a size that is enough, no sooner than an interval after it
\* began, and late by less than it generates between two measurements; and less
\* than an interval ever goes unmeasured (load_until).
ASSUME LoadRule ==
    \A minimum \in {1, 20, 33, 48} :
    \A bytes \in [1 .. 4 -> {1, 2, 3}] : \A growth \in [1 .. 4 -> {0, 8, 20}] :
        LET Sum(f, n) == FoldSet(LAMBDA i, sum : sum + f[i], 0, 1 .. n)
            published == [c \in 1 .. 4 |-> Sum(growth, c)]
            enough == {c \in 1 .. 4 : published[c] >= minimum}
            load == LoadUntil(bytes, published, minimum)
            q == CHOOSE c \in enough : \A d \in enough : c <= d
            late == Sum(bytes, IF load.done THEN load.cycles - 1 ELSE 4) - Sum(bytes, q - 1)
        IN  /\ load.done => load.cycles \in enough
            /\ load.done => Sum(bytes, load.cycles) >= minimum \div 16
            /\ enough # {} => load.cycles >= q /\ (late = 0 \/ 16 * late < minimum)
            /\ load.unmeasured = 0 \/ 16 * load.unmeasured < minimum
=============================================================================
