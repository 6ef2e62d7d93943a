-------------------------------- MODULE Gates ---------------------------------
(***************************************************************************)
(* The gates of a timed stage, as functions of what has been measured: how *)
(* long it may take and how many samples it needs, how fresh an engine is, *)
(* when a rate search stops, when the disk is too full, and what latency a *)
(* cell reports.  R1Window takes their outcomes as choices.                *)
(*                                                                         *)
(* No measured size or rate comes near the width where saturating_mul      *)
(* shows; up to two million samples the percentiles' f64 products have the *)
(* ceilings of the exact ones.                                             *)
(***************************************************************************)
EXTENDS Integers, Sequences, FiniteSetsExt

CONSTANTS
    MinimumQuerySamples,   \* MINIMUM_QUERY_SAMPLES
    BacklogLimit,          \* BACKLOG_LIMIT_BYTES
    FreshnessLimit         \* milliseconds, 1_000 in rate_search_stop

ASSUME GateAssumption == {MinimumQuerySamples, BacklogLimit, FreshnessLimit} \subseteq Nat

QueryIds == {"q1", "q2", "q3", "q4", "q5"}

SearchRatesUpTo(maximum) ==
    SelectSeq(<<2000, 4000, 8000, 16000, 32000, 64000>>, LAMBDA rate : rate <= maximum)

\* spec is the profile's ProfileSpec; other stages have no policy.
StageSeconds(spec, stage) ==
    CASE stage = "Warmup"               -> spec.warmup_secs
      [] stage = "Quiet"                -> spec.quiet_secs
      [] stage \in {"Cdc300", "Cdc1000"} -> spec.fixed_rate_secs
      [] stage = "RateSearch"           ->
            spec.search_step_secs * Len(SearchRatesUpTo(spec.maximum_rate))

\* An isolated stage visits its engines one after the other.
StagePolicy(spec, stage, mode, engines) ==
    LET turns == IF mode = "Isolated" THEN Max({1, Cardinality(engines)}) ELSE 1 IN
    [scheduled |-> turns * StageSeconds(spec, stage),
     maximum   |-> turns * 2 * StageSeconds(spec, stage),
     samples   |-> MinimumQuerySamples]

QuerySampleCounts(records, engines) ==
    [query \in QueryIds, engine \in engines |->
        Cardinality({i \in DOMAIN records : /\ records[i].engine = engine
                                            /\ records[i].query = query
                                            /\ ~records[i].failed})]

Validates(policy, counts, elapsed) ==
    /\ elapsed <= policy.maximum
    /\ DOMAIN counts # {}
    /\ \A key \in DOMAIN counts : counts[key] >= policy.samples

-----------------------------------------------------------------------------
\* partition_point: how many entries of a sorted log are at or below a bound.
AtOrBelow(log, key, bound) == Cardinality({i \in DOMAIN log : log[i][key] <= bound})

Age(ledger, n, now) ==
    IF n = 0 THEN -1 ELSE Max({now - ledger[n].committed_unix_ms, 0})

\* freshness_at_position, -1 for None: the age of the newest commit the engine
\* holds; in an isolated run its position is one of the replay map's.
FreshnessAt(ledger, position, now) ==
    Age(ledger, AtOrBelow(ledger, "source_lsn", position), now)

ReplayFreshnessAt(ledger, map, position, now) ==
    LET held == AtOrBelow(map, "replay_source_lsn", position) IN
    IF held = 0 THEN -1
    ELSE Age(ledger, AtOrBelow(ledger, "sequence", map[held].logical_sequence), now)

-----------------------------------------------------------------------------
\* An observation is [target, achieved, freshness, backlog, growing, correct, gate].

\* The last three observations are bad.
LastThree(observations, bad) ==
    LET n == Len(observations) IN n >= 3 /\ (n - 2) .. n \subseteq bad

\* After an observation the search goes on, or stops for the first of these.
RateSearchStop(observations) ==
    IF observations = <<>> THEN "none"
    ELSE LET latest == observations[Len(observations)]
             missed == {i \in DOMAIN observations :
                           observations[i].achieved * 100 < observations[i].target * 95}
             behind == {i \in DOMAIN observations :
                           observations[i].backlog > BacklogLimit /\ observations[i].growing} IN
         IF latest.gate THEN "ResourceSafetyGate"
         ELSE IF ~latest.correct THEN "ResultDigestMismatch"
         ELSE IF latest.freshness > FreshnessLimit THEN "FreshnessP99Exceeded"
         ELSE IF LastThree(observations, missed) THEN "SourceRateMissed"
         ELSE IF LastThree(observations, behind) THEN "ResourceSafetyGate"
         ELSE "none"

PauseForFreeSpace(total, free) == total = 0 \/ free * 100 < total * 15

-----------------------------------------------------------------------------
\* LatencySeries::percentile: the sample of the nearest rank, 0 without one.
Percentile(samples, percent) ==
    LET n == Len(samples)
        rank == Max({1, (n * percent + 99) \div 100})
        below(v) == Cardinality({i \in DOMAIN samples : samples[i] < v})
        upTo(v) == Cardinality({i \in DOMAIN samples : samples[i] <= v})
    IN  IF n = 0 THEN 0
        ELSE CHOOSE v \in {samples[i] : i \in DOMAIN samples} : below(v) < rank /\ rank <= upTo(v)
=============================================================================
