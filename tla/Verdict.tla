------------------------------ MODULE Verdict ------------------------------
(***************************************************************************)
(* The conclusion rules of graydb-r1: which engine wins a query cell, and  *)
(* when a run may say that GrayDB beat ClickHouse.                         *)
(*                                                                         *)
(* Latencies are u128 nanoseconds whose products saturate at U128Max.  The *)
(* two ratios of a scorecard are f64 in the code and whole hundredths      *)
(* here.  A rate map is a function from row rates to scorecards, and the   *)
(* cells of a scorecard are a function from query names to verdicts.       *)
(***************************************************************************)
EXTENDS Integers, FiniteSets

CONSTANT U128Max
ASSUME U128Assumption == U128Max \in Nat

RequiredQueries == {"q1", "q2", "q3", "q4", "q5"}

\* saturating_mul of two u128.
SaturatingMul(a, b) == IF a * b > U128Max THEN U128Max ELSE a * b

AtLeastPercentLower(candidate, baseline, percent) ==
    /\ baseline # 0
    /\ SaturatingMul(candidate, 100) <= SaturatingMul(baseline, 100 - percent)

DiffersByLessThanPercent(a, b, percent) ==
    \/ a = b
    \/ a < b /\ SaturatingMul(b - a, 100) < SaturatingMul(a, percent)
    \/ b < a /\ SaturatingMul(a - b, 100) < SaturatingMul(b, percent)

\* An engine, given as [p95, p99], wins a cell over another.
WinsCell(mine, other) == AtLeastPercentLower(mine.p95, other.p95, 5) /\ mine.p99 <= other.p99

TiesCell(mine, other) ==
    /\ DiffersByLessThanPercent(mine.p95, other.p95, 5)
    /\ DiffersByLessThanPercent(mine.p99, other.p99, 5)

\* evaluate_cell: the order of the tests matters only where products saturate.
EvaluateCell(graydb, clickhouse) ==
    CASE WinsCell(graydb, clickhouse) -> "GrayDbWin"
      [] ~WinsCell(graydb, clickhouse) /\ WinsCell(clickhouse, graydb) -> "ClickHouseWin"
      [] ~WinsCell(graydb, clickhouse) /\ ~WinsCell(clickhouse, graydb) ->
           IF TiesCell(graydb, clickhouse) THEN "Tie" ELSE "ConflictingTail"

\* The design's own words, in numbers that do not saturate: a win is a p95 at
\* least 5% lower with a p99 no higher, a tie differs by less than 5% of the
\* lower one in both, all else is a conflicting tail.
DesignWins(mine, other) ==
    /\ other.p95 > 0 /\ 100 * (other.p95 - mine.p95) >= 5 * other.p95
    /\ mine.p99 <= other.p99

Near(a, b) == a = b \/ (100 * (a - b) < 5 * b /\ 100 * (b - a) < 5 * a)

DesignCell(graydb, clickhouse) ==
    IF DesignWins(graydb, clickhouse) THEN "GrayDbWin"
    ELSE IF DesignWins(clickhouse, graydb) THEN "ClickHouseWin"
    ELSE IF Near(graydb.p95, clickhouse.p95) /\ Near(graydb.p99, clickhouse.p99) THEN "Tie"
    ELSE "ConflictingTail"

-----------------------------------------------------------------------------
Wins(card)        == Cardinality({q \in DOMAIN card.cells : card.cells[q] = "GrayDbWin"})
Losses(card)      == Cardinality({q \in DOMAIN card.cells : card.cells[q] = "ClickHouseWin"})
Ties(card)        == Cardinality({q \in DOMAIN card.cells : card.cells[q] = "Tie"})
Conflicting(card) == Cardinality({q \in DOMAIN card.cells : card.cells[q] = "ConflictingTail"})

\* Scorecard::graydb_beat_clickhouse.
CardBeats(card) ==
    /\ DOMAIN card.cells = RequiredQueries
    /\ Wins(card) >= 4
    /\ Losses(card) = 0
    /\ card.geometric_p95_ratio <= 90
    /\ card.churn_ratio <= 80

\* The highest rate with a scorecard: the last key of the sorted map.
Highest(cards) == CHOOSE r \in DOMAIN cards : \A s \in DOMAIN cards : s <= r

\* Scorecard::evaluate: a required rate without a scorecard has not passed.
RequiredRates(cards) == IF DOMAIN cards = {} THEN {} ELSE {1000, Highest(cards)}

Evaluate(cards) ==
    [required_rates |-> RequiredRates(cards),
     passed_rates   |-> [r \in RequiredRates(cards) |-> r \in DOMAIN cards /\ CardBeats(cards[r])]]

\* WinnerEvaluation::graydb_beat_clickhouse.
Beat(evaluation) ==
    /\ evaluation.required_rates # {}
    /\ \A r \in evaluation.required_rates :
         r \in DOMAIN evaluation.passed_rates /\ evaluation.passed_rates[r]
=============================================================================
