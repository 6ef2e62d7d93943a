---------------------------- MODULE LedgerOracle ----------------------------
(***************************************************************************)
(* graydb-r1's LedgerOracle: the committed transactions replayed into rows *)
(* with their whole history, so that the state at any commit LSN can be    *)
(* rebuilt and compared with a candidate's.  A key is <<table, id>>.       *)
(***************************************************************************)
EXTENDS Workload

\* What a key's history says after a delete.
Gone == [tenant |-> "gone"]

\* A map with no keys (BTreeMap::new).
NoEntries == [k \in {} |-> Gone]

NewOracle == [rows |-> NoEntries, history |-> NoEntries, hash |-> NoEntries,
              counts |-> NoEntries, lsn |-> NoEntries]

KeyOf(op) == <<op.row.table, op.row.id>>

At(f, x, default) == IF x \in DOMAIN f THEN f[x] ELSE default

With(f, x, v) == [y \in DOMAIN f \union {x} |-> IF y = x THEN v ELSE f[y]]

Without(f, x) == [y \in DOMAIN f \ {x} |-> f[y]]

StateOf(op, version) == [tenant |-> op.row.tenant, image |-> op.image, version |-> version]

\* entry(key).or_default().push((version, state)).
Recorded(o, key, version, state) ==
    With(o.history, key, Append(At(o.history, key, <<>>), <<version, state>>))

Upsert(o, op, version) ==
    [o EXCEPT !.rows = With(@, KeyOf(op), StateOf(op, version)),
              !.history = Recorded(o, KeyOf(op), version, StateOf(op, version))]

\* Mutant of ApplyOperation: an update of an unknown row makes it.
ApplyOperationAsUpsert(o, op, version) ==
    IF op.op = "delete"
    THEN [o EXCEPT !.rows = Without(@, KeyOf(op)),
                   !.history = Recorded(o, KeyOf(op), version, Gone)]
    ELSE Upsert(o, op, version)

\* apply_operation: an update of a row that is not there changes nothing; a
\* delete leaves a tombstone whether the row was there or not.
ApplyOperation(o, op, version) ==
    CASE op.op = "insert" -> Upsert(o, op, version)
      [] op.op = "update" ->
           IF KeyOf(op) \in DOMAIN o.rows THEN Upsert(o, op, version) ELSE o
      [] op.op = "delete" ->
           [o EXCEPT !.rows = Without(@, KeyOf(op)),
                     !.history = Recorded(o, KeyOf(op), version, Gone)]

\* apply_unchecked.
ApplyUnchecked(o, plan, lsn) ==
    LET last == Len(plan.operations)
        after[i \in 0..last] ==
            IF i = 0 THEN o ELSE ApplyOperation(after[i - 1], plan.operations[i], lsn)
        n == plan.sequence
    IN [after[last] EXCEPT !.hash = With(@, n, plan.operations),
                           !.counts = With(@, n, At(@, n, 0) + 1),
                           !.lsn = With(@, n, lsn)]

\* apply: the sequence continues without a gap and at a greater LSN.
Applicable(o, plan, lsn) ==
    LET applied == DOMAIN o.hash IN
    /\ plan.sequence = IF applied = {} THEN 1 ELSE Max(applied) + 1
    /\ applied # {} => lsn > o.lsn[Max(applied)]

-----------------------------------------------------------------------------
\* The latest version of a history at or below an LSN; orders_at, customers_at
\* and events_at are RowsAt on the keys of one table.
Latest(history, target) ==
    LET seen == {i \in DOMAIN history : history[i][1] <= target} IN
    IF seen = {} THEN Gone ELSE history[Max(seen)][2]

RowsAt(o, target) ==
    LET live == {k \in DOMAIN o.history : Latest(o.history[k], target) # Gone} IN
    [k \in live |-> Latest(o.history[k], target)]

LatestCheckpoint(o) == Max({o.lsn[n] : n \in DOMAIN o.lsn} \union {0})

\* The sequences a comparison at a target calls different: missing, changed,
\* at another LSN, unknown, or applied more than once.
SequenceDifferences(expected, actual, target) ==
    LET Below(o) == {n \in DOMAIN o.hash : o.lsn[n] <= target} IN
    {n \in Below(expected) :
        \/ n \notin DOMAIN actual.hash
        \/ actual.hash[n] # expected.hash[n]
        \/ actual.lsn[n] # expected.lsn[n]}
    \union {n \in Below(actual) : n \notin Below(expected) \/ actual.counts[n] > 1}

\* compare_orders, compare_customers and compare_events: keys whose rows, with
\* their versions, are not the same on both sides.
RowDifferences(expected, actual, target) ==
    LET e == RowsAt(expected, target)
        a == RowsAt(actual, target)
    IN {k \in DOMAIN e \union DOMAIN a : At(e, k, Gone) # At(a, k, Gone)}

\* Mutant of Passed: only the sequences are compared.
PassedBySequence(expected, actual, target) ==
    SequenceDifferences(expected, actual, target) = {}

\* compare_at: passed when there is no difference.
Passed(expected, actual, target) ==
    /\ SequenceDifferences(expected, actual, target) = {}
    /\ RowDifferences(expected, actual, target) = {}

-----------------------------------------------------------------------------
(***************************************************************************)
(* The oracle that applies plans[i] at lsns[i], times[i] times: once, or   *)
(* as a candidate of mutation_fixtures that drops or repeats one.  The     *)
(* value at n is the oracle after the first n plans.                       *)
(***************************************************************************)
Replay(plans, lsns, times) ==
    LET Applied(o, i) == ApplyUnchecked(o, plans[i], lsns[i])
        after[i \in 0..Len(plans)] ==
            IF i = 0 THEN NewOracle
            ELSE CASE times[i] = 0 -> after[i - 1]
                   [] times[i] = 1 -> Applied(after[i - 1], i)
                   [] times[i] = 2 -> Applied(Applied(after[i - 1], i), i)
    IN after

\* Every plan once, but plan n `times` times.
OnceBut(plans, n, times) == [i \in DOMAIN plans |-> IF i = n THEN times ELSE 1]

Replayed(plans, lsns) == Replay(plans, lsns, OnceBut(plans, 0, 1))[Len(plans)]

\* Mutation::DropSequence and DuplicateSequence.
DropSequence(plans, lsns, n) == Replay(plans, lsns, OnceBut(plans, n, 0))[Len(plans)]

DuplicateSequence(plans, lsns, n) == Replay(plans, lsns, OnceBut(plans, n, 2))[Len(plans)]

\* Mutation::UseVersionBeforeCheckpoint and IgnoreLatestTombstone: the last
\* version of a key is replaced by an earlier one, or by a row.
WithLast(o, key, state) ==
    [o EXCEPT !.history[key][Len(o.history[key])] = <<@[1], state>>]

StaleVersions(o) ==
    {WithLast(o, k, o.history[k][1][2]) :
        k \in {k \in DOMAIN o.history : Len(o.history[k]) > 1 /\ k \in DOMAIN o.rows}}

IgnoredTombstones(o) ==
    {WithLast(o, k, o.history[k][Len(o.history[k]) - 1][2]) :
        k \in {k \in DOMAIN o.history : Len(o.history[k]) > 1 /\ k \notin DOMAIN o.rows
                                         /\ o.history[k][Len(o.history[k]) - 1][2] # Gone}}

\* The four corruptions the comparison must refuse.
Corruptions(plans, lsns) ==
    {DropSequence(plans, lsns, n) : n \in DOMAIN plans}
    \union {DuplicateSequence(plans, lsns, n) : n \in DOMAIN plans}
    \union StaleVersions(Replayed(plans, lsns))
    \union IgnoredTombstones(Replayed(plans, lsns))
=============================================================================
