--------------------------- MODULE StreamDecoder ----------------------------
(***************************************************************************)
(* graydb-registry: the schema registry and the two decoders that keep it, *)
(* the live StreamDecoder of the apply loop and the offline replay_log.    *)
(* Frames go in, the changes of committed transactions come out.           *)
(*                                                                         *)
(* The table is altered at the start of the transactions in Altered; a     *)
(* schema is the number of ALTERs so far, plus one.  A Relation frame      *)
(* carries its transaction's schema, a change is a row of its transaction  *)
(* and is decoded under the last Relation seen.  graydb.ddl_log is a table *)
(* like any other here, so its rows have no events of their own.           *)
(***************************************************************************)
EXTENDS Integers, Sequences, SequencesExt

CONSTANTS NoTxn, Altered

ASSUME AlteredAssumption == Altered \in SUBSET Nat /\ IsFiniteSet(Altered)

SchemaOf(t) == Cardinality({a \in Altered : a <= t}) + 1

-----------------------------------------------------------------------------
(***************************************************************************)
(* Registry: one table's SchemaVersions, oldest first.                     *)
(***************************************************************************)
SchemaVersion == [valid_from : Nat, schema : Nat]

\* A Relation that is sent again without a change of shape adds nothing.
RecordVersion(registry, schema, lsn) ==
    IF registry # <<>> /\ Last(registry).schema = schema
    THEN registry
    ELSE Append(registry, [valid_from |-> lsn, schema |-> schema])

RecordVersions(registry, schemas, lsn) ==
    LET recorded[i \in 0..Len(schemas)] ==
            IF i = 0 THEN registry ELSE RecordVersion(recorded[i - 1], schemas[i], lsn)
    IN  recorded[Len(schemas)]

\* schema_at: the last version in force at lsn, 0 (None) if there is none.
SchemaAt(registry, lsn) ==
    LET inForce == {i \in DOMAIN registry : registry[i].valid_from <= lsn}
    IN  IF inForce = {} THEN 0 ELSE registry[Max(inForce)].schema

\* What a transaction has brought so far, and what its Commit emits.
TxnBuf == [changes : Seq([row : Nat, schema : Nat]), relations : Seq(Nat)]

TypedChange == [row : Nat, schema : Nat, commit_lsn : Nat]

ASSUME NoTxnAssumption == NoTxn \notin TxnBuf

NewTxn == [changes |-> <<>>, relations |-> <<>>]

Emitted(txn, lsn) ==
    [i \in DOMAIN txn.changes |->
        [row |-> txn.changes[i].row, schema |-> txn.changes[i].schema, commit_lsn |-> lsn]]

-----------------------------------------------------------------------------
(***************************************************************************)
(* StreamDecoder, whose state survives from one feed to the next:          *)
(*   txn              the open transaction's TxnBuf, or NoTxn              *)
(*   next_seq         the only sequence number it accepts next             *)
(*   last_commit_seq  where abort_open_txn rewinds to                      *)
(*   started          a frame has been consumed                            *)
(*   live_rel         the schema of the last Relation message, or 0        *)
(*   registry         the versions of the committed ones                   *)
(***************************************************************************)
DecoderState ==
    [txn : {NoTxn} \union TxnBuf, next_seq : Nat, last_commit_seq : Nat, started : BOOLEAN,
     live_rel : Nat, registry : Seq(SchemaVersion)]

NewDecoder ==
    [txn |-> NoTxn, next_seq |-> 0, last_commit_seq |-> 0, started |-> FALSE,
     live_rel |-> 0, registry |-> <<>>]

\* Mutant of AbortOpenTxn: next_seq is not taken back.
AbortKeepsSeq(d) == [d EXCEPT !.txn = NoTxn]

AbortOpenTxn(d) ==
    [d EXCEPT !.txn = NoTxn,
              !.next_seq = IF d.started THEN d.last_commit_seq + 1 ELSE 0]

\* One message, dispatched on its kind; b is [decoder, changes, lsn, error].
Fail(b, e) == [b EXCEPT !.error = e]

OnBegin(b) == [b EXCEPT !.decoder.txn = NewTxn]

\* Outside a transaction the version holds from the frame's position on.
OnRelation(b, f) ==
    LET seen == [b EXCEPT !.decoder.live_rel = SchemaOf(f.txn)] IN
    IF b.decoder.txn = NoTxn
    THEN [seen EXCEPT !.decoder.registry = RecordVersion(@, SchemaOf(f.txn), f.txn)]
    ELSE [seen EXCEPT !.decoder.txn.relations = Append(@, SchemaOf(f.txn))]

OnChange(b, f) ==
    IF b.decoder.live_rel = 0 \/ b.decoder.txn = NoTxn
    THEN Fail(b, "decode")
    ELSE [b EXCEPT !.decoder.txn.changes =
                       Append(@, [row |-> f.txn, schema |-> b.decoder.live_rel])]

\* Mutant of OnCommit: its versions hold from the commit before it on.
VersionsHoldTooEarly(b, f) ==
    LET t == b.decoder.txn IN
    IF t = NoTxn
    THEN Fail(b, "decode")
    ELSE [b EXCEPT !.decoder.txn = NoTxn,
                   !.decoder.last_commit_seq = f.seq,
                   !.decoder.registry = RecordVersions(@, t.relations, f.txn - 1),
                   !.changes = @ \o Emitted(t, f.txn),
                   !.lsn = f.txn]

OnCommit(b, f) ==
    LET t == b.decoder.txn IN
    IF t = NoTxn
    THEN Fail(b, "decode")
    ELSE [b EXCEPT !.decoder.txn = NoTxn,
                   !.decoder.last_commit_seq = f.seq,
                   !.decoder.registry = RecordVersions(@, t.relations, f.txn),
                   !.changes = @ \o Emitted(t, f.txn),
                   !.lsn = f.txn]

Message(b, f) ==
    CASE f.payload = "begin"    -> OnBegin(b)
      [] f.payload = "relation" -> OnRelation(b, f)
      [] f.payload = "change"   -> OnChange(b, f)
      [] f.payload = "commit"   -> OnCommit(b, f)

\* The contiguity check comes first and leaves the decoder alone when it
\* fails; every later error finds next_seq already advanced.
FeedFrame(b, f) ==
    IF b.error # "none" THEN b
    ELSE IF f.seq # b.decoder.next_seq THEN Fail(b, "gap")
    ELSE Message([b EXCEPT !.decoder.next_seq = f.seq + 1, !.decoder.started = TRUE], f)

\* feed, as the set of its one outcome.  After an error the decoder keeps what
\* it consumed, the batch's changes are dropped with it.
Feed(d, frames) ==
    LET fed[i \in 0..Len(frames)] ==
            IF i = 0 THEN {[decoder |-> d, changes |-> <<>>, lsn |-> 0, error |-> "none"]}
                     ELSE {FeedFrame(b, frames[i]) : b \in fed[i - 1]}
    IN  fed[Len(frames)]

-----------------------------------------------------------------------------
(***************************************************************************)
(* replay_log's loop, over the frames verify_log hands it: a decoder of    *)
(* its own, without sequence numbers.                                      *)
(***************************************************************************)
ReplayFrame(r, f) ==
    CASE r.error -> r
      [] f.payload = "begin" -> [r EXCEPT !.txn = NewTxn]
      [] f.payload = "relation" ->
            IF r.txn = NoTxn
            THEN [r EXCEPT !.live_rel = SchemaOf(f.txn),
                           !.registry = RecordVersion(@, SchemaOf(f.txn), f.txn)]
            ELSE [r EXCEPT !.live_rel = SchemaOf(f.txn),
                           !.txn.relations = Append(@, SchemaOf(f.txn))]
      [] f.payload = "change" ->
            IF r.txn = NoTxn \/ r.live_rel = 0
            THEN [r EXCEPT !.error = TRUE]
            ELSE [r EXCEPT !.txn.changes = Append(@, [row |-> f.txn, schema |-> r.live_rel])]
      [] f.payload = "commit" ->
            IF r.txn = NoTxn
            THEN [r EXCEPT !.error = TRUE]
            ELSE [r EXCEPT !.txn = NoTxn,
                           !.registry = RecordVersions(@, r.txn.relations, f.txn),
                           !.changes = @ \o Emitted(r.txn, f.txn)]

NewReplay == [txn |-> NoTxn, live_rel |-> 0, registry |-> <<>>, changes |-> <<>>, error |-> FALSE]

ReplayLog(frames) ==
    LET replayed[i \in 0..Len(frames)] ==
            IF i = 0 THEN NewReplay ELSE ReplayFrame(replayed[i - 1], frames[i])
    IN  replayed[Len(frames)]
=============================================================================
