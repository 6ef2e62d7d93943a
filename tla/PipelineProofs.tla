---------------------------- MODULE PipelineProofs ---------------------------
(***************************************************************************)
(* The live pipeline, the attach and the bounded read on top of it, for    *)
(* every segment size, bound, schedule of kills and set of ALTERs: the     *)
(* types of everything the apply loop keeps; the slot is never told more   *)
(* than stable disk holds; a bounded read is fresh; what is applied is the *)
(* stream, in order and without a gap; an offline replay agrees with it;   *)
(* the copies and the stream meet.                                         *)
(***************************************************************************)
EXTENDS Attach, StudioQuery, FrameLogProofs, RunLemmas, FiniteSetTheorems, SequenceTheorems

-----------------------------------------------------------------------------
(***************************************************************************)
(* What LogTail reads.                                                     *)
(***************************************************************************)

\* FlattenSeq of SequencesExt, part by part.
LEMMA FlattenRun ==
    ASSUME NEW S, NEW seqs \in Seq(Seq(S)), Len(seqs) # 0
    PROVE  \E h \in [1..Len(seqs) -> Seq(S)] :
              /\ h[1] = seqs[1]
              /\ \A i \in 2..Len(seqs) : h[i] = h[i - 1] \o seqs[i]
              /\ FlattenSeq(seqs) = h[Len(seqs)]
<1> DEFINE n == Len(seqs) - 1
           Step(f, i) == IF i = 1 THEN seqs[i] ELSE f[i - 1] \o seqs[i]
           Body(f) == [i \in 1..Len(seqs) |-> Step(f, i)]
           F == [i \in 1..n |-> [s \in Seq(S) |-> s \o seqs[i + 1]]]
<1>1. n \in Nat /\ Len(seqs) \in Nat /\ Len(seqs) = n + 1
      /\ \A i \in 1..Len(seqs) : seqs[i] \in Seq(S)
  OBVIOUS
<1> HIDE DEF n
<1>2. F \in [1..n -> [Seq(S) -> Seq(S)]]
  <2>1. \A i \in 1..n : \A s \in Seq(S) : s \o seqs[i + 1] \in Seq(S)
    BY <1>1
  <2> QED
    BY <2>1
<1>10. \A i \in 1..n : \A s \in Seq(S) : F[i][s] = s \o seqs[i + 1]
  OBVIOUS
<1> HIDE DEF F
<1>3. PICK g \in [0..n -> Seq(S)] : g[0] = seqs[1] /\ \A i \in 1..n : g[i] = F[i][g[i - 1]]
  <2> DEFINE T == Seq(S)
             a == seqs[1]
  <2>1. a \in T /\ Maps(F, n, T) /\ n \in Nat
    BY <1>1, <1>2 DEF Maps
  <2> HIDE DEF T, a
  <2>2. \E g \in [0..n -> T] : IsRun(g, n, a, F)
    BY <2>1, RunExists
  <2> QED
    BY <2>2 DEF T, a, IsRun
<1> DEFINE h == [i \in 1..Len(seqs) |-> g[i - 1]]
<1>11. \A i \in 1..Len(seqs) : h[i] = g[i - 1]
  OBVIOUS
<1>4. \A i \in 1..Len(seqs) : h[i] = Step(h, i)
  <2> SUFFICES ASSUME NEW i \in 1..Len(seqs)
               PROVE  h[i] = Step(h, i)
    OBVIOUS
  <2> HIDE DEF h
  <2>1. CASE i = 1
    BY <1>1, <1>3, <1>11, <2>1
  <2>2. CASE i # 1
    <3>1. i - 1 \in 1..n /\ i - 1 \in 1..Len(seqs) /\ (i - 1) - 1 \in 0..n /\ (i - 1) + 1 = i
      BY <1>1, <2>2
    <3>2. g[i - 1] = F[i - 1][g[(i - 1) - 1]]
      BY <1>3, <3>1
    <3>3. g[(i - 1) - 1] \in Seq(S)
      BY <3>1
    <3>4. g[i - 1] = g[(i - 1) - 1] \o seqs[i]
      BY <1>10, <3>1, <3>2, <3>3
    <3> QED
      BY <1>11, <2>2, <3>1, <3>4
  <2> QED
    BY <2>1, <2>2
<1>12. h = Body(h)
  BY <1>4
<1> HIDE DEF h
<1> DEFINE f == CHOOSE f : f = Body(f)
<1>5. f = Body(f)
  BY <1>12
<1>6. FlattenSeq(seqs) = f[Len(seqs)]
  BY DEF FlattenSeq
<1> HIDE DEF f
<1>7. \A i \in 1..Len(seqs) : f[i] = Step(f, i)
  <2> HIDE DEF Step
  <2> QED
    BY <1>5
<1> DEFINE k == [i \in 0..n |-> f[i + 1]]
<1>8. \A i \in 0..n : k[i] = f[i + 1]
  OBVIOUS
<1> HIDE DEF k
<1>9. k[0] \in Seq(S)
  BY <1>1, <1>7, <1>8
<1>13. ASSUME NEW i \in 0..(n - 1), k[i] \in Seq(S) PROVE k[i + 1] \in Seq(S)
  <2>1. i + 1 \in 0..n /\ i \in 0..n /\ (i + 1) + 1 \in 1..Len(seqs) /\ (i + 1) + 1 # 1
        /\ ((i + 1) + 1) - 1 = i + 1
    BY <1>1
  <2>2. k[i + 1] = k[i] \o seqs[(i + 1) + 1]
    BY <1>7, <1>8, <2>1
  <2> QED
    BY <1>1, <1>13, <2>1, <2>2
<1>14. \A i \in 0..n : k[i] \in Seq(S)
  <2> DEFINE G == {i \in 0..n : k[i] \in Seq(S)}
  <2>1. 0 \in G
    BY <1>1, <1>9
  <2>2. \A i \in 0..(n - 1) : i \in G => i + 1 \in G
    BY <1>1, <1>13
  <2> HIDE DEF G
  <2>3. \A i \in 0..n : i \in G
    BY <1>1, <2>1, <2>2, IntervalInduction
  <2> QED
    BY <2>3 DEF G
<1> DEFINE w == [i \in 1..Len(seqs) |-> f[i]]
<1>15. \A i \in 1..Len(seqs) : w[i] = f[i]
  OBVIOUS
<1>16. \A i \in 1..Len(seqs) : f[i] \in Seq(S)
  <2> SUFFICES ASSUME NEW i \in 1..Len(seqs) PROVE f[i] \in Seq(S)
    OBVIOUS
  <2>1. i - 1 \in 0..n /\ (i - 1) + 1 = i
    BY <1>1
  <2> QED
    BY <1>8, <1>14, <2>1
<1>17. w \in [1..Len(seqs) -> Seq(S)]
  BY <1>16
<1> HIDE DEF w
<1>18. w[1] = seqs[1] /\ w[Len(seqs)] = FlattenSeq(seqs)
  BY <1>1, <1>6, <1>7, <1>15
<1>19. \A i \in 2..Len(seqs) : w[i] = w[i - 1] \o seqs[i]
  <2> SUFFICES ASSUME NEW i \in 2..Len(seqs) PROVE w[i] = w[i - 1] \o seqs[i]
    OBVIOUS
  <2>1. i \in 1..Len(seqs) /\ i - 1 \in 1..Len(seqs) /\ i # 1
    BY <1>1
  <2> QED
    BY <1>7, <1>15, <2>1
<1> QED
  BY <1>17, <1>18, <1>19

\* The parts of one type, one after the other.
LEMMA FlattenType ==
    ASSUME NEW S, NEW seqs \in Seq(Seq(S))
    PROVE  FlattenSeq(seqs) \in Seq(S)
<1>1. CASE Len(seqs) = 0
  <2>1. seqs = <<>>
    BY <1>1
  <2> QED
    BY <1>1, <2>1 DEF FlattenSeq
<1>2. CASE Len(seqs) # 0
  <2>1. Len(seqs) \in 1..Len(seqs)
    BY <1>2
  <2>2. PICK h \in [1..Len(seqs) -> Seq(S)] : FlattenSeq(seqs) = h[Len(seqs)]
    BY <1>2, FlattenRun
  <2> QED
    BY <2>1, <2>2
<1> QED
  BY <1>1, <1>2

LEMMA BytesType ==
    ASSUME NEW s \in Seq(Frame)
    PROVE  Bytes(s) \in Nat
<1> DEFINE relations == {i \in DOMAIN s : s[i].payload = "relation"}
<1>1. Len(s) \in Nat /\ DOMAIN s = 1..Len(s)
  OBVIOUS
<1>2. IsFiniteSet(1..Len(s)) /\ relations \subseteq 1..Len(s)
  BY <1>1, FS_Interval
<1>3. Cardinality(relations) \in Nat
  BY <1>2, FS_Subset, FS_CardinalityType
<1> HIDE DEF relations
<1>4. PICK c \in Nat, r \in Nat : c = Cardinality(relations) /\ r = RelationSize - 1
  BY <1>3, RelationSizeAssumption
<1>5. r * c \in Nat
  OBVIOUS
<1>6. Bytes(s) = Len(s) + r * c
  BY <1>4 DEF Bytes, relations
<1> QED
  BY <1>1, <1>5, <1>6

LEMMA FromType ==
    ASSUME NEW s \in Seq(Frame), NEW o, Decodes(s, o)
    PROVE  From(s, o) \in Seq(Frame)
<1> DEFINE i == CHOOSE i \in FramesBefore(s, o) : TRUE
<1>1. i \in FramesBefore(s, o)
  BY DEF Decodes
<1>2. i \in 0..Len(s) /\ Len(s) \in Nat
  BY <1>1 DEF FramesBefore
<1> HIDE DEF i
<1>3. SubSeq(s, i + 1, Len(s)) \in Seq(Frame)
  BY <1>2
<1> QED
  BY <1>3 DEF From, i

\* The files the tail finds, and the order of their names.
LEMMA Segments ==
    ASSUME TypeOK, Tiled
    PROVE  /\ LastSegment(files) = cur /\ cur \in DOMAIN files
           /\ FirstSegment(files) \in DOMAIN files
           /\ \A n \in DOMAIN files : n \in Nat /\ n <= cur /\ files[n] \in Seq(Frame)
<1>1. /\ cur \in DOMAIN files /\ DOMAIN files \subseteq Nat
      /\ \A n \in DOMAIN files : n \in Nat /\ n <= cur /\ files[n] \in Seq(Frame)
  BY DEF TypeOK, Tiled
<1>2. \A n \in DOMAIN files : (\A m \in DOMAIN files : m <= n) => n = cur
  BY <1>1
<1>3. LastSegment(files) = cur
  BY <1>1, <1>2 DEF LastSegment
<1>6. \E least \in DOMAIN files : \A y \in DOMAIN files : least <= y
  BY <1>1, SmallestExists
<1>7. FirstSegment(files) \in DOMAIN files
  BY <1>6 DEF FirstSegment
<1> QED
  BY <1>1, <1>3, <1>7

LEMMA FramesAfterType ==
    ASSUME TypeOK, Tiled, NEW n \in DOMAIN files
    PROVE  FramesAfter(files, n) \in Seq(Frame)
<1> DEFINE part(k) == IF n + k \in DOMAIN files THEN files[n + k] ELSE <<>>
           parts_ == [k \in 1..(cur - n) |-> part(k)]
<1>1. cur \in Nat /\ n \in Nat /\ n <= cur /\ cur - n \in Nat /\ LastSegment(files) = cur
      /\ \A m \in DOMAIN files : files[m] \in Seq(Frame)
  BY Segments
<1>2. \A k \in 1..(cur - n) : part(k) \in Seq(Frame)
  BY <1>1
<1>3. parts_ \in Seq(Seq(Frame))
  <2> HIDE DEF part
  <2> DEFINE T == Seq(Frame)
             d == cur - n
  <2>1. d \in Nat /\ \A k \in 1..d : part(k) \in T
    BY <1>1, <1>2
  <2> HIDE DEF T, d
  <2>2. [k \in 1..d |-> part(k)] \in Seq(T)
    BY <2>1, IsASeq
  <2> QED
    BY <2>2 DEF T, d
<1> HIDE DEF parts_
<1>4. FlattenSeq(parts_) \in Seq(Frame)
  BY <1>3, FlattenType
<1> QED
  BY <1>1, <1>4 DEF FramesAfter, parts_

\* read_new looks from a place in a file that is there.
LEMMA CursorType ==
    ASSUME TypeOK, Tiled, NEW t \in LogCursor
    PROVE  Cursor(files, t) \in LogCursor /\ Cursor(files, t).current \in DOMAIN files
<1>1. \A n \in DOMAIN files : n \in Nat /\ Bytes(files[n]) \in Nat
  BY Segments, BytesType
<1>2. Established(files, t) \in LogCursor /\ Established(files, t).current \in DOMAIN files
  BY <1>1, Segments DEF Established, LogCursor, Gone
<1> DEFINE e == Established(files, t)
<1> HIDE DEF e
<1>3. e \in LogCursor /\ e.current \in DOMAIN files
  BY <1>2 DEF e
<1>4. Clamped(files, e) \in LogCursor /\ Clamped(files, e).current = e.current
  BY <1>1, <1>3 DEF Clamped, LogCursor
<1> QED
  BY <1>3, <1>4 DEF Cursor, e

LEMMA ReadNewType ==
    ASSUME TypeOK, Tiled, NEW t, NEW c \in LogCursor, c.current \in DOMAIN files
    PROVE  /\ ReadNew(files, t, c).frames \in Seq(Frame)
           /\ ReadNew(files, t, c).tail \in LogCursor
           /\ ReadNew(files, t, c).corrupt \in BOOLEAN
<1>1. /\ files[c.current] \in Seq(Frame) /\ LastSegment(files) \in Nat
      /\ Bytes(files[LastSegment(files)]) \in Nat
  BY Segments, BytesType
<1>2. CASE Decodes(files[c.current], c.offset)
  <2>1. From(files[c.current], c.offset) \o FramesAfter(files, c.current) \in Seq(Frame)
    BY <1>1, <1>2, FromType, FramesAfterType
  <2> QED
    BY <1>1, <1>2, <2>1 DEF ReadNew, LogCursor
<1>3. CASE ~Decodes(files[c.current], c.offset)
  BY <1>3 DEF ReadNew
<1> QED
  BY <1>2, <1>3

-----------------------------------------------------------------------------
(***************************************************************************)
(* What the decoder makes of frames.                                       *)
(***************************************************************************)
LEMMA SchemaOfType ==
    ASSUME NEW t \in Nat
    PROVE  SchemaOf(t) \in Nat
<1>1. {a \in Altered : a <= t} \subseteq Altered /\ IsFiniteSet(Altered)
  BY AlteredAssumption
<1>2. Cardinality({a \in Altered : a <= t}) \in Nat
  BY <1>1, FS_Subset, FS_CardinalityType
<1> QED
  BY <1>2 DEF SchemaOf

LEMMA RecordVersionType ==
    ASSUME NEW registry \in Seq(SchemaVersion), NEW schema \in Nat, NEW lsn \in Nat
    PROVE  RecordVersion(registry, schema, lsn) \in Seq(SchemaVersion)
<1>1. [valid_from |-> lsn, schema |-> schema] \in SchemaVersion
  BY DEF SchemaVersion
<1>2. Append(registry, [valid_from |-> lsn, schema |-> schema]) \in Seq(SchemaVersion)
  BY <1>1
<1> QED
  BY <1>2 DEF RecordVersion

LEMMA RecordVersionsType ==
    ASSUME NEW registry \in Seq(SchemaVersion), NEW schemas \in Seq(Nat), NEW lsn \in Nat
    PROVE  RecordVersions(registry, schemas, lsn) \in Seq(SchemaVersion)
<1> DEFINE n == Len(schemas)
           T == Seq(SchemaVersion)
           Step(f, i) == IF i = 0 THEN registry ELSE RecordVersion(f[i - 1], schemas[i], lsn)
           F == [i \in 1..n |-> [r \in T |-> RecordVersion(r, schemas[i], lsn)]]
           r == CHOOSE f : f = [i \in 0..n |-> Step(f, i)]
<1>1. n \in Nat /\ registry \in T /\ \A i \in 1..n : schemas[i] \in Nat
  OBVIOUS
<1>2. \A i \in 1..n : \A s \in T : RecordVersion(s, schemas[i], lsn) \in T
  BY <1>1, RecordVersionType
<1>3. RecordVersions(registry, schemas, lsn) = r[n]
  BY DEF RecordVersions
<1> HIDE DEF n, T, r
<1>4. \A i \in 1..n : \A s \in T : F[i][s] = RecordVersion(s, schemas[i], lsn)
  OBVIOUS
<1>5. Maps(F, n, T)
  BY <1>2, <1>4 DEF Maps
<1> HIDE DEF F
<1>6. PICK g \in [0..n -> T] : IsRun(g, n, registry, F)
  BY <1>1, <1>5, RunExists
<1>7. \A i \in 0..n : g[i] = Step(g, i)
  <2> SUFFICES ASSUME NEW i \in 0..n PROVE g[i] = Step(g, i)
    OBVIOUS
  <2>1. CASE i = 0
    BY <1>6, <2>1 DEF IsRun
  <2>2. CASE i # 0
    <3>1. i \in 1..n /\ i - 1 \in 0..n
      BY <1>1, <2>2
    <3>2. g[i] = F[i][g[i - 1]] /\ g[i - 1] \in T
      BY <1>6, <3>1 DEF IsRun
    <3> QED
      BY <1>4, <2>2, <3>1, <3>2
  <2> QED
    BY <2>1, <2>2
<1>8. g = [i \in 0..n |-> Step(g, i)]
  <2> HIDE DEF Step
  <2> QED
    BY <1>7
<1>9. r = [i \in 0..n |-> Step(r, i)]
  <2> HIDE DEF Step
  <2> QED
    BY <1>8 DEF r
<1>10. \A i \in 0..n : r[i] = Step(r, i)
  <2> HIDE DEF Step
  <2> QED
    BY <1>9
<1>11. r[0] \in T
  BY <1>1, <1>10
<1>12. \A i \in 0..(n - 1) : r[i] \in T => r[i + 1] \in T
  <2> SUFFICES ASSUME NEW i \in 0..(n - 1), r[i] \in T PROVE r[i + 1] \in T
    OBVIOUS
  <2>1. i + 1 \in 1..n /\ i + 1 \in 0..n /\ (i + 1) - 1 = i /\ i + 1 # 0
    BY <1>1
  <2>2. r[i + 1] = RecordVersion(r[i], schemas[i + 1], lsn)
    BY <1>10, <2>1
  <2> QED
    BY <1>2, <2>1, <2>2
<1>13. r[n] \in T
  BY <1>1, <1>11, <1>12, RunStays
<1> QED
  BY <1>3, <1>13 DEF T

LEMMA EmittedType ==
    ASSUME NEW t \in TxnBuf, NEW lsn \in Nat
    PROVE  Emitted(t, lsn) \in Seq(TypedChange)
<1> DEFINE change(i) == [row |-> t.changes[i].row, schema |-> t.changes[i].schema,
                         commit_lsn |-> lsn]
           n == Len(t.changes)
<1>1. n \in Nat /\ DOMAIN t.changes = 1..n
  BY DEF TxnBuf
<1>2. \A i \in 1..n : change(i) \in TypedChange
  <2> SUFFICES ASSUME NEW i \in 1..n PROVE change(i) \in TypedChange
    OBVIOUS
  <2>1. t.changes \in Seq([row : Nat, schema : Nat])
    BY DEF TxnBuf
  <2>2. t.changes[i] \in [row : Nat, schema : Nat]
    BY <2>1, ElementOfSeq
  <2> QED
    BY <2>2 DEF TypedChange
<1> HIDE DEF change, n
<1>3. [i \in 1..n |-> change(i)] \in Seq(TypedChange)
  BY <1>1, <1>2, IsASeq
<1>4. Emitted(t, lsn) = [i \in 1..n |-> change(i)]
  BY <1>1 DEF Emitted, change
<1> QED
  BY <1>3, <1>4

\* What feeding a batch yields.
Outcome ==
    [decoder : DecoderState, changes : Seq(TypedChange), lsn : Nat,
     error : {"none", "gap", "decode"}]

LEMMA FailType ==
    ASSUME NEW b \in Outcome, NEW e \in {"gap", "decode"}
    PROVE  Fail(b, e) \in Outcome
BY DEF Fail, Outcome

LEMMA OnBeginType ==
    ASSUME NEW b \in Outcome
    PROVE  OnBegin(b) \in Outcome
<1>1. NewTxn \in TxnBuf
  BY DEF NewTxn, TxnBuf
<1> QED
  BY <1>1 DEF OnBegin, Outcome, DecoderState

LEMMA OnRelationType ==
    ASSUME NEW b \in Outcome, NEW f \in Frame
    PROVE  OnRelation(b, f) \in Outcome
<1> DEFINE s == SchemaOf(f.txn)
           d == b.decoder
<1>1. s \in Nat /\ f.txn \in Nat
  BY FrameFields, SchemaOfType
<1>2. d \in DecoderState
  BY DEF Outcome
<1>3. CASE d.txn = NoTxn
  <2>1. RecordVersion(d.registry, s, f.txn) \in Seq(SchemaVersion)
    BY <1>1, <1>2, RecordVersionType DEF DecoderState
  <2> DEFINE e == [d EXCEPT !.live_rel = s, !.registry = RecordVersion(d.registry, s, f.txn)]
  <2>2. e \in DecoderState
    BY <1>1, <1>2, <2>1 DEF DecoderState
  <2>3. OnRelation(b, f) = [b EXCEPT !.decoder = e]
    BY <1>2, <1>3 DEF OnRelation, Outcome, DecoderState
  <2> HIDE DEF e
  <2> QED
    BY <2>2, <2>3 DEF Outcome
<1>4. CASE d.txn # NoTxn
  <2>1. d.txn \in TxnBuf
    BY <1>2, <1>4 DEF DecoderState
  <2>2. Append(d.txn.relations, s) \in Seq(Nat)
    BY <1>1, <2>1 DEF TxnBuf
  <2> DEFINE t == [d.txn EXCEPT !.relations = Append(d.txn.relations, s)]
             e == [d EXCEPT !.live_rel = s, !.txn = t]
  <2>3. t \in TxnBuf
    BY <2>1, <2>2 DEF TxnBuf
  <2>4. e \in DecoderState
    BY <1>1, <1>2, <2>3 DEF DecoderState
  <2>5. OnRelation(b, f) = [b EXCEPT !.decoder = e]
    BY <1>2, <1>4, <2>1 DEF OnRelation, Outcome, DecoderState, TxnBuf
  <2> HIDE DEF e
  <2> QED
    BY <2>4, <2>5 DEF Outcome
<1> QED
  BY <1>3, <1>4

LEMMA OnChangeType ==
    ASSUME NEW b \in Outcome, NEW f \in Frame
    PROVE  OnChange(b, f) \in Outcome
<1> DEFINE d == b.decoder
<1>1. f.txn \in Nat
  BY FrameFields
<1>2. d \in DecoderState
  BY DEF Outcome
<1>3. CASE d.live_rel = 0 \/ d.txn = NoTxn
  BY <1>3, FailType DEF OnChange
<1>4. CASE ~(d.live_rel = 0 \/ d.txn = NoTxn)
  <2>1. d.txn \in TxnBuf /\ d.live_rel \in Nat
    BY <1>2, <1>4 DEF DecoderState
  <2> DEFINE c == [row |-> f.txn, schema |-> d.live_rel]
  <2>2. Append(d.txn.changes, c) \in Seq([row : Nat, schema : Nat])
    <3>1. c \in [row : Nat, schema : Nat]
      BY <1>1, <2>1
    <3> QED
      BY <2>1, <3>1 DEF TxnBuf
  <2> DEFINE t == [d.txn EXCEPT !.changes = Append(d.txn.changes, c)]
             e == [d EXCEPT !.txn = t]
  <2>3. t \in TxnBuf
    BY <2>1, <2>2 DEF TxnBuf
  <2>4. e \in DecoderState
    BY <1>2, <2>3 DEF DecoderState
  <2>5. OnChange(b, f) = [b EXCEPT !.decoder = e]
    BY <1>2, <1>4, <2>1 DEF OnChange, Outcome, DecoderState, TxnBuf
  <2> HIDE DEF e
  <2> QED
    BY <2>4, <2>5 DEF Outcome
<1> QED
  BY <1>3, <1>4

LEMMA OnCommitType ==
    ASSUME NEW b \in Outcome, NEW f \in Frame
    PROVE  OnCommit(b, f) \in Outcome
<1> DEFINE d == b.decoder
<1>1. f.txn \in Nat /\ f.seq \in Nat
  BY FrameFields
<1>2. d \in DecoderState
  BY DEF Outcome
<1>3. CASE d.txn = NoTxn
  BY <1>3, FailType DEF OnCommit
<1>4. CASE d.txn # NoTxn
  <2>1. d.txn \in TxnBuf
    BY <1>2, <1>4 DEF DecoderState
  <2> DEFINE r == RecordVersions(d.registry, d.txn.relations, f.txn)
             e == [d EXCEPT !.txn = NoTxn, !.last_commit_seq = f.seq, !.registry = r]
             c == b.changes \o Emitted(d.txn, f.txn)
  <2>2. r \in Seq(SchemaVersion)
    BY <1>1, <1>2, <2>1, RecordVersionsType DEF DecoderState, TxnBuf
  <2>3. e \in DecoderState
    <3> HIDE DEF r
    <3> QED
      BY <1>1, <1>2, <2>2 DEF DecoderState
  <2>4. c \in Seq(TypedChange)
    <3>1. b.changes \in Seq(TypedChange) /\ Emitted(d.txn, f.txn) \in Seq(TypedChange)
      BY <1>1, <2>1, EmittedType DEF Outcome
    <3> QED
      BY <3>1, ConcatProperties
  <2>5. OnCommit(b, f) = [b EXCEPT !.decoder = e, !.changes = c, !.lsn = f.txn]
    BY <1>2, <1>4 DEF OnCommit, Outcome, DecoderState
  <2> HIDE DEF e, c
  <2> QED
    BY <1>1, <2>3, <2>4, <2>5 DEF Outcome
<1> QED
  BY <1>3, <1>4

LEMMA FeedFrameType ==
    ASSUME NEW b \in Outcome, NEW f \in Frame
    PROVE  FeedFrame(b, f) \in Outcome
<1> DEFINE next == [b EXCEPT !.decoder.next_seq = f.seq + 1, !.decoder.started = TRUE]
           d == b.decoder
           e == [d EXCEPT !.next_seq = f.seq + 1, !.started = TRUE]
<1>1. f.seq \in Nat /\ f.payload \in {"begin", "relation", "change", "commit"}
  BY PayloadAssumption DEF Frame
<1>2. next \in Outcome
  <2>1. d \in DecoderState
    BY DEF Outcome
  <2>2. e \in DecoderState
    <3>1. f.seq + 1 \in Nat /\ TRUE \in BOOLEAN
      BY <1>1
    <3> QED
      BY <2>1, <3>1 DEF DecoderState
  <2>3. next = [b EXCEPT !.decoder = e]
    BY <2>1 DEF Outcome, DecoderState
  <2> HIDE DEF e, next
  <2> QED
    BY <2>2, <2>3 DEF Outcome
<1> HIDE DEF next
<1>3. Message(next, f) \in Outcome
  BY <1>1, <1>2, OnBeginType, OnRelationType, OnChangeType, OnCommitType DEF Message
<1> QED
  BY <1>3, FailType DEF FeedFrame, next

\* Feed, frame by frame.
LEMMA FeedRun ==
    ASSUME NEW d \in DecoderState, NEW frames \in Seq(Frame)
    PROVE  \E fed :
              /\ fed[0] = {[decoder |-> d, changes |-> <<>>, lsn |-> 0, error |-> "none"]}
              /\ \A i \in 1..Len(frames) :
                    fed[i] = {FeedFrame(b, frames[i]) : b \in fed[i - 1]}
              /\ Feed(d, frames) = fed[Len(frames)]
<1> DEFINE n == Len(frames)
           T == SUBSET Outcome
           start == {[decoder |-> d, changes |-> <<>>, lsn |-> 0, error |-> "none"]}
           Step(f, i) == IF i = 0 THEN start ELSE {FeedFrame(b, frames[i]) : b \in f[i - 1]}
           F == [i \in 1..n |-> [s \in T |-> {FeedFrame(b, frames[i]) : b \in s}]]
           fed == CHOOSE f : f = [i \in 0..n |-> Step(f, i)]
<1>1. n \in Nat /\ start \in T /\ \A i \in 1..n : frames[i] \in Frame
  BY DEF Outcome
<1>2. \A i \in 1..n : \A s \in T : {FeedFrame(b, frames[i]) : b \in s} \in T
  BY <1>1, FeedFrameType
<1>3. Feed(d, frames) = fed[n]
  BY DEF Feed
<1> HIDE DEF n, T, fed, start
<1>4. \A i \in 1..n : \A s \in T : F[i][s] = {FeedFrame(b, frames[i]) : b \in s}
  OBVIOUS
<1>5. Maps(F, n, T)
  BY <1>2, <1>4 DEF Maps
<1> HIDE DEF F
<1>6. PICK g \in [0..n -> T] : IsRun(g, n, start, F)
  BY <1>1, <1>5, RunExists
<1>7. \A i \in 0..n : g[i] = Step(g, i)
  <2> SUFFICES ASSUME NEW i \in 0..n PROVE g[i] = Step(g, i)
    OBVIOUS
  <2>1. CASE i = 0
    BY <1>6, <2>1 DEF IsRun
  <2>2. CASE i # 0
    <3>1. i \in 1..n /\ i - 1 \in 0..n
      BY <1>1, <2>2
    <3>2. g[i] = F[i][g[i - 1]] /\ g[i - 1] \in T
      BY <1>6, <3>1 DEF IsRun
    <3> QED
      BY <1>4, <2>2, <3>1, <3>2
  <2> QED
    BY <2>1, <2>2
<1>8. g = [i \in 0..n |-> Step(g, i)]
  <2> HIDE DEF Step
  <2> QED
    BY <1>7
<1>9. fed = [i \in 0..n |-> Step(fed, i)]
  <2> HIDE DEF Step
  <2> QED
    BY <1>8 DEF fed
<1>10. \A i \in 0..n : fed[i] = Step(fed, i)
  <2> HIDE DEF Step
  <2> QED
    BY <1>9
<1>11. fed[0] = start
  <2>1. 0 \in 0..n
    BY <1>1
  <2> QED
    BY <1>10, <2>1
<1>12. \A i \in 1..n : fed[i] = {FeedFrame(b, frames[i]) : b \in fed[i - 1]}
  <2> SUFFICES ASSUME NEW i \in 1..n PROVE fed[i] = {FeedFrame(b, frames[i]) : b \in fed[i - 1]}
    OBVIOUS
  <2>1. i \in 0..n /\ i # 0
    BY <1>1
  <2> QED
    BY <1>10, <2>1
<1> QED
  BY <1>3, <1>11, <1>12 DEF n, start

LEMMA FeedType ==
    ASSUME NEW d \in DecoderState, NEW frames \in Seq(Frame)
    PROVE  Feed(d, frames) \in SUBSET Outcome
<1> DEFINE n == Len(frames)
           T == SUBSET Outcome
           start == {[decoder |-> d, changes |-> <<>>, lsn |-> 0, error |-> "none"]}
<1>1. n \in Nat /\ start \in T /\ \A i \in 1..n : frames[i] \in Frame
  BY DEF Outcome
<1>2. \A i \in 1..n : \A s \in T : {FeedFrame(b, frames[i]) : b \in s} \in T
  BY <1>1, FeedFrameType
<1>3. PICK fed : /\ fed[0] = start
                 /\ \A i \in 1..n : fed[i] = {FeedFrame(b, frames[i]) : b \in fed[i - 1]}
                 /\ Feed(d, frames) = fed[n]
  BY FeedRun
<1> HIDE DEF n, T, start
<1>4. \A i \in 0..(n - 1) : fed[i] \in T => fed[i + 1] \in T
  <2> SUFFICES ASSUME NEW i \in 0..(n - 1), fed[i] \in T PROVE fed[i + 1] \in T
    OBVIOUS
  <2>1. i + 1 \in 1..n /\ (i + 1) - 1 = i
    BY <1>1
  <2> QED
    BY <1>2, <1>3, <2>1
<1>5. fed[n] \in T
  BY <1>1, <1>3, <1>4, RunStays
<1> QED
  BY <1>3, <1>5 DEF T

-----------------------------------------------------------------------------
(***************************************************************************)
(* The pump, the session and the apply loop.                               *)
(***************************************************************************)

\* Every step of the pipeline is a step of its log, or leaves it alone.
LEMMA LogStep ==
    ASSUME msg \in Payload, [PipelineNext]_vars
    PROVE  [Next]_logVars
<1>1. CASE ReceiveFrame
  <2>1. AppendFrame(msg = "commit", msg) /\ (msg = "commit") \in BOOLEAN
    BY <1>1 DEF ReceiveFrame
  <2> QED
    BY <2>1 DEF Next, Owner
<1>2. CASE PumpSync
  BY <1>2 DEF PumpSync, Next, Owner
<1>3. CASE Drain
  BY <1>3 DEF Drain, Next, Owner
<1>4. CASE DrainEnd
  BY <1>4 DEF DrainEnd, Next, Owner
<1>5. CASE StallLog
  BY <1>5 DEF StallLog, Next, Owner
<1>6. CASE UnstallLog
  BY <1>6 DEF UnstallLog, Next, Owner
<1>7. CASE KillPump
  BY <1>7 DEF KillPump, Next
<1>8. CASE RestartPump
  BY <1>8 DEF RestartPump, Next
<1>9. CASE PromptAck \/ StatusTick \/ \E reply_requested \in BOOLEAN : Keepalive(reply_requested)
  BY <1>9 DEF PromptAck, StatusTick, Keepalive
<1>10. CASE SourceCommit \/ SourceCheckpoint
  BY <1>10 DEF SourceCommit, SourceCheckpoint
<1>11. CASE ApplyNewFrames
  BY <1>11 DEF ApplyNewFrames
<1>12. CASE UNCHANGED vars
  BY <1>12 DEF vars
<1> QED
  BY <1>1, <1>2, <1>3, <1>4, <1>5, <1>6, <1>7, <1>8, <1>9, <1>10, <1>11, <1>12
  DEF PipelineNext, Pump

\* What the source and the session keep.
SessionType ==
    /\ wal \in 0..MaxTxn /\ wal_past \in BOOLEAN
    /\ confirmed \in Nat /\ acked_lsn \in Nat /\ stream_lsn \in Nat
    /\ msg \in Payload
    /\ rel_sent \in Nat /\ ack_due \in BOOLEAN

\* What the apply loop keeps.
ApplyType ==
    /\ tail \in LogCursor
    /\ decoder \in DecoderState
    /\ applied \in Seq(TypedChange)
    /\ applied_lsn \in Nat
    /\ apply_error \in {"none", "gap", "decode", "corrupt"}

LEMMA TypeParts == PipelineTypeOK <=> TypeOK /\ SessionType /\ ApplyType
BY DEF PipelineTypeOK, SessionType, ApplyType

LEMMA TypePartsNext == PipelineTypeOK' <=> TypeOK' /\ SessionType' /\ ApplyType'
BY TypeParts, PTL

LEMMA FollowingType ==
    ASSUME msg \in Payload
    PROVE  FollowingMessage \in Payload
BY PayloadAssumption DEF FollowingMessage

LEMMA SessionKeeps ==
    ASSUME TypeOK, SessionType, [PipelineNext]_vars
    PROVE  SessionType'
<1>1. /\ durable.lsn \in Nat /\ head \in Nat /\ EndOf(head) \in Nat /\ EndOf(head + 1) \in Nat
      /\ SchemaOf(head + 1) \in Nat /\ wal \in Nat /\ WalHead \in Nat /\ "begin" \in Payload
  <2>1. durable.lsn \in Nat /\ head \in Nat /\ head + 1 \in Nat
    BY DEF TypeOK, DurableMark
  <2>2. wal \in Nat
    BY BoundsAssumption DEF SessionType
  <2>3. EndOf(head) \in Nat /\ EndOf(head + 1) \in Nat /\ EndOf(wal) \in Nat
    BY <2>1, <2>2 DEF EndOf
  <2>4. WalHead \in Nat
    BY <2>3 DEF WalHead
  <2> QED
    BY <2>1, <2>2, <2>3, <2>4, SchemaOfType, PayloadAssumption
<1>2. CASE SourceCommit
  <2>1. wal' \in 0..MaxTxn
    BY <1>2, BoundsAssumption DEF SourceCommit, SessionType
  <2>2. wal_past' \in BOOLEAN
    BY <1>2, Zenon DEF SourceCommit
  <2> QED
    BY <1>2, <2>1, <2>2 DEF SourceCommit, SessionType, sessionVars
<1>3. CASE SourceCheckpoint
  BY <1>3 DEF SourceCheckpoint, SessionType, sessionVars
<1>4. CASE ReceiveFrame
  <2>1. stream_lsn' \in Nat
    BY <1>1, <1>4 DEF ReceiveFrame, Greater, SessionType
  <2>2. ack_due' \in BOOLEAN
    BY <1>4, Zenon DEF ReceiveFrame
  <2>3. msg' \in Payload
    BY <1>4, FollowingType DEF ReceiveFrame, SessionType
  <2>4. rel_sent' \in Nat
    BY <1>1, <1>4 DEF ReceiveFrame, SessionType
  <2> QED
    BY <1>4, <2>1, <2>2, <2>3, <2>4 DEF ReceiveFrame, SessionType, sourceVars
<1>5. CASE PromptAck
  BY <1>1, <1>5 DEF PromptAck, Acknowledge, SessionType, sourceVars
<1>6. ASSUME NEW reply_requested \in BOOLEAN, Keepalive(reply_requested)
      PROVE  SessionType'
  BY <1>1, <1>6 DEF Keepalive, Greater, SessionType, sourceVars
<1>7. CASE StatusTick
  BY <1>1, <1>7 DEF StatusTick, Acknowledge, SessionType, sourceVars
<1>8. CASE DrainEnd
  BY <1>8 DEF DrainEnd, SessionType, sourceVars
<1>9. CASE KillPump
  BY <1>9 DEF KillPump, SessionType, sourceVars
<1>10. CASE RestartPump
  BY <1>1, <1>10 DEF RestartPump, SessionType, sourceVars
<1>11. CASE PumpSync \/ Drain \/ StallLog \/ UnstallLog \/ ApplyNewFrames \/ UNCHANGED vars
  <2>1. UNCHANGED <<sourceVars, sessionVars>>
    BY <1>11 DEF PumpSync, Drain, StallLog, UnstallLog, ApplyNewFrames, vars
  <2> QED
    BY <2>1 DEF SessionType, sourceVars, sessionVars
<1> QED
  BY <1>2, <1>3, <1>4, <1>5, <1>6, <1>7, <1>8, <1>9, <1>10, <1>11 DEF PipelineNext, Pump

LEMMA AbortType ==
    ASSUME NEW d \in DecoderState
    PROVE  AbortOpenTxn(d) \in DecoderState
<1> DEFINE s == IF d.started THEN d.last_commit_seq + 1 ELSE 0
<1>1. s \in Nat
  BY DEF DecoderState
<1>2. AbortOpenTxn(d) = [d EXCEPT !.txn = NoTxn, !.next_seq = s]
  BY DEF AbortOpenTxn
<1> HIDE DEF s
<1> QED
  BY <1>1, <1>2 DEF DecoderState

\* apply_new_frames: what it reads and decodes is typed, and the position
\* the shapes report never goes back.
LEMMA ApplyKeeps ==
    ASSUME TypeOK, Tiled, ApplyType, ApplyNewFrames
    PROVE  ApplyType' /\ applied_lsn <= applied_lsn'
<1> DEFINE cursor == Cursor(files, tail)
           batch == ReadNew(files, tail, cursor)
<1>1. cursor \in LogCursor /\ cursor.current \in DOMAIN files
  BY CursorType DEF ApplyType
<1>2. batch.frames \in Seq(Frame) /\ batch.tail \in LogCursor /\ batch.corrupt \in BOOLEAN
  BY <1>1, ReadNewType
<1>3. PICK decoded \in Decode(batch) :
        LET error == IF batch.corrupt THEN "corrupt" ELSE decoded.error IN
        /\ tail' = batch.tail
        /\ decoder' = IF batch.corrupt THEN decoder ELSE decoded.decoder
        /\ apply_error' = IF apply_error = "none" THEN error ELSE apply_error
        /\ IF error = "none" /\ decoded.changes # <<>>
           THEN /\ applied' = applied \o decoded.changes
                /\ applied_lsn' = Greater(decoded.lsn, applied_lsn)
           ELSE UNCHANGED <<applied, applied_lsn>>
  BY DEF ApplyNewFrames
<1> HIDE DEF cursor, batch
<1>4. decoded \in Outcome
  <2>1. (IF batch.rewound THEN AbortOpenTxn(decoder) ELSE decoder) \in DecoderState
    BY AbortType DEF ApplyType
  <2>2. Feed(IF batch.rewound THEN AbortOpenTxn(decoder) ELSE decoder, batch.frames)
          \in SUBSET Outcome
    BY <1>2, <2>1, FeedType
  <2> QED
    BY <2>2 DEF Decode
<1>5. /\ decoded.decoder \in DecoderState /\ decoded.changes \in Seq(TypedChange)
      /\ decoded.lsn \in Nat /\ decoded.error \in {"none", "gap", "decode"}
  BY <1>4 DEF Outcome
<1>6. tail' \in LogCursor /\ decoder' \in DecoderState
      /\ apply_error' \in {"none", "gap", "decode", "corrupt"}
  BY <1>2, <1>3, <1>5 DEF ApplyType
<1>7. applied' \in Seq(TypedChange) /\ applied_lsn' \in Nat /\ applied_lsn <= applied_lsn'
  <2>1. applied \in Seq(TypedChange) /\ applied_lsn \in Nat
    BY DEF ApplyType
  <2>2. CASE applied' = applied \o decoded.changes /\ applied_lsn' = Greater(decoded.lsn, applied_lsn)
    BY <1>5, <2>1, <2>2, ConcatProperties DEF Greater
  <2>3. CASE UNCHANGED <<applied, applied_lsn>>
    BY <2>1, <2>3
  <2> QED
    BY <1>3, <2>2, <2>3
<1> QED
  BY <1>6, <1>7 DEF ApplyType

LEMMA ApplyAlone ==
    ASSUME PipelineNext, ~ApplyNewFrames
    PROVE  UNCHANGED applyVars
BY DEF PipelineNext, Pump, SourceCommit, SourceCheckpoint, ReceiveFrame, PumpSync, PromptAck,
       Drain, DrainEnd, Keepalive, StatusTick, StallLog, UnstallLog, KillPump, RestartPump

\* A status update tells the slot the mark; nothing else does.
LEMMA ConfirmedStep ==
    ASSUME [PipelineNext]_vars
    PROVE  confirmed' = confirmed \/ (confirmed' = durable.lsn /\ UNCHANGED durable)
<1>1. CASE PromptAck \/ StatusTick \/ \E reply_requested \in BOOLEAN : Keepalive(reply_requested)
  BY <1>1 DEF PromptAck, StatusTick, Keepalive, Acknowledge, logVars
<1>2. CASE SourceCommit \/ SourceCheckpoint \/ PumpSync \/ Drain \/ StallLog \/ UnstallLog
           \/ ApplyNewFrames \/ UNCHANGED vars
  BY <1>2 DEF SourceCommit, SourceCheckpoint, PumpSync, Drain, StallLog, UnstallLog,
              ApplyNewFrames, vars, sessionVars
<1>3. CASE ReceiveFrame \/ DrainEnd \/ KillPump \/ RestartPump
  BY <1>3 DEF ReceiveFrame, DrainEnd, KillPump, RestartPump
<1> QED
  BY <1>1, <1>2, <1>3 DEF PipelineNext, Pump

LEMMA PumpKeeps ==
    ASSUME PumpInv, [PipelineNext]_vars
    PROVE  PumpInv' /\ applied_lsn <= applied_lsn'
<1>1. IInv /\ TypeOK /\ Tiled /\ SessionType /\ ApplyType /\ msg \in Payload
  BY TypeParts DEF PumpInv, IInv, SessionType
<1>2. [Next]_logVars
  BY <1>1, LogStep
<1>3. IInv' /\ TypeOK'
  BY <1>1, <1>2, NextIInv DEF IInv
<1>4. SessionType'
  BY <1>1, SessionKeeps
<1>5. ApplyType' /\ applied_lsn <= applied_lsn'
  <2>1. CASE ApplyNewFrames
    BY <1>1, <2>1, ApplyKeeps
  <2>2. CASE ~ApplyNewFrames
    <3>1. UNCHANGED applyVars
      BY <2>2, ApplyAlone DEF vars
    <3> QED
      BY <1>1, <3>1 DEF ApplyType, applyVars
  <2> QED
    BY <2>1, <2>2
<1>6. confirmed' <= durable'.lsn
  <2>1. durable.lsn \in Nat /\ durable'.lsn \in Nat /\ durable.lsn <= durable'.lsn
    BY <1>1, <1>2, MarkNeverBack DEF TypeOK, DurableMark
  <2>2. confirmed \in Nat /\ confirmed <= durable.lsn
    BY <1>1 DEF PumpInv, SessionType
  <2> QED
    BY <2>1, <2>2, ConfirmedStep
<1> QED
  BY <1>3, <1>4, <1>5, <1>6, TypePartsNext DEF PumpInv

LEMMA StartType ==
    ASSUME PipelineStart
    PROVE  SessionType /\ ApplyType /\ confirmed = 0
<1>1. NewTail \in LogCursor
  BY DEF NewTail, LogCursor
<1>2. NewDecoder \in DecoderState
  BY DEF NewDecoder, DecoderState
<1>3. ApplyType
  <2>1. applied = <<>> /\ applied_lsn = 0 /\ apply_error = "none" /\ tail = NewTail
        /\ decoder = NewDecoder
    BY DEF PipelineStart
  <2> QED
    BY <1>1, <1>2, <2>1 DEF ApplyType
<1>4. wal_past \in BOOLEAN /\ ack_due \in BOOLEAN
  BY Zenon DEF PipelineStart
<1> QED
  BY <1>3, <1>4, PayloadAssumption, BoundsAssumption DEF PipelineStart, SessionType

LEMMA InitPump == PipelineInit => PumpInv
<1> SUFFICES ASSUME PipelineInit PROVE PumpInv
  OBVIOUS
<1>1. IInv /\ TypeOK
  BY InitIInv DEF PipelineInit, IInv
<1>2. SessionType /\ ApplyType /\ confirmed = 0
  BY StartType DEF PipelineInit
<1>3. durable.lsn \in Nat
  BY <1>1 DEF TypeOK, DurableMark
<1> QED
  BY <1>1, <1>2, <1>3, TypeParts DEF PumpInv

LEMMA PumpCustody ==
    ASSUME PumpInv
    PROVE  AckIsCustody
<1> SUFFICES ASSUME NEW t \in 1..confirmed
             PROVE  \E f \in OnStableDisk : f.txn_complete /\ f.txn = t
  BY DEF AckIsCustody
<1>1. IInv /\ confirmed \in Nat /\ confirmed <= durable.lsn /\ durable.lsn \in Nat
  BY DEF PumpInv, PipelineTypeOK, TypeOK, DurableMark
<1>2. t \in 1..durable.lsn
  BY <1>1
<1> QED
  BY <1>1, <1>2, CommitsStable

\* The invariant of the pump under every schedule of the source's commits,
\* keepalives, stalls, kills and restarts.
THEOREM PumpInductive == PipelineSpec => []PumpInv
<1>1. PumpInv /\ [PipelineNext]_vars => PumpInv'
  BY PumpKeeps
<1> QED
  BY <1>1, InitPump, PTL DEF PipelineSpec

\* The pump drives the log as its owner may: whatever the session, the
\* commands and the kills make of it, the log goes through FrameLog's steps.
THEOREM PumpDrivesLog == PipelineSpec => Spec
<1>1. PumpInv /\ [PipelineNext]_vars => [Next]_logVars
  BY LogStep DEF PumpInv, PipelineTypeOK
<1>2. PipelineInit => Create
  BY DEF PipelineInit
<1> QED
  BY <1>1, <1>2, PumpInductive, PTL DEF PipelineSpec, Spec

\* The ack law seen from the source: what the slot was told it may forget is on
\* stable disk, after any number of kills and restarts of the pump.
THEOREM PumpAcksCustody == PipelineSpec => []AckIsCustody
BY PumpInductive, PumpCustody, PTL

\* Type correctness of the pump, the session, the tail and the decoder.
THEOREM PipelineTypes == PipelineSpec => []PipelineTypeOK
<1>1. PumpInv => PipelineTypeOK
  BY DEF PumpInv
<1> QED
  BY <1>1, PumpInductive, PTL

-----------------------------------------------------------------------------
(***************************************************************************)
(* Attach: slots and logs are replaced around the pump.                    *)
(***************************************************************************)

\* A log without an owner is left alone until the pump is restarted.
LEMMA NobodyPumps ==
    ASSUME ~up, Running
    PROVE  UNCHANGED <<logVars, confirmed>> \/ (RestartAllowed /\ RestartPump)
<1>1. CASE SourceCommit \/ SourceCheckpoint \/ ApplyNewFrames
  BY <1>1 DEF SourceCommit, SourceCheckpoint, ApplyNewFrames, sessionVars
<1>2. ~(ReceiveFrame \/ PumpSync \/ PromptAck \/ Drain \/ DrainEnd)
  BY DEF ReceiveFrame, PumpIdle, PumpSync, SyncCommit, PromptAck, Drain, DrainFrame,
         DrainEnd, DrainSync
<1>3. ~(StatusTick \/ StallLog \/ UnstallLog \/ KillPump)
      /\ \A reply_requested \in BOOLEAN : ~Keepalive(reply_requested)
  BY DEF StatusTick, StallLog, UnstallLog, KillPump, Kill, Keepalive, PumpIdle
<1> QED
  BY <1>1, <1>2, <1>3 DEF Running, Pump, ApplyTick

LEMMA RunningStep ==
    ASSUME Running
    PROVE  PipelineNext /\ UNCHANGED attachVars
BY DEF Running, PipelineNext, ApplyTick

LEMMA RunningKeeps ==
    ASSUME AttachInv, Running
    PROVE  AttachInv'
<1>1. PipelineNext /\ UNCHANGED attachVars
  BY RunningStep
<1>2. PumpInv'
  BY <1>1, PumpKeeps DEF AttachInv
<1>3. slot' = slot /\ at' = at
  BY <1>1 DEF attachVars
<1>4. CASE up
  <2>1. slot /\ at \notin {"publication", "pack", "create", "log", "pump"}
    BY <1>4 DEF AttachInv
  <2> QED
    BY <1>2, <1>3, <2>1 DEF AttachInv
<1>5. CASE ~up /\ UNCHANGED <<logVars, confirmed>>
  <2>1. up' = up /\ (Empty => Empty') /\ confirmed' = confirmed
    BY <1>5 DEF logVars, Empty
  <2> QED
    BY <1>2, <1>3, <2>1 DEF AttachInv
<1>6. CASE RestartAllowed /\ RestartPump
  <2>1. slot /\ at \notin {"publication", "pack", "create", "log", "pump"}
    BY <1>6 DEF RestartAllowed, AttachInv
  <2> QED
    BY <1>2, <1>3, <2>1 DEF AttachInv
<1> QED
  BY <1>4, <1>5, <1>6, NobodyPumps

\* The slot is recreated, with nothing confirmed.
LEMMA CreateSlotKeeps ==
    ASSUME AttachInv, CreateSlot
    PROVE  AttachInv'
<1>1. /\ at = "create" /\ at' = "log" /\ slot' = TRUE /\ confirmed' = 0 /\ wal' = 0
      /\ wal_past' = FALSE /\ UNCHANGED <<msg, rel_sent, ack_due, stream_lsn, acked_lsn>>
  BY DEF CreateSlot
<1>2. UNCHANGED logVars /\ UNCHANGED applyVars
  BY DEF CreateSlot
<1>3. ~up /\ up' = up
  BY <1>1, <1>2 DEF AttachInv, logVars
<1>4. IInv' /\ TypeOK' /\ durable'.lsn \in Nat
  <2>1. [Next]_logVars /\ IInv
    BY <1>2 DEF AttachInv, PumpInv
  <2> QED
    BY <2>1, NextIInv, MarkNeverBack DEF IInv
<1>5. SessionType'
  <2>1. wal_past' \in BOOLEAN
    BY <1>1, Zenon
  <2> QED
    BY <1>1, <2>1, TypeParts, BoundsAssumption DEF AttachInv, PumpInv, SessionType
<1>6. ApplyType'
  BY <1>2, TypeParts DEF AttachInv, PumpInv, ApplyType, applyVars
<1>7. PumpInv'
  BY <1>1, <1>4, <1>5, <1>6, TypePartsNext DEF PumpInv
<1>8. slot' \in BOOLEAN
  BY <1>1, Zenon
<1> QED
  BY <1>1, <1>3, <1>7, <1>8 DEF AttachInv

\* The log is deleted and created while nothing is confirmed.
LEMMA CreateLogKeeps ==
    ASSUME AttachInv, CreateLog
    PROVE  AttachInv'
<1>1. /\ at = "log" /\ at' = "pump" /\ slot' = slot
      /\ UNCHANGED sessionVars /\ UNCHANGED sourceVars /\ UNCHANGED applyVars
  BY DEF CreateLog
<1>2. ~up /\ up' = up /\ confirmed = 0 /\ confirmed' = 0 /\ slot \in BOOLEAN
  BY <1>1 DEF AttachInv, CreateLog, sessionVars
<1>3. TypeOK /\ pc = "idle" /\ pending_commit = NoCommit /\ ~stalled /\ spill = <<>>
      /\ last_commit = NoCommit
  BY <1>2 DEF AttachInv, PumpInv, IInv, Modes
<1>4. stalled' = FALSE
  <2>1. stalled' = stalled /\ stalled \in BOOLEAN
    BY <1>3 DEF CreateLog, TypeOK
  <2> QED
    BY <1>3, <2>1
<1>5. Empty'
  BY <1>3, <1>4 DEF CreateLog, Empty
<1>6. up' \in BOOLEAN
  BY <1>2, <1>3 DEF TypeOK
<1>7. IInv'
  BY <1>5, <1>6, EmptyIInvNext
<1>8. durable'.lsn = 0
  BY DEF CreateLog, Unset
<1>9. SessionType' /\ ApplyType'
  BY <1>1, TypeParts
  DEF AttachInv, PumpInv, SessionType, ApplyType, sessionVars, sourceVars, applyVars
<1>10. PumpInv'
  BY <1>2, <1>7, <1>8, <1>9, TypePartsNext DEF PumpInv, IInv
<1> QED
  BY <1>1, <1>2, <1>5, <1>10 DEF AttachInv

LEMMA StartPumpKeeps ==
    ASSUME AttachInv, StartPump
    PROVE  AttachInv'
<1>1. /\ at = "pump" /\ at' = "plan" /\ slot' = slot /\ slot /\ up' = TRUE
      /\ msg' = "begin" /\ rel_sent' = 0 /\ stream_lsn' = 0 /\ acked_lsn' = 0
      /\ UNCHANGED <<confirmed, ack_due>> /\ UNCHANGED sourceVars /\ UNCHANGED applyVars
  BY DEF StartPump, NewSession
<1>2. Empty /\ confirmed = 0
  BY <1>1 DEF AttachInv
<1>3. Empty'
  BY <1>2 DEF StartPump, Empty
<1>4. up' \in BOOLEAN
  BY <1>1, Zenon
<1>5. IInv' /\ TypeOK'
  BY <1>3, <1>4, EmptyIInvNext DEF IInv
<1>6. durable'.lsn = 0
  BY <1>2 DEF StartPump, Empty, Unset
<1>7. SessionType' /\ ApplyType'
  BY <1>1, TypeParts, PayloadAssumption
  DEF AttachInv, PumpInv, SessionType, ApplyType, sourceVars, applyVars
<1>8. PumpInv'
  BY <1>1, <1>2, <1>5, <1>6, <1>7, TypePartsNext DEF PumpInv
<1> QED
  BY <1>1, <1>8 DEF AttachInv

\* The shapes are handed to an apply loop with a tail and a decoder of its own.
LEMMA BuildShapesKeeps ==
    ASSUME AttachInv, BuildShapes
    PROVE  AttachInv'
<1>1. /\ at' = "idle" /\ slot' = slot /\ tail' = NewTail /\ decoder' = NewDecoder
      /\ applied' = <<>> /\ applied_lsn' = 0 /\ apply_error' = "none"
      /\ UNCHANGED sessionVars /\ UNCHANGED sourceVars /\ UNCHANGED logVars
  BY DEF BuildShapes
<1>2. IInv' /\ TypeOK' /\ up' = up /\ durable' = durable
  <2>1. [Next]_logVars /\ IInv
    BY <1>1 DEF AttachInv, PumpInv
  <2> QED
    BY <1>1, <2>1, NextIInv DEF IInv, logVars
<1>3. ApplyType'
  BY <1>1 DEF ApplyType, NewTail, LogCursor, NewDecoder, DecoderState
<1>4. SessionType' /\ confirmed' = confirmed
  BY <1>1, TypeParts DEF AttachInv, PumpInv, SessionType, sessionVars, sourceVars
<1>5. PumpInv'
  BY <1>2, <1>3, <1>4, TypePartsNext DEF AttachInv, PumpInv
<1> QED
  BY <1>1, <1>2, <1>5 DEF AttachInv

\* The other steps of attach leave the pipeline alone.
LEMMA BesideKeeps ==
    ASSUME AttachInv, UNCHANGED vars, slot' \in BOOLEAN, up => slot',
           at' \in {"publication", "pack", "create"} => ~slot',
           at' \notin {"log", "pump"} \/ at' = at
    PROVE  AttachInv'
<1>1. PumpInv'
  BY PumpKeeps DEF AttachInv
<1>2. up' = up /\ confirmed' = confirmed /\ (Empty => Empty')
  BY DEF vars, logVars, sessionVars, Empty
<1> QED
  BY <1>1, <1>2 DEF AttachInv

LEMMA AttachKeeps ==
    ASSUME AttachInv, [AttachNext]_allVars
    PROVE  AttachInv'
<1>1. slot \in BOOLEAN /\ (up => slot) /\ (at \in {"publication", "pack", "create"} => ~slot)
  BY DEF AttachInv
<1>2. CASE DropSlot
  <2>1. UNCHANGED vars /\ slot' = FALSE /\ at' = "publication" /\ ~(slot /\ up)
    BY <1>2 DEF DropSlot
  <2>2. slot' \in BOOLEAN
    BY <2>1, Zenon
  <2> QED
    BY <1>1, <2>1, <2>2, BesideKeeps
<1>3. CASE Attach \/ SlotIsActive \/ DropPublication \/ EnsurePublication \/ Plan
           \/ AssembleManifest \/ AttachFails
           \/ \E w \in Worker : PinWorker(w) \/ TakeJob(w) \/ StagePart(w)
  <2>1. UNCHANGED vars /\ slot' = slot
    BY <1>3 DEF Attach, SlotIsActive, DropPublication, EnsurePublication, Plan,
                AssembleManifest, AttachFails, PinWorker, TakeJob, StagePart
  <2>2. at' = at \/ (at' \in {"pack", "create"} /\ at \in {"publication", "pack"})
        \/ at' \in {"idle", "slot", "copy", "build"}
    BY <1>3 DEF Attach, SlotIsActive, DropPublication, EnsurePublication, Plan,
                AssembleManifest, AttachFails, PinWorker, TakeJob, StagePart
  <2> QED
    BY <1>1, <2>1, <2>2, BesideKeeps
<1>4. CASE UNCHANGED allVars
  BY <1>1, <1>4, BesideKeeps DEF allVars, attachVars
<1> QED
  BY <1>2, <1>3, <1>4, CreateSlotKeeps, CreateLogKeeps, StartPumpKeeps, BuildShapesKeeps,
     RunningKeeps DEF AttachNext, AttachStep

LEMMA InitAttach == AttachInit => AttachInv
<1> SUFFICES ASSUME AttachInit PROVE AttachInv
  OBVIOUS
<1>1. Empty /\ up = FALSE /\ slot \in BOOLEAN /\ at = "idle" /\ PipelineStart
  BY DEF AttachInit
<1>2. up \in BOOLEAN
  BY <1>1, Zenon
<1>3. IInv /\ TypeOK /\ durable.lsn = 0
  BY <1>1, <1>2, EmptyIInv DEF IInv, Empty, Unset
<1>4. PumpInv
  BY <1>1, <1>3, StartType, TypeParts DEF PumpInv
<1> QED
  BY <1>1, <1>4 DEF AttachInv

\* The invariant of an attach: whichever of its calls fails, whatever the
\* source, the pump and a restart of it do in between.
THEOREM AttachInductive == AttachSpec => []AttachInv
<1>1. AttachInv /\ [AttachNext]_allVars => AttachInv'
  BY AttachKeeps
<1> QED
  BY <1>1, InitAttach, PTL DEF AttachSpec

\* The ack law holds across attaches: a new slot is never told more than the
\* log it was given holds, also when attach fails between the two.
THEOREM AttachAcksCustody == AttachSpec => []AckIsCustody
<1>1. AttachInv => AckIsCustody
  BY PumpCustody DEF AttachInv
<1> QED
  BY <1>1, AttachInductive, PTL

\* Type correctness across attaches.
THEOREM AttachTypes == AttachSpec => []PipelineTypeOK
<1>1. AttachInv => PipelineTypeOK
  BY DEF AttachInv, PumpInv
<1> QED
  BY <1>1, AttachInductive, PTL

-----------------------------------------------------------------------------
(***************************************************************************)
(* A query against the pipeline that goes on under it.                     *)
(***************************************************************************)
LEMMA RowsShown ==
    ASSUME NEW n \in Nat, NEW a \in 0..n
    PROVE  Cardinality({t \in 1..n : EndOf(t) <= EndOf(a)}) = a
<1>1. {t \in 1..n : EndOf(t) <= EndOf(a)} = 1..a
  BY DEF EndOf
<1>2. Cardinality(1..a) = a
  BY FS_Interval
<1> QED
  BY <1>1, <1>2

LEMMA RowsType ==
    ASSUME NEW n \in Nat, NEW target
    PROVE  Cardinality({t \in 1..n : EndOf(t) <= target}) \in Nat
<1>1. IsFiniteSet(1..n) /\ {t \in 1..n : EndOf(t) <= target} \subseteq 1..n
  BY FS_Interval
<1> QED
  BY <1>1, FS_Subset, FS_CardinalityType

\* What the steps of the query itself do to the record they keep.
LEMMA AskKeeps ==
    ASSUME QueryInv, Ask
    PROVE  reader' \in Read /\ BoundedInv' /\ UNCHANGED vars
<1>1. wal \in Nat /\ WalHead \in Nat /\ Everything \in Nat
      /\ \A t \in 1..MaxTxn : EndOf(t) \in Nat
  BY TypeParts, BoundsAssumption DEF QueryInv, PumpInv, SessionType, WalHead, EndOf, Everything
<1>2. CASE AskEventual
  <2>1. reader' = [reader EXCEPT !.at = "resolved", !.class = "eventual", !.target = Everything]
    BY <1>2 DEF AskEventual
  <2>2. reader' \in Read /\ reader'.class = "eventual"
    BY <1>1, <2>1 DEF QueryInv, Read
  <2> QED
    BY <1>2, <2>2 DEF AskEventual, BoundedInv
<1>3. ASSUME NEW t \in 1..MaxTxn, AskTarget(EndOf(t))
      PROVE  reader' \in Read /\ BoundedInv' /\ UNCHANGED vars
  <2>1. reader' = [reader EXCEPT !.at = "resolved", !.class = "target", !.target = EndOf(t),
                                 !.commits = wal]
    BY <1>3 DEF AskTarget
  <2>2. reader' \in Read /\ reader'.class = "target"
    BY <1>1, <2>1 DEF QueryInv, Read
  <2> QED
    BY <1>3, <2>2 DEF AskTarget, BoundedInv
<1>4. ASSUME NEW class \in {"strong", "bounded"}, AskHead(class)
      PROVE  reader' \in Read /\ BoundedInv' /\ UNCHANGED vars
  <2>1. reader' = [reader EXCEPT !.at = IF class = "strong" THEN "poll" ELSE "head",
                                 !.class = class, !.barrier = WalHead, !.commits = wal]
    BY <1>4 DEF AskHead
  <2>2. reader' \in Read /\ reader'.class = class
        /\ reader'.at = IF class = "strong" THEN "poll" ELSE "head"
    BY <1>1, <2>1 DEF QueryInv, Read
  <2> QED
    BY <1>4, <2>2 DEF AskHead, BoundedInv
<1> QED
  BY <1>2, <1>3, <1>4 DEF Ask

LEMMA ServeKeeps ==
    ASSUME QueryInv, Serve
    PROVE  reader' \in Read /\ BoundedInv' /\ UNCHANGED vars
<1>1. /\ applied_lsn \in Nat /\ stream_lsn \in Nat /\ durable.lsn \in Nat
      /\ EndOf(applied_lsn) \in Nat /\ EndOf(durable.lsn) \in Nat /\ StaleBytes \in Nat
  <2>1. applied_lsn \in Nat /\ stream_lsn \in Nat /\ durable.lsn \in Nat
    BY DEF QueryInv, PumpInv, PipelineTypeOK, TypeOK, DurableMark
  <2> QED
    BY <2>1, StaleBytesAssumption DEF EndOf
<1>2. reader \in Read /\ reader.barrier \in Nat
  BY DEF QueryInv, Read
<1>3. CASE SamplePump
  <2>1. reader' = [reader EXCEPT !.at = "sampled", !.stream = IF up THEN stream_lsn ELSE 0,
                                 !.durable = IF up THEN durable.lsn ELSE 0]
        /\ reader.at = "poll"
    BY <1>3 DEF SamplePump
  <2>2. reader' \in Read /\ reader'.class = reader.class
    BY <1>1, <1>2, <2>1 DEF Read
  <2> QED
    BY <1>3, <2>1, <2>2 DEF SamplePump, BoundedInv, QueryInv
<1>4. CASE CompareApplied
  <2>1. reader.at = "sampled" /\ reader.class # "bounded"
    BY <1>4 DEF CompareApplied, BoundedInv, QueryInv
  <2>2. Greater(EndOf(applied_lsn), reader.barrier) \in Nat
    BY <1>1, <1>2 DEF Greater
  <2>3. reader' = [reader EXCEPT !.at = "resolved",
                                 !.target = Greater(EndOf(applied_lsn), reader.barrier)]
        \/ reader' = [reader EXCEPT !.at = "poll"]
    BY <1>4 DEF CompareApplied
  <2>4. reader' \in Read /\ reader'.class = reader.class
    BY <1>2, <2>2, <2>3 DEF Read
  <2> QED
    BY <1>4, <2>1, <2>4 DEF CompareApplied, BoundedInv
<1>5. CASE CompareLag
  <2>1. CASE reader.barrier <= EndOf(applied_lsn) + StaleBytes
    <3>1. reader' = [reader EXCEPT !.at = "resolved", !.target = EndOf(applied_lsn)]
      BY <1>5, <2>1 DEF CompareLag
    <3>2. reader' \in Read /\ reader'.at = "resolved" /\ reader'.target = EndOf(applied_lsn)
          /\ reader'.barrier = reader.barrier
      BY <1>1, <1>2, <3>1 DEF Read
    <3>3. UNCHANGED vars /\ applied_lsn' = applied_lsn
      BY <1>5 DEF CompareLag, vars, applyVars
    <3>4. \E a \in 0..applied_lsn' : /\ reader'.target = EndOf(a)
                                     /\ reader'.barrier <= EndOf(a) + StaleBytes
      BY <1>1, <2>1, <3>2, <3>3
    <3> QED
      BY <3>2, <3>3, <3>4 DEF BoundedInv
  <2>2. CASE ~(reader.barrier <= EndOf(applied_lsn) + StaleBytes)
    <3>1. reader' = [reader EXCEPT !.at = "refused"] /\ UNCHANGED vars
      BY <1>5, <2>2 DEF CompareLag
    <3>2. reader' \in Read /\ reader'.at = "refused"
      BY <1>2, <3>1 DEF Read
    <3> QED
      BY <3>1, <3>2 DEF BoundedInv
  <2> QED
    BY <2>1, <2>2
<1>6. CASE Capture
  <2> DEFINE rows == Cardinality({t \in 1..applied_lsn : EndOf(t) <= reader.target})
  <2>1. rows \in Nat
    BY <1>1, RowsType
  <2>2. reader' = [reader EXCEPT !.at = "captured", !.rows = rows] /\ reader.at = "resolved"
        /\ UNCHANGED vars
    BY <1>6 DEF Capture
  <2>3. ASSUME reader.class = "bounded"
        PROVE  reader.barrier <= EndOf(rows) + StaleBytes
    <3>1. PICK a \in 0..applied_lsn : /\ reader.target = EndOf(a)
                                      /\ reader.barrier <= EndOf(a) + StaleBytes
      BY <2>2, <2>3 DEF QueryInv, BoundedInv
    <3>2. rows = a
      BY <1>1, <3>1, RowsShown
    <3> QED
      BY <3>1, <3>2
  <2> HIDE DEF rows
  <2>4. reader' \in Read /\ reader'.at = "captured" /\ reader'.rows = rows
        /\ reader'.barrier = reader.barrier /\ reader'.class = reader.class
    BY <1>2, <2>1, <2>2 DEF Read
  <2> QED
    BY <2>2, <2>3, <2>4 DEF BoundedInv
<1>7. CASE Prove
  <2> DEFINE v == IF up /\ framed THEN EndOf(applied_lsn)
                  ELSE Greater(EndOf(applied_lsn), Received)
  <2>1. v \in Nat
    BY <1>1 DEF Greater, Received
  <2>2. reader' = [reader EXCEPT !.at = "answered", !.visible = v] /\ reader.at = "captured"
        /\ UNCHANGED vars
    BY <1>7 DEF Prove
  <2> HIDE DEF v
  <2>3. reader' \in Read /\ reader'.at = "answered" /\ reader'.rows = reader.rows
        /\ reader'.barrier = reader.barrier /\ reader'.class = reader.class
    BY <1>2, <2>1, <2>2 DEF Read
  <2> QED
    BY <2>2, <2>3 DEF BoundedInv, QueryInv
<1> QED
  BY <1>3, <1>4, <1>5, <1>6, <1>7 DEF Serve

LEMMA QueryKeeps ==
    ASSUME QueryInv, [QueryNext]_readVars
    PROVE  QueryInv'
<1>1. CASE [PipelineNext]_vars /\ UNCHANGED reader
  <2>1. PumpInv' /\ applied_lsn <= applied_lsn' /\ applied_lsn \in Nat /\ applied_lsn' \in Nat
    <3>1. PumpInv' /\ applied_lsn <= applied_lsn'
      BY <1>1, PumpKeeps DEF QueryInv
    <3>2. ApplyType /\ ApplyType'
      BY <3>1, TypeParts, TypePartsNext DEF QueryInv, PumpInv
    <3> QED
      BY <3>1, <3>2 DEF ApplyType
  <2>2. BoundedInv'
    <3> SUFFICES ASSUME reader.class = "bounded"
                 PROVE  BoundedInv'
      BY <1>1 DEF BoundedInv
    <3>1. ASSUME reader.at = "resolved"
          PROVE  \E a \in 0..applied_lsn' : /\ reader.target = EndOf(a)
                                            /\ reader.barrier <= EndOf(a) + StaleBytes
      <4>1. PICK a \in 0..applied_lsn : /\ reader.target = EndOf(a)
                                        /\ reader.barrier <= EndOf(a) + StaleBytes
        BY <3>1 DEF QueryInv, BoundedInv
      <4>2. a \in 0..applied_lsn'
        BY <2>1
      <4> QED
        BY <4>1, <4>2
    <3> QED
      BY <1>1, <3>1 DEF QueryInv, BoundedInv
  <2> QED
    BY <1>1, <2>1, <2>2 DEF QueryInv
<1>2. ASSUME reader' \in Read, BoundedInv', UNCHANGED vars
      PROVE  QueryInv'
  <2>1. PumpInv'
    BY <1>2, PumpKeeps DEF QueryInv
  <2> QED
    BY <1>2, <2>1 DEF QueryInv
<1>3. CASE Ask \/ Serve
  BY <1>2, <1>3, AskKeeps, ServeKeeps
<1>4. CASE UNCHANGED readVars
  <2>1. [PipelineNext]_vars /\ UNCHANGED reader
    BY <1>4 DEF readVars
  <2> QED
    BY <1>1, <2>1
<1> QED
  BY <1>1, <1>3, <1>4 DEF QueryNext

LEMMA InitQuery == QueryInit => QueryInv
BY InitPump DEF QueryInit, QueryInv, NoRead, Read, BoundedInv

LEMMA QueryFresh == QueryInv => BoundedIsFresh
<1> SUFFICES ASSUME QueryInv, reader.at = "answered", reader.class = "bounded",
                    NEW t \in 1..MaxTxn, EndOf(t) + StaleBytes <= reader.barrier
             PROVE  t <= reader.rows
  BY DEF BoundedIsFresh
<1>1. reader.barrier \in Nat /\ reader.rows \in Nat /\ t \in Nat /\ StaleBytes \in Nat
  BY StaleBytesAssumption DEF QueryInv, Read
<1>2. reader.barrier <= EndOf(reader.rows) + StaleBytes
  BY DEF QueryInv, BoundedInv
<1> QED
  BY <1>1, <1>2 DEF EndOf

\* What a bounded read has resolved stays true until its snapshot.
THEOREM QueryInductive == QuerySpec => []QueryInv
<1>1. QueryInv /\ [QueryNext]_readVars => QueryInv'
  BY QueryKeeps
<1> QED
  BY <1>1, InitQuery, PTL DEF QuerySpec

\* A bounded read keeps its bound although its lag is measured in one sample,
\* its snapshot taken in another, and the pipeline moves on in between.
THEOREM BoundedReads == QuerySpec => []BoundedIsFresh
BY QueryInductive, QueryFresh, PTL

-----------------------------------------------------------------------------
(***************************************************************************)
(* What a read finds.                                                      *)
(***************************************************************************)
\* A longer prefix of a segment has more bytes.
LEMMA BytesGrow ==
    ASSUME NEW s \in Seq(Frame), NEW i \in 0..Len(s), NEW j \in 0..Len(s), i < j
    PROVE  Bytes(SubSeq(s, 1, i)) < Bytes(SubSeq(s, 1, j))
<1> DEFINE relations(k) == {x \in DOMAIN SubSeq(s, 1, k) : SubSeq(s, 1, k)[x].payload = "relation"}
<1>1. \A k \in 0..Len(s) : /\ DOMAIN SubSeq(s, 1, k) = 1..k /\ Len(SubSeq(s, 1, k)) = k
                           /\ \A x \in 1..k : SubSeq(s, 1, k)[x] = s[x]
  OBVIOUS
<1>2. /\ \A x \in relations(i) : x \in relations(j)
      /\ relations(i) \subseteq 1..i /\ relations(j) \subseteq 1..j
  BY <1>1
<1>3. IsFiniteSet(relations(i)) /\ IsFiniteSet(relations(j))
  <2>1. IsFiniteSet(1..i) /\ IsFiniteSet(1..j)
    BY FS_Interval
  <2> HIDE DEF relations
  <2> QED
    BY <1>2, <2>1, FS_Subset
<1>4. /\ Bytes(SubSeq(s, 1, i)) = i + (RelationSize - 1) * Cardinality(relations(i))
      /\ Bytes(SubSeq(s, 1, j)) = j + (RelationSize - 1) * Cardinality(relations(j))
  BY <1>1 DEF Bytes
<1> HIDE DEF relations
<1>5. /\ Cardinality(relations(i)) \in Nat /\ Cardinality(relations(j)) \in Nat
      /\ Cardinality(relations(i)) <= Cardinality(relations(j))
  <2>1. relations(i) \subseteq relations(j)
    BY <1>2
  <2> QED
    BY <1>3, <2>1, FS_Subset, FS_CardinalityType
<1>6. PICK a \in Nat, e \in Nat, r \in Nat : /\ a = Cardinality(relations(i))
                                             /\ a + e = Cardinality(relations(j))
                                             /\ r = RelationSize - 1
  <2>1. Cardinality(relations(j)) - Cardinality(relations(i)) \in Nat /\ RelationSize - 1 \in Nat
    BY <1>5, RelationSizeAssumption
  <2>2. \A a, b \in Nat : b - a \in Nat => a + (b - a) = b
    OBVIOUS
  <2> QED
    BY <1>5, <2>1, <2>2
<1>7. r * (a + e) = r * a + r * e /\ r * e \in Nat /\ r * a \in Nat
  OBVIOUS
<1>8. /\ Bytes(SubSeq(s, 1, i)) = i + r * a
      /\ Bytes(SubSeq(s, 1, j)) = j + r * (a + e)
  BY <1>4, <1>6
<1>9. \A x, y \in Nat : i + x < j + (x + y)
  OBVIOUS
<1> QED
  BY <1>7, <1>8, <1>9

LEMMA BytesEnds ==
    ASSUME NEW s \in Seq(Frame)
    PROVE  /\ SubSeq(s, 1, Len(s)) = s /\ SubSeq(s, 1, 0) = <<>>
           /\ Bytes(<<>>) = 0
           /\ \A i \in 0..Len(s) : Bytes(SubSeq(s, 1, i)) \in Nat /\ Bytes(SubSeq(s, 1, i)) <= Bytes(s)
<1>1. SubSeq(s, 1, Len(s)) = s /\ SubSeq(s, 1, 0) = <<>> /\ Len(s) \in Nat
  OBVIOUS
<1>2. Bytes(<<>>) = 0
  <2>1. {i \in DOMAIN << >> : << >>[i].payload = "relation"} = {} /\ Len(<< >>) = 0
    OBVIOUS
  <2>2. Cardinality({}) = 0
    BY FS_EmptySet
  <2>3. (RelationSize - 1) * 0 = 0
    BY RelationSizeAssumption
  <2> QED
    BY <2>1, <2>2, <2>3 DEF Bytes
<1>3. ASSUME NEW i \in 0..Len(s)
      PROVE  Bytes(SubSeq(s, 1, i)) \in Nat /\ Bytes(SubSeq(s, 1, i)) <= Bytes(s)
  <2>1. SubSeq(s, 1, i) \in Seq(Frame)
    OBVIOUS
  <2>2. Bytes(SubSeq(s, 1, i)) \in Nat /\ Bytes(s) \in Nat
    BY <2>1, BytesType
  <2>3. CASE i = Len(s)
    <3>1. SubSeq(s, 1, i) = s
      BY <1>1, <2>3, Zenon
    <3>2. \A x \in Nat : x <= x
      OBVIOUS
    <3> QED
      BY <2>2, <3>1, <3>2
  <2>4. CASE i # Len(s)
    <3>1. i < Len(s) /\ Len(s) \in 0..Len(s)
      BY <2>4
    <3>2. Bytes(SubSeq(s, 1, i)) < Bytes(SubSeq(s, 1, Len(s)))
      BY <3>1, BytesGrow
    <3>3. Bytes(SubSeq(s, 1, i)) < Bytes(s)
      BY <1>1, <3>2, Zenon
    <3> QED
      BY <2>2, <3>3
  <2> QED
    BY <2>3, <2>4
<1> QED
  BY <1>1, <1>2, <1>3

\* Where a frame begins, decoding starts with it.
LEMMA FromFrame ==
    ASSUME NEW s \in Seq(Frame), NEW j \in 0..Len(s)
    PROVE  /\ Decodes(s, Bytes(SubSeq(s, 1, j)))
           /\ From(s, Bytes(SubSeq(s, 1, j))) = SubSeq(s, j + 1, Len(s))
<1> DEFINE o == Bytes(SubSeq(s, 1, j))
<1>1. j \in FramesBefore(s, o)
  BY DEF FramesBefore
<1>2. \A i \in FramesBefore(s, o) : i = j
  <2> SUFFICES ASSUME NEW i \in 0..Len(s), Bytes(SubSeq(s, 1, i)) = o PROVE i = j
    BY DEF FramesBefore
  <2>1. Bytes(SubSeq(s, 1, i)) \in Nat
    BY BytesEnds
  <2>2. ~(i < j) /\ ~(j < i)
    BY <2>1, BytesGrow
  <2> QED
    BY <2>2
<1>3. (CHOOSE i \in FramesBefore(s, o) : TRUE) = j
  BY <1>1, <1>2
<1> QED
  BY <1>1, <1>3 DEF Decodes, From

\* The reading cursor of a tail that is at a frame is the tail's own.
LEMMA AtFrameKept ==
    ASSUME TypeOK, NEW c \in LogCursor, NEW p, AtFrame(files, c, p)
    PROVE  /\ ~Shrunk(files, c) /\ Clamped(files, c) = c
           /\ p \in Nat /\ c.current <= p /\ p <= c.current + Len(files[c.current])
<1>1. PICK j \in 0..Len(files[c.current]) :
         c.offset = Bytes(SubSeq(files[c.current], 1, j)) /\ p = c.current + j
  BY DEF AtFrame
<1>2. c.current \in DOMAIN files /\ c.current \in Nat /\ files[c.current] \in Seq(Frame)
      /\ Len(files[c.current]) \in Nat
  BY DiskPlaces DEF AtFrame
<1>3. c.offset \in Nat /\ c.offset <= Bytes(files[c.current]) /\ Bytes(files[c.current]) \in Nat
  BY <1>1, <1>2, BytesEnds, BytesType
<1> QED
  BY <1>1, <1>2, <1>3 DEF Shrunk, Clamped

\* The end of a file that has not lost what the tail had read of it.
LEMMA AtFrameEnd ==
    ASSUME TypeOK, NEW n \in DOMAIN files
    PROVE  AtFrame(files, [current |-> n, offset |-> Bytes(files[n])], n + Len(files[n]))
<1>1. files[n] \in Seq(Frame) /\ Len(files[n]) \in 0..Len(files[n])
  BY DiskPlaces
<1> QED
  BY <1>1, BytesEnds DEF AtFrame

\* The files after n hold the frames from where n ends to the end, in order.
LEMMA FramesAfterRead ==
    ASSUME TypeOK, Geometry, NEW n \in DOMAIN files
    PROVE  LET rest == FramesAfter(files, n)
               q == n + Len(files[n])
           IN  /\ rest \in Seq(Frame) /\ q \in Nat /\ q + Len(rest) = End
               /\ \A k \in 1..Len(rest) : rest[k] \in OnDisk /\ rest[k].seq = q + k - 1
<1> DEFINE d == cur - n
           q == n + Len(files[n])
           part(k) == IF n + k \in DOMAIN files THEN files[n + k] ELSE <<>>
           seqs == [k \in 1..d |-> part(k)]
           rest == FramesAfter(files, n)
<1>1. /\ cur \in DOMAIN files /\ LastSegment(files) = cur /\ d \in Nat /\ q \in Nat /\ cur \in Nat /\ n \in Nat
      /\ n <= cur
      /\ \A m \in DOMAIN files : /\ m \in Nat /\ m <= cur /\ files[m] \in Seq(Frame)
                                 /\ Len(files[m]) \in Nat /\ DOMAIN files[m] = 1..Len(files[m])
  BY Segments, DiskPlaces DEF Geometry
<1>2. End \in Nat /\ End = cur + Len(files[cur])
  BY <1>1 DEF End
<1>3. /\ Len(seqs) = d /\ \A k \in 1..d : seqs[k] = part(k) /\ part(k) \in Seq(Frame)
      /\ rest = FlattenSeq(seqs)
  <2>1. \A k \in 1..d : part(k) \in Seq(Frame)
    BY <1>1
  <2>2. Len(seqs) = d
    BY <1>1
  <2> QED
    BY <1>1, <2>1, <2>2 DEF FramesAfter
<1>4. seqs \in Seq(Seq(Frame))
  <2> HIDE DEF part
  <2> DEFINE T == Seq(Frame)
  <2>1. d \in Nat /\ \A k \in 1..d : part(k) \in T
    BY <1>1, <1>3
  <2> HIDE DEF T, d
  <2>2. [k \in 1..d |-> part(k)] \in Seq(T)
    BY <2>1, IsASeq
  <2> QED
    BY <2>2 DEF T
<1>5. rest \in Seq(Frame)
  BY <1>3, <1>4, FlattenType
<1>8. \A m, l \in DOMAIN files : m < l => m + Len(files[m]) <= l
  BY DEF Geometry, Tiled
<1>9. q = n + Len(files[n]) /\ d = cur - n
  OBVIOUS
<1> HIDE DEF d, q, part, seqs, rest
<1>6. CASE d = 0
  <2>1. rest = <<>> /\ Len(<<>>) = 0
    BY <1>3, <1>6 DEF FlattenSeq
  <2>2. n = cur
    BY <1>1, <1>6, <1>9
  <2>3. q + Len(rest) = End
    BY <1>1, <1>2, <1>9, <2>1, <2>2
  <2> QED
    BY <1>1, <1>5, <2>1, <2>3 DEF q, rest
<1>7. CASE d # 0
  <2>1. PICK h \in [1..d -> Seq(Frame)] : /\ h[1] = seqs[1]
                                          /\ \A i \in 2..d : h[i] = h[i - 1] \o seqs[i]
                                          /\ rest = h[d]
    <3>1. Len(seqs) = d /\ Len(seqs) # 0
      BY <1>3, <1>7
    <3>2. \E h \in [1..Len(seqs) -> Seq(Frame)] :
             /\ h[1] = seqs[1]
             /\ \A i \in 2..Len(seqs) : h[i] = h[i - 1] \o seqs[i]
             /\ FlattenSeq(seqs) = h[Len(seqs)]
      BY <1>4, <3>1, FlattenRun
    <3> QED
      BY <1>3, <3>1, <3>2
  <2> DEFINE Good(i, s) ==
               /\ \A k \in 1..Len(s) : s[k] \in OnDisk /\ s[k].seq = q + k - 1
               /\ \A m \in DOMAIN files : m <= n + i => m + Len(files[m]) <= q + Len(s)
               /\ \E m \in DOMAIN files : m <= n + i /\ m + Len(files[m]) = q + Len(s)
             H == [i \in 0..d |-> IF i = 0 THEN <<>> ELSE h[i]]
             G == {i \in 0..d : Good(i, H[i])}
  <2>3. 0 \in G
    <3>1. ASSUME NEW m \in DOMAIN files, m <= n PROVE m + Len(files[m]) <= q
      <4>1. m \in Nat /\ Len(files[m]) \in Nat /\ Len(files[n]) \in Nat
        BY <1>1
      <4>2. CASE m = n
        BY <1>1, <1>9, <4>1, <4>2
      <4>3. CASE m # n
        <5>1. m < n
          BY <1>1, <3>1, <4>1, <4>3
        <5>2. m + Len(files[m]) <= n
          BY <1>8, <5>1
        <5> QED
          BY <1>1, <1>9, <4>1, <5>2
      <4> QED
        BY <4>2, <4>3
    <3>2. H[0] = <<>> /\ Len(<<>>) = 0
      BY <1>1
    <3>4. n <= n + 0 /\ n + Len(files[n]) = q + Len(<<>>) /\ n + 0 = n
      BY <1>1, <1>9, <3>2
    <3>5. \A k \in 1..Len(<<>>) : FALSE
      BY <3>2
    <3>6. \A m \in DOMAIN files : m <= n + 0 => m + Len(files[m]) <= q + Len(<<>>)
      BY <1>1, <3>1, <3>2, <3>4
    <3>3. Good(0, <<>>)
      BY <3>4, <3>5, <3>6
    <3>7. 0 \in 0..d /\ Good(0, H[0])
      BY <1>1, <3>2, <3>3
    <3> HIDE DEF Good, H
    <3> QED
      BY <3>7
  <2>4. ASSUME NEW i \in 0..(d - 1), i \in G PROVE i + 1 \in G
    <3>1. i \in Nat /\ i + 1 \in 1..d /\ i + 1 \in 0..d /\ i \in 0..d /\ (i + 1) - 1 = i /\ i + 1 # 0
      BY <1>1, <1>7
    <3> DEFINE s == H[i]
               t == H[i + 1]
    <3>2. Good(i, s)
      BY <2>4
    <3>3. s \in Seq(Frame) /\ t = s \o part(i + 1)
      <4>1. CASE i = 0
        <5>1. s = <<>> /\ t = h[1] /\ h[1] = part(1) /\ part(1) \in Seq(Frame)
          BY <1>3, <2>1, <3>1, <4>1
        <5>2. \A x \in Seq(Frame) : <<>> \o x = x
          OBVIOUS
        <5>3. i + 1 = 1
          BY <4>1
        <5> HIDE DEF s, t
        <5> QED
          BY <5>1, <5>2, <5>3
      <4>2. CASE i # 0
        <5>1. i + 1 \in 2..d /\ i \in 1..d
          BY <3>1, <4>2
        <5>2. t = h[i + 1] /\ s = h[i] /\ h[i + 1] = h[i] \o seqs[i + 1] /\ h[i] \in Seq(Frame)
          BY <2>1, <3>1, <4>2, <5>1
        <5> HIDE DEF s, t
        <5> QED
          BY <1>3, <3>1, <5>2
      <4> QED
        BY <4>1, <4>2
    <3>4. H[i + 1] = t
      OBVIOUS
    <3> HIDE DEF s, t, H
    <3>5. Len(s) \in Nat
      BY <3>3
    <3>6. CASE n + (i + 1) \notin DOMAIN files
      <4>1. t = s
        <5>1. part(i + 1) = <<>>
          BY <3>6 DEF part
        <5>2. \A x \in Seq(Frame) : x \o <<>> = x
          OBVIOUS
        <5> QED
          BY <3>3, <5>1, <5>2
      <4>2. ASSUME NEW m \in DOMAIN files PROVE m <= n + (i + 1) <=> m <= n + i
        <5>1. m \in Nat /\ m # n + (i + 1) /\ n \in Nat
          BY <1>1, <3>6
        <5> QED
          BY <3>1, <5>1
      <4>3. Good(i + 1, t)
        BY <3>2, <4>1, <4>2
      <4> HIDE DEF Good
      <4> QED
        BY <3>1, <3>4, <4>3
    <3>7. CASE n + (i + 1) \in DOMAIN files
      <4> DEFINE m == n + (i + 1)
      <4>0. n \in Nat /\ q \in Nat
        BY <1>1
      <4>1. m \in DOMAIN files /\ m \in Nat /\ files[m] \in Seq(Frame) /\ Len(files[m]) \in Nat
            /\ part(i + 1) = files[m] /\ m = n + i + 1
        <5>1. m = n + i + 1
          BY <3>1, <4>0
        <5>2. part(i + 1) = files[m]
          BY <3>7 DEF part
        <5> QED
          BY <1>1, <3>7, <5>1, <5>2
      <4>2. PICK l \in DOMAIN files : l <= n + i /\ l + Len(files[l]) = q + Len(s)
        BY <3>2
      <4> HIDE DEF m
      <4>3. l \in Nat /\ q + Len(s) <= m
        <5>1. l \in Nat /\ m \in DOMAIN files /\ m \in Nat /\ l < m
          <6>1. l \in Nat /\ l <= n + i
            BY <1>1, <4>2
          <6>2. m \in DOMAIN files /\ m \in Nat /\ m = n + i + 1
            BY <4>1
          <6> QED
            BY <3>1, <4>0, <6>1, <6>2
        <5>2. l + Len(files[l]) <= m
          BY <1>8, <5>1
        <5> QED
          BY <4>2, <5>1, <5>2
      <4>4. q + Len(s) = m
        <5> SUFFICES ASSUME q + Len(s) < m PROVE FALSE
          BY <3>5, <4>0, <4>1, <4>3
        <5>1. m <= End
          BY <1>1, <1>2, <4>1
        <5>2. q + Len(s) \in 0..(End - 1)
          BY <1>2, <3>5, <4>0, <4>1, <5>1
        <5>3. PICK x \in DOMAIN files : x <= q + Len(s) /\ q + Len(s) < x + Len(files[x])
          BY <5>2 DEF Geometry, Tiled
        <5>4. x \in Nat /\ x <= n + i
          <6>1. x \in Nat
            BY <1>1
          <6> QED
            BY <3>1, <3>5, <4>0, <4>1, <5>3, <6>1
        <5>5. x + Len(files[x]) <= q + Len(s)
          BY <3>2, <5>4
        <5>6. Len(files[x]) \in Nat
          BY <1>1
        <5> QED
          BY <3>5, <4>0, <5>3, <5>4, <5>5, <5>6
      <4>5. t = s \o files[m]
        BY <3>3, <4>1
      <4>6. /\ Len(t) = Len(s) + Len(files[m])
            /\ \A k \in 1..Len(s) : t[k] = s[k]
            /\ \A k \in 1..Len(t) : k > Len(s) => /\ k - Len(s) \in 1..Len(files[m])
                                                  /\ t[k] = files[m][k - Len(s)]
        <5>1. s \in Seq(Frame) /\ files[m] \in Seq(Frame)
          BY <3>3, <4>1
        <5> QED
          BY <4>5, <5>1, ConcatProperties
      <4>7. \A k \in 1..Len(t) : t[k] \in OnDisk /\ t[k].seq = q + k - 1
        <5> SUFFICES ASSUME NEW k \in 1..Len(t) PROVE t[k] \in OnDisk /\ t[k].seq = q + k - 1
          OBVIOUS
        <5>1. CASE k <= Len(s)
          <6>1. k \in 1..Len(s)
            BY <3>5, <5>1
          <6> QED
            BY <3>2, <4>6, <6>1
        <5>2. CASE k > Len(s)
          <6>1. k - Len(s) \in 1..Len(files[m]) /\ t[k] = files[m][k - Len(s)]
            BY <4>6, <5>2
          <6>2. files[m][k - Len(s)].seq = m + (k - Len(s)) - 1
            BY <4>1, <6>1 DEF Geometry, Contiguous
          <6>3. files[m][k - Len(s)] \in OnDisk
            BY <4>1, <6>1, DiskPlaces
          <6> QED
            BY <1>1, <3>5, <4>1, <4>4, <6>1, <6>2, <6>3
        <5> QED
          BY <3>5, <4>1, <4>6, <5>1, <5>2
      <4>8. m + Len(files[m]) = q + Len(t)
        BY <1>1, <3>5, <4>1, <4>4, <4>6
      <4>9. \A x \in DOMAIN files : x <= m => x + Len(files[x]) <= q + Len(t)
        <5> SUFFICES ASSUME NEW x \in DOMAIN files, x <= m PROVE x + Len(files[x]) <= q + Len(t)
          OBVIOUS
        <5>1. x \in Nat /\ Len(files[x]) \in Nat
          BY <1>1
        <5>2. CASE x = m
          BY <1>1, <4>1, <4>8, <5>1, <5>2
        <5>3. CASE x # m
          <6>1. x < m
            BY <4>1, <5>1, <5>3
          <6>2. x + Len(files[x]) <= m
            BY <1>8, <4>1, <6>1
          <6> QED
            BY <4>1, <4>8, <5>1, <6>2
        <5> QED
          BY <5>2, <5>3
      <4>11. m = n + (i + 1) /\ m <= m
        BY <3>1, <4>0, <4>1
      <4>10. Good(i + 1, t)
        BY <4>1, <4>7, <4>8, <4>9, <4>11
      <4> HIDE DEF Good
      <4> QED
        BY <3>1, <3>4, <4>10
    <3> QED
      BY <3>6, <3>7
  <2> HIDE DEF G
  <2>5. d \in G
    <3>1. \A i \in 0..d : i \in G
      BY <1>1, <2>3, <2>4, IntervalInduction
    <3> QED
      BY <1>1, <3>1
  <2>6. Good(d, rest)
    BY <1>1, <1>7, <2>1, <2>5 DEF G
  <2>7. q + Len(rest) = End
    <3>1. PICK m \in DOMAIN files : m + Len(files[m]) = q + Len(rest)
      BY <2>6
    <3>2. End <= q + Len(rest)
      <4>1. cur <= n + d
        BY <1>1, <1>9
      <4> QED
        BY <1>1, <1>2, <2>6, <4>1
    <3>3. m + Len(files[m]) <= End
      <4>1. CASE m = cur
        BY <1>1, <1>2, <4>1
      <4>2. CASE m # cur
        <5>1. m < cur
          BY <1>1, <4>2
        <5> QED
          BY <1>1, <1>2, <1>8, <5>1
      <4> QED
        BY <4>1, <4>2
    <3>4. q + Len(rest) \in Nat /\ End \in Nat
      BY <1>1, <1>2, <1>5
    <3> QED
      BY <3>1, <3>2, <3>3, <3>4
  <2> QED
    BY <1>1, <1>5, <2>6, <2>7 DEF q, rest
<1> QED
  BY <1>1, <1>6, <1>7
\* A read from where a frame begins: the frames from there to the end.
LEMMA ReadAtFrame ==
    ASSUME TypeOK, Geometry, NEW t, NEW c \in LogCursor, NEW p, AtFrame(files, c, p)
    PROVE  LET batch == ReadNew(files, t, c) IN
           /\ batch.frames \in Seq(Frame) /\ p \in Nat /\ p + Len(batch.frames) = End
           /\ \A k \in 1..Len(batch.frames) :
                 batch.frames[k] \in OnDisk /\ batch.frames[k].seq = p + k - 1
           /\ batch.rewound = (Gone(files, t) \/ Shrunk(files, Established(files, t)))
           /\ batch.corrupt = FALSE
           /\ batch.tail = [current |-> cur, offset |-> Bytes(files[cur])]
<1> DEFINE n == c.current
           s == files[n]
           rest == FramesAfter(files, n)
           batch == ReadNew(files, t, c)
<1>1. PICK j \in 0..Len(s) : c.offset = Bytes(SubSeq(s, 1, j)) /\ p = n + j
  BY DEF AtFrame
<1>2. /\ n \in DOMAIN files /\ n \in Nat /\ s \in Seq(Frame) /\ Len(s) \in Nat
      /\ LastSegment(files) = cur
  BY DiskPlaces, Segments DEF AtFrame, Geometry
<1>3. Decodes(s, c.offset) /\ From(s, c.offset) = SubSeq(s, j + 1, Len(s))
  BY <1>1, <1>2, FromFrame
<1> DEFINE first == SubSeq(s, j + 1, Len(s))
<1>4. /\ batch.frames = first \o rest
      /\ batch.rewound = (Gone(files, t) \/ Shrunk(files, Established(files, t)))
      /\ batch.corrupt = FALSE
      /\ batch.tail = [current |-> cur, offset |-> Bytes(files[cur])]
  BY <1>2, <1>3 DEF ReadNew
<1>10. n + Len(s) + Len(rest) = End /\ rest \in Seq(Frame)
       /\ \A k \in 1..Len(rest) : rest[k] \in OnDisk /\ rest[k].seq = n + Len(s) + k - 1
  BY <1>2, FramesAfterRead
<1> HIDE DEF rest, batch
<1>5. /\ first \in Seq(Frame) /\ Len(first) = Len(s) - j
      /\ \A k \in 1..Len(first) : first[k] = s[j + k] /\ j + k \in 1..Len(s)
  <2> HIDE DEF s, n
  <2>1. j \in 0..Len(s) /\ s \in Seq(Frame)
    BY <1>1, <1>2
  <2> QED
    BY <2>1
<1>6. Len(rest) \in Nat /\ Len(first) \in Nat
  BY <1>5, <1>10
<1> HIDE DEF first, rest, batch, s, n
<1>7. /\ first \o rest \in Seq(Frame)
      /\ Len(first \o rest) = Len(first) + Len(rest)
      /\ \A k \in 1..Len(first) : (first \o rest)[k] = first[k]
      /\ \A k \in 1..Len(first \o rest) : k > Len(first) =>
            k - Len(first) \in 1..Len(rest) /\ (first \o rest)[k] = rest[k - Len(first)]
  <2>1. first \in Seq(Frame) /\ rest \in Seq(Frame)
    BY <1>5, <1>10
  <2> QED
    BY <2>1, ConcatProperties
<1>8. p + Len(first \o rest) = End /\ p \in Nat
  BY <1>1, <1>2, <1>5, <1>6, <1>7, <1>10
<1>9. ASSUME NEW k \in 1..Len(first \o rest)
      PROVE  (first \o rest)[k] \in OnDisk /\ (first \o rest)[k].seq = p + k - 1
  <2>1. CASE k <= Len(first)
    <3>1. k \in 1..Len(first)
      BY <2>1
    <3>2. (first \o rest)[k] = s[j + k] /\ j + k \in 1..Len(s)
      BY <1>5, <1>7, <3>1
    <3>3. s[j + k].seq = n + (j + k) - 1
      BY <1>2, <3>2 DEF Geometry, Contiguous, s
    <3>4. s[j + k] \in OnDisk
      BY <1>2, <3>2, DiskPlaces DEF s
    <3> QED
      BY <1>1, <1>2, <3>2, <3>3, <3>4
  <2>2. CASE k > Len(first)
    <3>1. k - Len(first) \in 1..Len(rest) /\ (first \o rest)[k] = rest[k - Len(first)]
      BY <1>7, <2>2
    <3>2. rest[k - Len(first)].seq = n + Len(s) + (k - Len(first)) - 1
      BY <1>10, <3>1
    <3>3. rest[k - Len(first)] \in OnDisk
      BY <1>10, <3>1
    <3>4. n + Len(s) + (k - Len(first)) - 1 = p + k - 1
      BY <1>1, <1>2, <1>5, <1>6
    <3> QED
      BY <3>1, <3>2, <3>3, <3>4
  <2> QED
    BY <1>5, <2>1, <2>2
<1> QED
  BY <1>4, <1>7, <1>8, <1>9 DEF batch, first

-----------------------------------------------------------------------------
(***************************************************************************)
(* What the decoder makes of the log, frame by frame.                      *)
(***************************************************************************)
\* A frame where the decoder expects it, by its kind.
LEMMA FeedBegin ==
    ASSUME NEW b \in Outcome, NEW f \in Frame, b.error = "none", f.seq = b.decoder.next_seq,
           f.payload = "begin"
    PROVE  LET out == FeedFrame(b, f) IN
           /\ out.error = "none" /\ out.changes = b.changes /\ out.lsn = b.lsn
           /\ out.decoder = [b.decoder EXCEPT !.next_seq = f.seq + 1, !.started = TRUE,
                                              !.txn = NewTxn]
<1> DEFINE d == b.decoder
           next == [b EXCEPT !.decoder.next_seq = f.seq + 1, !.decoder.started = TRUE]
<1>1. d \in DecoderState
  BY DEF Outcome
<1>2. next = [b EXCEPT !.decoder = [d EXCEPT !.next_seq = f.seq + 1, !.started = TRUE]]
  BY <1>1 DEF Outcome, DecoderState
<1>3. FeedFrame(b, f) = OnBegin(next)
  BY DEF FeedFrame, Message
<1> HIDE DEF next
<1> QED
  BY <1>1, <1>2, <1>3 DEF OnBegin, Outcome, DecoderState

LEMMA FeedRelation ==
    ASSUME NEW b \in Outcome, NEW f \in Frame, b.error = "none", f.seq = b.decoder.next_seq,
           f.payload = "relation", b.decoder.txn # NoTxn
    PROVE  LET out == FeedFrame(b, f) IN
           /\ out.error = "none" /\ out.changes = b.changes /\ out.lsn = b.lsn
           /\ out.decoder.next_seq = f.seq + 1 /\ out.decoder.started = TRUE
           /\ out.decoder.last_commit_seq = b.decoder.last_commit_seq
           /\ out.decoder.live_rel = SchemaOf(f.txn)
           /\ out.decoder.txn # NoTxn /\ out.decoder.txn.changes = b.decoder.txn.changes
           /\ out.decoder.txn.relations = Append(b.decoder.txn.relations, SchemaOf(f.txn))
           /\ out.decoder.registry = b.decoder.registry
<1> DEFINE d == b.decoder
           e == [d EXCEPT !.next_seq = f.seq + 1, !.started = TRUE]
           next == [b EXCEPT !.decoder.next_seq = f.seq + 1, !.decoder.started = TRUE]
           t == [d.txn EXCEPT !.relations = Append(d.txn.relations, SchemaOf(f.txn))]
<1>1. d \in DecoderState
  BY DEF Outcome
<1>2. next = [b EXCEPT !.decoder = e]
  BY <1>1 DEF Outcome, DecoderState
<1>3. FeedFrame(b, f) = OnRelation(next, f)
  BY DEF FeedFrame, Message
<1> DEFINE fed == [e EXCEPT !.live_rel = SchemaOf(f.txn), !.txn = t]
<1>5. OnRelation(next, f) = [b EXCEPT !.decoder = fed]
  <2> HIDE DEF next
  <2> QED
    BY <1>1, <1>2 DEF OnRelation, Outcome, DecoderState
<1>6. d.txn \in TxnBuf /\ f.txn \in Nat
  BY <1>1, FrameFields DEF DecoderState
<1>7. /\ t \in TxnBuf /\ t.changes = d.txn.changes
      /\ t.relations = Append(d.txn.relations, SchemaOf(f.txn))
  <2>1. SchemaOf(f.txn) \in Nat
    BY <1>6, SchemaOfType
  <2>2. Append(d.txn.relations, SchemaOf(f.txn)) \in Seq(Nat)
    BY <1>6, <2>1 DEF TxnBuf
  <2> QED
    BY <1>6, <2>2 DEF TxnBuf
<1> HIDE DEF t, next
<1>8. t # NoTxn
  BY <1>7, NoTxnAssumption
<1>9. /\ fed.next_seq = f.seq + 1 /\ fed.started = TRUE /\ fed.last_commit_seq = d.last_commit_seq
      /\ fed.live_rel = SchemaOf(f.txn) /\ fed.txn = t /\ fed.registry = d.registry
  BY <1>1 DEF DecoderState
<1> HIDE DEF fed
<1> QED
  BY <1>3, <1>5, <1>7, <1>8, <1>9 DEF Outcome

LEMMA FeedChange ==
    ASSUME NEW b \in Outcome, NEW f \in Frame, b.error = "none", f.seq = b.decoder.next_seq,
           f.payload = "change", b.decoder.txn # NoTxn, b.decoder.live_rel # 0
    PROVE  LET out == FeedFrame(b, f) IN
           /\ out.error = "none" /\ out.changes = b.changes /\ out.lsn = b.lsn
           /\ out.decoder.next_seq = f.seq + 1 /\ out.decoder.started = TRUE
           /\ out.decoder.last_commit_seq = b.decoder.last_commit_seq
           /\ out.decoder.live_rel = b.decoder.live_rel
           /\ out.decoder.txn # NoTxn
           /\ out.decoder.txn.changes =
                 Append(b.decoder.txn.changes, [row |-> f.txn, schema |-> b.decoder.live_rel])
           /\ out.decoder.txn.relations = b.decoder.txn.relations
           /\ out.decoder.registry = b.decoder.registry
<1> DEFINE d == b.decoder
           e == [d EXCEPT !.next_seq = f.seq + 1, !.started = TRUE]
           next == [b EXCEPT !.decoder.next_seq = f.seq + 1, !.decoder.started = TRUE]
           c == [row |-> f.txn, schema |-> d.live_rel]
           t == [d.txn EXCEPT !.changes = Append(d.txn.changes, c)]
<1>1. d \in DecoderState
  BY DEF Outcome
<1>2. next = [b EXCEPT !.decoder = e]
  BY <1>1 DEF Outcome, DecoderState
<1>3. FeedFrame(b, f) = OnChange(next, f)
  BY DEF FeedFrame, Message
<1> DEFINE fed == [e EXCEPT !.txn = t]
<1>5. OnChange(next, f) = [b EXCEPT !.decoder = fed]
  <2> HIDE DEF next
  <2> QED
    BY <1>1, <1>2 DEF OnChange, Outcome, DecoderState
<1>6. d.txn \in TxnBuf /\ c \in [row : Nat, schema : Nat]
  BY <1>1, FrameFields DEF DecoderState
<1>7. /\ t \in TxnBuf /\ t.changes = Append(d.txn.changes, c)
      /\ t.relations = d.txn.relations
  <2> HIDE DEF c
  <2>2. Append(d.txn.changes, c) \in Seq([row : Nat, schema : Nat])
    BY <1>6 DEF TxnBuf
  <2> QED
    BY <1>6, <2>2 DEF TxnBuf
<1> HIDE DEF t, next, c
<1>8. t # NoTxn
  BY <1>7, NoTxnAssumption
<1>9. /\ fed.next_seq = f.seq + 1 /\ fed.started = TRUE /\ fed.last_commit_seq = d.last_commit_seq
      /\ fed.live_rel = d.live_rel /\ fed.txn = t /\ fed.registry = d.registry
  BY <1>1 DEF DecoderState
<1> HIDE DEF fed
<1> QED
  BY <1>3, <1>5, <1>7, <1>8, <1>9 DEF Outcome, c

LEMMA FeedCommit ==
    ASSUME NEW b \in Outcome, NEW f \in Frame, b.error = "none", f.seq = b.decoder.next_seq,
           f.payload = "commit", b.decoder.txn # NoTxn
    PROVE  LET out == FeedFrame(b, f) IN
           /\ out.error = "none" /\ out.lsn = f.txn
           /\ out.changes = b.changes \o Emitted(b.decoder.txn, f.txn)
           /\ out.decoder.next_seq = f.seq + 1 /\ out.decoder.started = TRUE
           /\ out.decoder.last_commit_seq = f.seq
           /\ out.decoder.live_rel = b.decoder.live_rel
           /\ out.decoder.txn = NoTxn
           /\ out.decoder.registry =
                 RecordVersions(b.decoder.registry, b.decoder.txn.relations, f.txn)
<1> DEFINE d == b.decoder
           e == [d EXCEPT !.next_seq = f.seq + 1, !.started = TRUE]
           next == [b EXCEPT !.decoder.next_seq = f.seq + 1, !.decoder.started = TRUE]
           r == RecordVersions(d.registry, d.txn.relations, f.txn)
           c == b.changes \o Emitted(d.txn, f.txn)
<1>1. d \in DecoderState
  BY DEF Outcome
<1>2. next = [b EXCEPT !.decoder = e]
  BY <1>1 DEF Outcome, DecoderState
<1>3. FeedFrame(b, f) = OnCommit(next, f)
  BY DEF FeedFrame, Message
<1> DEFINE fed == [e EXCEPT !.txn = NoTxn, !.last_commit_seq = f.seq, !.registry = r]
<1>4. OnCommit(next, f) = [b EXCEPT !.decoder = fed, !.changes = c, !.lsn = f.txn]
  <2> HIDE DEF next
  <2> QED
    BY <1>1, <1>2 DEF OnCommit, Outcome, DecoderState
<1> HIDE DEF next, r
<1>5. /\ fed.next_seq = f.seq + 1 /\ fed.started = TRUE /\ fed.last_commit_seq = f.seq
      /\ fed.live_rel = d.live_rel /\ fed.txn = NoTxn /\ fed.registry = r
  BY <1>1 DEF DecoderState
<1> HIDE DEF fed
<1> QED
  BY <1>3, <1>4, <1>5 DEF Outcome, r

\* The log part of the invariant, and what it says of the frames on disk.
LEMMA LogParts ==
    ASSUME IInv
    PROVE  /\ TypeOK /\ Geometry /\ Numbering /\ Order /\ Covered /\ HeadHeld
           /\ \A f \in Held : f \in Frame /\ f.seq \in Nat /\ f.txn \in Nat /\ f.txn >= 1
           /\ \A f \in OnDisk : f \in Held /\ f.seq < End
           /\ \A f, g \in Held : f.seq = g.seq => f = g
           /\ \A f \in OnDisk, g \in Held : g.seq <= f.seq => g \in OnDisk
           /\ up => \A f \in Held : f.seq < next_seq
           /\ next_seq \in Nat /\ End \in Nat /\ head \in Nat
<1>1. TypeOK /\ Geometry /\ Numbering /\ Order /\ Covered /\ HeadHeld
  BY DEF IInv, Geometry
<1>2. \A f \in Held : f \in Frame /\ f.seq \in Nat /\ f.txn \in Nat /\ f.txn >= 1
  BY <1>1, HeldFrames, FrameFields DEF Covered
<1>3. \A f \in OnDisk : f \in Held /\ f.seq < End
  BY <1>1, HeldBelow DEF Held
<1>4. \A f, g \in Held : f.seq = g.seq => f = g
  BY <1>1, HeldUnique
<1>5. End \in Nat /\ next_seq \in Nat /\ head \in Nat
  BY <1>1, HeldFrames DEF TypeOK
<1>6. ASSUME NEW f \in OnDisk, NEW g \in Held, g.seq <= f.seq PROVE g \in OnDisk
  <2>1. f.seq < End /\ f.seq \in Nat /\ g.seq \in Nat
    BY <1>2, <1>3, <1>6
  <2>2. g \in Staged => g.seq >= End
    BY <1>1, HeldBelow
  <2> QED
    BY <1>5, <1>6, <2>1, <2>2 DEF Held
<1> QED
  BY <1>1, <1>2, <1>3, <1>4, <1>5, <1>6, HeldBelow

\* Every number below the end is some frame's.
LEMMA FrameNumbered ==
    ASSUME IInv, NEW s \in Nat, s < End
    PROVE  \E g \in OnDisk : g.seq = s
<1>1. s \in 0..(End - 1)
  BY LogParts
<1>2. PICK n \in DOMAIN files : n <= s /\ s < n + Len(files[n])
  BY <1>1, LogParts DEF Geometry, Tiled
<1>3. n \in Nat /\ Len(files[n]) \in Nat
  BY LogParts, DiskPlaces
<1>4. (s - n) + 1 \in 1..Len(files[n])
  BY <1>2, <1>3
<1>5. files[n][(s - n) + 1].seq = n + ((s - n) + 1) - 1
  BY <1>4, LogParts DEF Geometry, Contiguous
<1>6. files[n][(s - n) + 1] \in OnDisk
  BY <1>4, LogParts, DiskPlaces
<1>7. n + ((s - n) + 1) - 1 = s
  BY <1>3
<1> QED
  BY <1>5, <1>6, <1>7

LEMMA SchemaPositive ==
    ASSUME NEW t \in Nat
    PROVE  SchemaOf(t) \in Nat /\ SchemaOf(t) # 0
<1>1. {a \in Altered : a <= t} \subseteq Altered /\ IsFiniteSet(Altered)
  BY AlteredAssumption
<1>2. Cardinality({a \in Altered : a <= t}) \in Nat
  BY <1>1, FS_Subset, FS_CardinalityType
<1> QED
  BY <1>2 DEF SchemaOf

\* The frame a decoder expects is of the transaction after those it has had.
LEMMA TxnOfNext ==
    ASSUME IInv, NEW d, NEW n \in Nat, DecoderAt(d, n, OnDisk),
           NEW f \in OnDisk, f.seq = d.next_seq
    PROVE  f.txn = n + 1
<1>1. f \in Held /\ f.txn \in Nat /\ f.txn >= 1 /\ f.seq \in Nat
  BY LogParts
<1>2. n < f.txn
  <2>1. CASE n = 0
    BY <1>1, <2>1
  <2>2. CASE n # 0
    <3>1. PICK k \in OnDisk : k.txn_complete /\ k.txn = n /\ k.seq < d.next_seq
      BY <2>2 DEF DecoderAt
    <3>2. k \in Held
      BY LogParts
    <3> QED
      BY <1>1, <3>1, <3>2, LogParts DEF Order
  <2> QED
    BY <2>1, <2>2
<1>3. f.txn <= n + 1
  <2>1. CASE f.txn = 1
    BY <1>2, <2>1
  <2>2. CASE f.txn # 1
    <3>1. f.txn - 1 \in 1..(f.txn - 1)
      BY <1>1, <2>2
    <3>2. PICK g \in Held : g.txn_complete /\ g.txn = f.txn - 1 /\ g.seq < f.seq
      BY <1>1, <3>1, LogParts DEF Covered
    <3>3. g \in OnDisk
      <4>1. g.seq <= f.seq
        BY <1>1, <3>2, LogParts
      <4> QED
        BY <4>1, LogParts
    <3>4. g.txn <= n
      BY <3>2, <3>3 DEF DecoderAt
    <3> QED
      BY <1>1, <3>2, <3>4
  <2> QED
    BY <2>1, <2>2
<1> QED
  BY <1>1, <1>2, <1>3

\* Consuming a frame leaves what is announced after it readable.
LEMMA ReadsOn ==
    ASSUME IInv, NEW v, NEW s \in Nat, NEW d, NEW e, NEW x \in Held,
           Announced(v, s), ReadsAs(v, s, d), d.next_seq = x.seq, x.seq < s,
           e.next_seq = x.seq + 1,
           e.live_rel = IF x.payload = "relation" THEN SchemaOf(x.txn) ELSE d.live_rel
    PROVE  ReadsAs(v, s, e)
<1>1. \A f, g \in Held : f.seq \in Nat /\ (f.seq = g.seq => f = g)
  BY LogParts
<1>2. ASSUME NEW r \in Held, r.payload = "relation", SchemaOf(r.txn) = v, x.seq <= r.seq, r.seq < s,
             r # x
      PROVE  ReadsAs(v, s, e)
  <2>1. e.next_seq <= r.seq
    BY <1>1, <1>2
  <2> QED
    BY <1>2, <2>1 DEF ReadsAs
<1>3. CASE x.payload # "relation"
  <2>1. CASE d.live_rel = v
    BY <1>3, <2>1 DEF ReadsAs
  <2>2. CASE d.live_rel # v
    <3>1. PICK r \in Held : /\ r.payload = "relation" /\ SchemaOf(r.txn) = v
                            /\ x.seq <= r.seq /\ r.seq < s
      BY <2>2 DEF ReadsAs
    <3> QED
      BY <1>2, <1>3, <3>1
  <2> QED
    BY <2>1, <2>2
<1>4. CASE x.payload = "relation"
  <2>1. PICK r \in Held : /\ r.payload = "relation" /\ r.seq < s /\ SchemaOf(r.txn) = v
                          /\ \A y \in Held : y.payload = "relation" /\ r.seq < y.seq /\ y.seq < s
                                              => SchemaOf(y.txn) = v
    BY DEF Announced
  <2>2. CASE r = x
    BY <1>4, <2>1, <2>2 DEF ReadsAs
  <2>3. CASE r.seq < x.seq
    BY <1>4, <2>1, <2>3 DEF ReadsAs
  <2>4. CASE x.seq <= r.seq /\ r # x
    BY <1>2, <2>1, <2>4
  <2> QED
    BY <1>1, <2>2, <2>3, <2>4
<1> QED
  BY <1>3, <1>4

\* The changes of the k transactions after the n'th.
ChangesFrom(n, k) ==
    [i \in 1..k |-> [row |-> n + i, schema |-> SchemaOf(n + i), commit_lsn |-> n + i]]

\* A batch fed so far, from n applied transactions on, up to the frame p.
Fed(b, n, p) ==
    /\ b \in Outcome /\ b.error = "none" /\ b.decoder.next_seq = p
    /\ b.changes = ChangesFrom(n, Len(b.changes))
    /\ b.changes # <<>> => b.lsn = n + Len(b.changes)
    /\ DecoderAt(b.decoder, n + Len(b.changes), OnDisk)
    /\ \A f \in Held : f.payload = "change" /\ p <= f.seq
                        => ReadsAs(SchemaOf(f.txn), f.seq, b.decoder)
    /\ up /\ rel_sent # 0 => ReadsAs(rel_sent, next_seq, b.decoder)

LEMMA Emits ==
    ASSUME NEW t, NEW r \in Nat, NEW l \in Nat, t.changes = <<[row |-> r, schema |-> SchemaOf(r)]>>
    PROVE  Emitted(t, l) = <<[row |-> r, schema |-> SchemaOf(r), commit_lsn |-> l]>>
<1> DEFINE c == [row |-> r, schema |-> SchemaOf(r)]
<1>1. DOMAIN t.changes = 1..1 /\ t.changes[1] = c
  OBVIOUS
<1>2. c.row = r /\ c.schema = SchemaOf(r)
  OBVIOUS
<1> HIDE DEF c
<1>3. Emitted(t, l) = [i \in 1..1 |-> [row |-> t.changes[i].row, schema |-> t.changes[i].schema,
                                       commit_lsn |-> l]]
  BY <1>1 DEF Emitted
<1>4. \A i \in 1..1 : i = 1
  OBVIOUS
<1>5. Emitted(t, l) = [i \in 1..1 |-> [row |-> r, schema |-> SchemaOf(r), commit_lsn |-> l]]
  BY <1>1, <1>2, <1>3, <1>4
<1> DEFINE x == [row |-> r, schema |-> SchemaOf(r), commit_lsn |-> l]
<1> HIDE DEF x
<1>6. [i \in 1..1 |-> x] = <<x>>
  OBVIOUS
<1> QED
  BY <1>5, <1>6 DEF x

LEMMA ChangesAppend ==
    ASSUME NEW n \in Nat, NEW k \in Nat
    PROVE  /\ ChangesFrom(n, k) \o <<[row |-> n + k + 1, schema |-> SchemaOf(n + k + 1),
                                      commit_lsn |-> n + k + 1]>> = ChangesFrom(n, k + 1)
           /\ Len(ChangesFrom(n, k)) = k
<1> DEFINE x(i) == [row |-> n + i, schema |-> SchemaOf(n + i), commit_lsn |-> n + i]
<1>1. ChangesFrom(n, k) = [i \in 1..k |-> x(i)] /\ ChangesFrom(n, k + 1) = [i \in 1..(k + 1) |-> x(i)]
  BY DEF ChangesFrom
<1>2. n + (k + 1) = n + k + 1
  OBVIOUS
<1>3. x(k + 1) = [row |-> n + k + 1, schema |-> SchemaOf(n + k + 1), commit_lsn |-> n + k + 1]
  BY <1>2
<1> HIDE DEF x
<1>4. [i \in 1..k |-> x(i)] \o <<x(k + 1)>> = [i \in 1..(k + 1) |-> x(i)]
  OBVIOUS
<1>5. Len([i \in 1..k |-> x(i)]) = k
  OBVIOUS
<1> QED
  BY <1>1, <1>3, <1>4, <1>5

\* The frame before the one a decoder expects, and what it has left there.
LEMMA FrameBefore ==
    ASSUME IInv, Chained, NEW d, NEW n, DecoderAt(d, n, OnDisk),
           NEW f \in OnDisk, f.seq = d.next_seq, f.seq # 0
    PROVE  \E g \in OnDisk : /\ g.seq + 1 = f.seq /\ Follows(g, f.payload, f.txn) /\ LeftBy(d, g)
                             /\ g.payload \in {"begin", "relation", "change", "commit"}
<1>1. f \in Held /\ f.seq \in Nat /\ f.seq < End
  BY LogParts
<1>2. f.seq - 1 \in Nat /\ f.seq - 1 < End
  BY <1>1, LogParts
<1>3. PICK g \in OnDisk : g.seq = f.seq - 1
  BY <1>2, FrameNumbered
<1>4. g.seq + 1 = f.seq /\ g \in Held /\ g \in Frame
  BY <1>1, <1>3, LogParts
<1>5. Follows(g, f.payload, f.txn)
  BY <1>1, <1>4 DEF Chained
<1>6. LeftBy(d, g)
  BY <1>4 DEF DecoderAt
<1> QED
  BY <1>4, <1>5, <1>6, PayloadAssumption DEF Frame

\* The frame a decoder expects fits what it holds: an open transaction but for
\* a Begin, and under a change the change's own schema.
LEMMA FrameFits ==
    ASSUME IInv, Chained, NEW n \in Nat, NEW f \in OnDisk, NEW b, Fed(b, n, f.seq)
    PROVE  LET d == b.decoder IN
           /\ f.payload \in {"begin", "relation", "change", "commit"}
           /\ f.txn = n + Len(b.changes) + 1
           /\ f.payload # "begin" => d.txn # NoTxn
           /\ f.payload = "relation" => d.txn.changes = <<>> /\ d.txn.relations = <<>>
           /\ f.payload = "change" => /\ d.txn.changes = <<>>
                                      /\ d.live_rel = SchemaOf(f.txn) /\ d.live_rel # 0
           /\ f.payload = "commit" => d.txn.changes = <<[row |-> f.txn, schema |-> SchemaOf(f.txn)]>>
<1> DEFINE d == b.decoder
           m == n + Len(b.changes)
<1>1. /\ b \in Outcome /\ m \in Nat /\ f \in Held /\ f \in Frame /\ f.seq \in Nat /\ f.txn \in Nat
      /\ d.next_seq = f.seq /\ DecoderAt(d, m, OnDisk)
  BY LogParts DEF Fed, Outcome
<1>2. /\ f.payload \in {"begin", "relation", "change", "commit"}
      /\ f.seq = 0 => f.payload = "begin"
  BY <1>1, PayloadAssumption DEF Chained, Frame
<1>3. f.txn = m + 1
  BY <1>1, TxnOfNext
<1>4. f.payload # "begin" => \E g \in OnDisk : /\ Follows(g, f.payload, f.txn) /\ LeftBy(d, g)
                                              /\ g.payload \in {"begin", "relation", "change", "commit"}
  BY <1>1, <1>2, FrameBefore
<1>5. f.payload = "change" => d.live_rel = SchemaOf(f.txn) /\ d.live_rel # 0
  <2> SUFFICES ASSUME f.payload = "change" PROVE d.live_rel = SchemaOf(f.txn) /\ d.live_rel # 0
    OBVIOUS
  <2>1. ReadsAs(SchemaOf(f.txn), f.seq, d)
    BY <1>1 DEF Fed
  <2>2. ~ \E r \in Held : d.next_seq <= r.seq /\ r.seq < f.seq
    BY <1>1, LogParts
  <2>3. d.live_rel = SchemaOf(f.txn)
    BY <2>1, <2>2 DEF ReadsAs
  <2> QED
    BY <1>1, <2>3, SchemaPositive
<1> HIDE DEF d, m
<1>6. f.payload = "relation" => d.txn # NoTxn /\ d.txn.changes = <<>> /\ d.txn.relations = <<>>
  BY <1>4 DEF Follows, LeftBy
<1>7. f.payload = "change" => d.txn # NoTxn /\ d.txn.changes = <<>>
  BY <1>4 DEF Follows, LeftBy
<1>8. f.payload = "commit" => /\ d.txn # NoTxn
                              /\ d.txn.changes = <<[row |-> f.txn, schema |-> SchemaOf(f.txn)]>>
  BY <1>4 DEF Follows, LeftBy
<1> QED
  BY <1>2, <1>3, <1>5, <1>6, <1>7, <1>8 DEF d, m

\* Feeding it brings the decoder to the next frame.
LEMMA FeedStep ==
    ASSUME IInv, Chained, Upcoming, NEW n \in Nat, NEW f \in OnDisk, NEW b, Fed(b, n, f.seq)
    PROVE  Fed(FeedFrame(b, f), n, f.seq + 1)
<1> DEFINE d == b.decoder
           k == Len(b.changes)
           m == n + k
           out == FeedFrame(b, f)
           e == out.decoder
<1>1. /\ b \in Outcome /\ b.error = "none" /\ d \in DecoderState /\ k \in Nat /\ m \in Nat
      /\ f \in Held /\ f \in Frame /\ f.seq \in Nat /\ f.txn \in Nat /\ f.txn >= 1
      /\ d.next_seq = f.seq /\ DecoderAt(d, m, OnDisk)
  BY LogParts DEF Fed, Outcome
<1>2. /\ f.payload \in {"begin", "relation", "change", "commit"}
      /\ f.txn_complete <=> f.payload = "commit"
      /\ f.payload = "change" => Announced(SchemaOf(f.txn), f.seq)
  BY <1>1, PayloadAssumption DEF Chained, Frame
<1>3. f.txn = m + 1
  BY FrameFits
<1>4. /\ f.payload # "begin" => d.txn # NoTxn
      /\ f.payload = "relation" => d.txn.changes = <<>> /\ d.txn.relations = <<>>
      /\ f.payload = "change" => /\ d.txn.changes = <<>>
                                 /\ d.live_rel = SchemaOf(f.txn) /\ d.live_rel # 0
      /\ f.payload = "commit" => d.txn.changes = <<[row |-> f.txn, schema |-> SchemaOf(f.txn)]>>
  BY FrameFits
<1>5. out \in Outcome
  BY <1>1, FeedFrameType
<1>6. \A x \in OnDisk : x.seq \in Nat /\ (x.seq < f.seq + 1 => x.seq < f.seq \/ x = f)
                        /\ (x.seq + 1 = f.seq + 1 => x = f)
  <2> SUFFICES ASSUME NEW x \in OnDisk
               PROVE  x.seq \in Nat /\ (x.seq < f.seq + 1 => x.seq < f.seq \/ x = f)
                      /\ (x.seq + 1 = f.seq + 1 => x = f)
    OBVIOUS
  <2>1. x \in Held /\ x.seq \in Nat /\ (x.seq = f.seq => x = f)
    BY <1>1, LogParts
  <2> QED
    BY <1>1, <2>1
<1>7. ASSUME e.next_seq = f.seq + 1,
             e.live_rel = IF f.payload = "relation" THEN SchemaOf(f.txn) ELSE d.live_rel
      PROVE  /\ \A x \in Held : x.payload = "change" /\ f.seq + 1 <= x.seq
                                 => ReadsAs(SchemaOf(x.txn), x.seq, e)
             /\ up /\ rel_sent # 0 => ReadsAs(rel_sent, next_seq, e)
  <2> HIDE DEF e, d
  <2>1. ASSUME NEW x \in Held, x.payload = "change", f.seq + 1 <= x.seq
        PROVE  ReadsAs(SchemaOf(x.txn), x.seq, e)
    <3>1. x.seq \in Nat
      BY LogParts
    <3>2. f.seq < x.seq /\ f.seq <= x.seq
      BY <1>1, <2>1, <3>1
    <3>3. Announced(SchemaOf(x.txn), x.seq) /\ ReadsAs(SchemaOf(x.txn), x.seq, d)
      BY <2>1, <3>2 DEF Chained, Fed, d
    <3> QED
      BY <1>1, <1>7, <3>1, <3>2, <3>3, ReadsOn
  <2>2. ASSUME up, rel_sent # 0
        PROVE  ReadsAs(rel_sent, next_seq, e)
    <3>1. next_seq \in Nat /\ f.seq < next_seq
      BY <1>1, <2>2, LogParts
    <3>2. Announced(rel_sent, next_seq) /\ ReadsAs(rel_sent, next_seq, d)
      BY <2>2 DEF Upcoming, Fed, d
    <3> QED
      BY <1>1, <1>7, <3>1, <3>2, ReadsOn
  <2> QED
    BY <2>1, <2>2
<1>8. ASSUME f.payload # "commit", out.error = "none", out.changes = b.changes, out.lsn = b.lsn,
             e.next_seq = f.seq + 1, e.started = TRUE, e.last_commit_seq = d.last_commit_seq,
             e.live_rel = IF f.payload = "relation" THEN SchemaOf(f.txn) ELSE d.live_rel,
             LeftBy(e, f)
      PROVE  Fed(out, n, f.seq + 1)
  <2> HIDE DEF e, out, d
  <2>1. DecoderAt(e, m, OnDisk)
    <3>1. \A x \in OnDisk : x.txn_complete /\ x.seq < e.next_seq => x.txn <= m
      BY <1>1, <1>2, <1>6, <1>8 DEF DecoderAt
    <3>2. m # 0 => \E x \in OnDisk : /\ x.txn_complete /\ x.txn = m
                                     /\ x.seq = e.last_commit_seq /\ x.seq < e.next_seq
      <4> SUFFICES ASSUME m # 0
                   PROVE  \E x \in OnDisk : /\ x.txn_complete /\ x.txn = m
                                            /\ x.seq = e.last_commit_seq /\ x.seq < e.next_seq
        OBVIOUS
      <4>1. PICK x \in OnDisk : /\ x.txn_complete /\ x.txn = m
                                /\ x.seq = d.last_commit_seq /\ x.seq < d.next_seq
        BY <1>1 DEF DecoderAt
      <4>2. x.seq \in Nat /\ x.seq < f.seq + 1
        BY <1>1, <1>6, <4>1
      <4> QED
        BY <1>8, <4>1, <4>2
    <3>3. \A g \in OnDisk : g.seq + 1 = e.next_seq => LeftBy(e, g)
      BY <1>6, <1>8
    <3>4. e.next_seq # 0
      BY <1>1, <1>8
    <3> QED
      BY <1>8, <3>1, <3>2, <3>3, <3>4 DEF DecoderAt
  <2> QED
    BY <1>5, <1>7, <1>8, <2>1 DEF Fed, e
<1>9. CASE f.payload = "begin"
  <2>1. /\ out.error = "none" /\ out.changes = b.changes /\ out.lsn = b.lsn
        /\ e = [d EXCEPT !.next_seq = f.seq + 1, !.started = TRUE, !.txn = NewTxn]
    BY <1>1, <1>9, FeedBegin
  <2> HIDE DEF out, e
  <2>2. /\ e.next_seq = f.seq + 1 /\ e.started = TRUE /\ e.last_commit_seq = d.last_commit_seq
        /\ e.live_rel = d.live_rel /\ e.txn = NewTxn
    <3> HIDE DEF d
    <3> QED
      BY <1>1, <2>1 DEF DecoderState
  <2>3. NewTxn # NoTxn /\ NewTxn.changes = <<>> /\ NewTxn.relations = <<>>
    <3>1. NewTxn \in TxnBuf
      BY DEF NewTxn, TxnBuf
    <3> QED
      BY <3>1, NoTxnAssumption DEF NewTxn
  <2>4. LeftBy(e, f)
    BY <1>9, <2>2, <2>3 DEF LeftBy
  <2> QED
    BY <1>8, <1>9, <2>1, <2>2, <2>4 DEF out
<1>10. CASE f.payload = "relation"
  <2>3. d.txn # NoTxn /\ d.txn.changes = <<>> /\ d.txn.relations = <<>>
    BY <1>4, <1>10
  <2>4. /\ out.error = "none" /\ out.changes = b.changes /\ out.lsn = b.lsn
        /\ e.next_seq = f.seq + 1 /\ e.started = TRUE /\ e.last_commit_seq = d.last_commit_seq
        /\ e.live_rel = SchemaOf(f.txn)
        /\ e.txn # NoTxn /\ e.txn.changes = d.txn.changes
        /\ e.txn.relations = Append(d.txn.relations, SchemaOf(f.txn))
    BY <1>1, <1>10, <2>3, FeedRelation
  <2>5. e.txn.relations = <<SchemaOf(f.txn)>>
    <3>1. \A v : Append(<<>>, v) = <<v>>
      OBVIOUS
    <3> QED
      BY <2>3, <2>4, <3>1
  <2> HIDE DEF e, out, d
  <2>6. LeftBy(e, f)
    BY <1>10, <2>3, <2>4, <2>5 DEF LeftBy
  <2> QED
    BY <1>8, <1>10, <2>4, <2>6 DEF out
<1>11. CASE f.payload = "change"
  <2>3. d.txn # NoTxn /\ d.txn.changes = <<>> /\ d.live_rel = SchemaOf(f.txn) /\ d.live_rel # 0
    BY <1>4, <1>11
  <2>6. /\ out.error = "none" /\ out.changes = b.changes /\ out.lsn = b.lsn
        /\ e.next_seq = f.seq + 1 /\ e.started = TRUE /\ e.last_commit_seq = d.last_commit_seq
        /\ e.live_rel = d.live_rel
        /\ e.txn # NoTxn
        /\ e.txn.changes = Append(d.txn.changes, [row |-> f.txn, schema |-> d.live_rel])
    BY <1>1, <1>11, <2>3, FeedChange
  <2> HIDE DEF e, out, d
  <2>7. e.txn.changes = <<[row |-> f.txn, schema |-> SchemaOf(f.txn)]>>
    <3>1. \A x : Append(<<>>, x) = <<x>>
      OBVIOUS
    <3> QED
      BY <2>3, <2>6, <3>1
  <2>8. LeftBy(e, f)
    BY <1>11, <2>6, <2>7 DEF LeftBy
  <2> QED
    BY <1>8, <1>11, <2>6, <2>8 DEF out
<1>12. CASE f.payload = "commit"
  <2>3. d.txn # NoTxn /\ d.txn.changes = <<[row |-> f.txn, schema |-> SchemaOf(f.txn)]>>
    BY <1>4, <1>12
  <2>4. /\ out.error = "none" /\ out.lsn = f.txn
        /\ out.changes = b.changes \o Emitted(d.txn, f.txn)
        /\ e.next_seq = f.seq + 1 /\ e.started = TRUE /\ e.last_commit_seq = f.seq
        /\ e.live_rel = d.live_rel /\ e.txn = NoTxn
    BY <1>1, <1>12, <2>3, FeedCommit
  <2> HIDE DEF e, out, d
  <2>5. Emitted(d.txn, f.txn) = <<[row |-> f.txn, schema |-> SchemaOf(f.txn), commit_lsn |-> f.txn]>>
    BY <1>1, <2>3, Emits
  <2>6. out.changes = ChangesFrom(n, k + 1) /\ Len(out.changes) = k + 1
    <3>1. f.txn = n + k + 1 /\ b.changes = ChangesFrom(n, k)
      BY <1>1, <1>3 DEF Fed
    <3>2. out.changes = ChangesFrom(n, k) \o <<[row |-> n + k + 1, schema |-> SchemaOf(n + k + 1),
                                                commit_lsn |-> n + k + 1]>>
      BY <2>4, <2>5, <3>1
    <3>3. k + 1 \in Nat
      BY <1>1
    <3> HIDE DEF k
    <3> QED
      BY <1>1, <3>2, <3>3, ChangesAppend
  <2>7. n + Len(out.changes) = m + 1 /\ out.lsn = m + 1
    <3>1. Len(out.changes) = k + 1 /\ out.lsn = m + 1 /\ k \in Nat
      BY <1>1, <1>3, <2>4, <2>6
    <3>2. n + (k + 1) = m + 1
      BY <1>1
    <3> HIDE DEF m, k
    <3> QED
      BY <3>1, <3>2
  <2>8. DecoderAt(e, m + 1, OnDisk)
    <3>1. \A x \in OnDisk : x.txn_complete /\ x.seq < e.next_seq => x.txn <= m + 1
      <4> SUFFICES ASSUME NEW x \in OnDisk, x.txn_complete, x.seq < e.next_seq PROVE x.txn <= m + 1
        OBVIOUS
      <4>1. x.txn \in Nat
        BY LogParts
      <4>2. CASE x = f
        BY <1>1, <1>3, <4>2
      <4>3. CASE x # f
        <5>1. x.txn <= m
          BY <1>1, <1>6, <2>4, <4>3 DEF DecoderAt
        <5> QED
          BY <1>1, <4>1, <5>1
      <4> QED
        BY <4>2, <4>3
    <3>2. /\ f.txn_complete /\ f.txn = m + 1
          /\ f.seq = e.last_commit_seq /\ f.seq < e.next_seq
      BY <1>1, <1>2, <1>3, <1>12, <2>4
    <3>3. \A x \in OnDisk : x.seq + 1 = e.next_seq => LeftBy(e, x)
      BY <1>6, <1>12, <2>4 DEF LeftBy
    <3>4. e.next_seq # 0
      BY <1>1, <2>4
    <3> QED
      BY <2>4, <3>1, <3>2, <3>3, <3>4 DEF DecoderAt
  <2> QED
    BY <1>5, <1>7, <1>12, <2>4, <2>6, <2>7, <2>8 DEF Fed, e, out
<1> QED
  BY <1>2, <1>9, <1>10, <1>11, <1>12

\* The outcomes of feeding d the frames one by one, n transactions being applied.
Unfed(d) == [decoder |-> d, changes |-> <<>>, lsn |-> 0, error |-> "none"]

IsFeed(run, d, n, frames) ==
    /\ run[0] = Unfed(d)
    /\ \A i \in 1..Len(frames) : run[i] = FeedFrame(run[i - 1], frames[i])
    /\ \A i \in 0..Len(frames) : Fed(run[i], n, d.next_seq + i)
    /\ Feed(d, frames) = {run[Len(frames)]}

\* A batch that starts with the frame the decoder expects and goes to the end
\* of the files is consumed without an error.
LEMMA FeedAll ==
    ASSUME IInv, Chained, Upcoming, NEW n \in Nat, NEW d \in DecoderState, NEW frames \in Seq(Frame),
           d.next_seq + Len(frames) = End,
           \A k \in 1..Len(frames) : frames[k] \in OnDisk /\ frames[k].seq = d.next_seq + k - 1,
           DecoderAt(d, n, OnDisk),
           \A f \in Held : f.payload = "change" /\ d.next_seq <= f.seq
                              => ReadsAs(SchemaOf(f.txn), f.seq, d),
           up /\ rel_sent # 0 => ReadsAs(rel_sent, next_seq, d)
    PROVE  \E run : IsFeed(run, d, n, frames)
<1> DEFINE p == d.next_seq
           m == Len(frames)
<1>1. p \in Nat /\ m \in Nat /\ p + m = End
  BY DEF DecoderState
<1>2. PICK fed : /\ fed[0] = {Unfed(d)}
                 /\ \A i \in 1..m : fed[i] = {FeedFrame(b, frames[i]) : b \in fed[i - 1]}
                 /\ Feed(d, frames) = fed[m]
  BY FeedRun DEF Unfed
<1>3. Fed(Unfed(d), n, p)
  <2>1. Unfed(d) \in Outcome /\ Unfed(d).decoder = d /\ Unfed(d).error = "none"
        /\ Unfed(d).changes = <<>>
    BY DEF Outcome, Unfed
  <2>2. <<>> = ChangesFrom(n, 0) /\ Len(<<>>) = 0
    BY DEF ChangesFrom
  <2>3. n + 0 = n
    OBVIOUS
  <2> QED
    BY <2>1, <2>2, <2>3 DEF Fed
<1> DEFINE run == [i \in 0..m |-> CHOOSE b \in fed[i] : TRUE]
           G == {i \in 0..m : fed[i] = {run[i]} /\ Fed(run[i], n, p + i)}
<1>4. \A i \in 0..m : \A b : fed[i] = {b} => run[i] = b
  OBVIOUS
<1> HIDE DEF run, p, m
<1>5. 0 \in G
  <2>1. p + 0 = p /\ 0 \in 0..m
    BY <1>1
  <2>2. run[0] = Unfed(d)
    BY <1>2, <1>4, <2>1
  <2> QED
    BY <1>2, <1>3, <2>1, <2>2
<1>11. \A i \in G : i \in 0..m /\ fed[i] = {run[i]} /\ Fed(run[i], n, p + i)
  OBVIOUS
<1>12. \A i \in 0..m : fed[i] = {run[i]} /\ Fed(run[i], n, p + i) => i \in G
  OBVIOUS
<1> HIDE DEF G
<1>6. ASSUME NEW i \in 0..(m - 1), i \in G
      PROVE  i + 1 \in G /\ run[i + 1] = FeedFrame(run[i], frames[i + 1])
  <2>1. i + 1 \in 1..m /\ (i + 1) - 1 = i /\ i + 1 \in 0..m /\ i \in Nat
    BY <1>1
  <2>2. fed[i] = {run[i]} /\ Fed(run[i], n, p + i)
    BY <1>6, <1>11
  <2>3. fed[i + 1] = {FeedFrame(run[i], frames[i + 1])}
    <3>1. fed[i + 1] = {FeedFrame(b, frames[i + 1]) : b \in fed[i]}
      BY <1>2, <2>1
    <3>2. \A x : {FeedFrame(b, frames[i + 1]) : b \in {x}} = {FeedFrame(x, frames[i + 1])}
      OBVIOUS
    <3> QED
      BY <2>2, <3>1, <3>2
  <2>4. run[i + 1] = FeedFrame(run[i], frames[i + 1])
    BY <1>4, <2>1, <2>3
  <2>5. frames[i + 1] \in OnDisk /\ frames[i + 1].seq = p + i
    <3>1. frames[i + 1] \in OnDisk /\ frames[i + 1].seq = p + (i + 1) - 1
      BY <2>1 DEF p, m
    <3>2. p + (i + 1) - 1 = p + i
      BY <1>1, <2>1
    <3> QED
      BY <3>1, <3>2
  <2>6. p + i + 1 = p + (i + 1)
    BY <1>1, <2>1
  <2>7. Fed(run[i + 1], n, p + (i + 1))
    BY <2>2, <2>4, <2>5, <2>6, FeedStep
  <2> QED
    BY <1>12, <2>1, <2>3, <2>4, <2>7
<1>7. \A i \in 0..m : i \in G
  BY <1>1, <1>5, <1>6, IntervalInduction
<1>8. \A i \in 1..m : run[i] = FeedFrame(run[i - 1], frames[i])
  <2> SUFFICES ASSUME NEW i \in 1..m PROVE run[i] = FeedFrame(run[i - 1], frames[i])
    OBVIOUS
  <2>1. i - 1 \in 0..(m - 1) /\ i - 1 \in 0..m /\ (i - 1) + 1 = i
    BY <1>1
  <2>2. i - 1 \in G
    BY <1>7, <2>1
  <2>3. run[(i - 1) + 1] = FeedFrame(run[i - 1], frames[(i - 1) + 1])
    BY <1>6, <2>1, <2>2
  <2> QED
    BY <2>1, <2>3
<1>9. 0 \in 0..m /\ m \in 0..m
  BY <1>1
<1>10. run[0] = Unfed(d) /\ Feed(d, frames) = {run[m]} /\ \A i \in 0..m : Fed(run[i], n, p + i)
  BY <1>2, <1>4, <1>7, <1>9, <1>11
<1> QED
  BY <1>8, <1>10 DEF IsFeed, p, m

-----------------------------------------------------------------------------
(***************************************************************************)
(* What a step makes of the stream, said of the frames it leaves.          *)
(***************************************************************************)
AnnouncedIn(H, v, s) ==
    \E r \in H : /\ r.payload = "relation" /\ r.seq < s /\ SchemaOf(r.txn) = v
                 /\ \A x \in H : x.payload = "relation" /\ r.seq < x.seq /\ x.seq < s
                                  => SchemaOf(x.txn) = v

ChainedIn(H) ==
    \A f \in H : /\ f.txn_complete <=> f.payload = "commit"
                 /\ f.seq = 0 => f.payload = "begin"
                 /\ f.payload = "change" => AnnouncedIn(H, SchemaOf(f.txn), f.seq)
                 /\ \A g \in H : g.seq + 1 = f.seq => Follows(g, f.payload, f.txn)

UpcomingIn(H, next, m, rel, h) ==
    /\ next = 0 => m = "begin"
    /\ \A g \in H : g.seq + 1 = next => Follows(g, m, h + 1)
    /\ rel # 0 => AnnouncedIn(H, rel, next)
    /\ m = "change" => rel = SchemaOf(h + 1)

ReadsIn(H, v, s, d) ==
    \/ d.live_rel = v
    \/ \E r \in H : /\ r.payload = "relation" /\ SchemaOf(r.txn) = v
                    /\ d.next_seq <= r.seq /\ r.seq < s

ReadableIn(H, d) ==
    \A f \in H : f.payload = "change" /\ d.next_seq <= f.seq
                  => ReadsIn(H, SchemaOf(f.txn), f.seq, d)

LEMMA StreamParts ==
    /\ \A v, s : Announced(v, s) <=> AnnouncedIn(Held, v, s)
    /\ \A v, s, d : ReadsAs(v, s, d) <=> ReadsIn(Held, v, s, d)
    /\ Chained <=> ChainedIn(Held)
    /\ Upcoming <=> (up => UpcomingIn(Held, next_seq, msg, rel_sent, head))
    /\ Readable <=> /\ ReadableIn(Held, Resumed)
                    /\ up /\ rel_sent # 0 => ReadsIn(Held, rel_sent, next_seq, Resumed)
BY DEF Chained, ChainedIn, Upcoming, UpcomingIn, Announced, AnnouncedIn, ReadsAs, ReadsIn,
       Readable, ReadableIn

LEMMA StreamPartsNext ==
    /\ Chained' <=> ChainedIn(Held')
    /\ Upcoming' <=> (up' => UpcomingIn(Held', next_seq', msg', rel_sent', head'))
    /\ Readable' <=> /\ ReadableIn(Held', Resumed')
                     /\ up' /\ rel_sent' # 0 => ReadsIn(Held', rel_sent', next_seq', Resumed')
    /\ DecoderAt(Resumed, Len(applied), OnDisk)' <=> DecoderAt(Resumed', Len(applied'), OnDisk')
BY DEF Chained, ChainedIn, Upcoming, UpcomingIn, Announced, AnnouncedIn, ReadsAs, ReadsIn,
       Readable, ReadableIn, DecoderAt, LeftBy

-----------------------------------------------------------------------------
(***************************************************************************)
(* apply_new_frames.                                                       *)
(***************************************************************************)
LEMMA ReadsFrom ==
    ASSUME TypeOK, tail \in LogCursor, Tiled, InStep
    PROVE  /\ Cursor(files, tail) \in LogCursor
           /\ Gone(files, tail) = FALSE
           /\ Resumed.next_seq \in Nat /\ Resumed.next_seq <= End
<1>1. Cursor(files, tail) \in LogCursor
  BY CursorType
<1>2. ~Gone(files, tail) /\ AtFrame(files, Cursor(files, tail), Resumed.next_seq)
  BY DEF InStep
<1> DEFINE c == Cursor(files, tail)
           p == Resumed.next_seq
<1>3. /\ c.current \in DOMAIN files /\ p \in Nat /\ p <= c.current + Len(files[c.current])
  <2>1. c.current \in DOMAIN files
    BY <1>2 DEF AtFrame
  <2> HIDE DEF c, p
  <2> QED
    BY <1>1, <1>2, <2>1, AtFrameKept DEF c, p
<1> HIDE DEF c, p
<1>4. /\ cur \in DOMAIN files /\ \A n \in DOMAIN files : n \in Nat /\ n <= cur /\ Len(files[n]) \in Nat
  BY Segments, DiskPlaces
<1>5. c.current + Len(files[c.current]) <= End
  <2>1. CASE c.current = cur
    BY <1>4, <2>1 DEF End
  <2>2. CASE c.current # cur
    <3>1. c.current < cur
      BY <1>3, <1>4, <2>2
    <3>2. c.current + Len(files[c.current]) <= cur
      BY <1>3, <1>4, <3>1 DEF Tiled
    <3> QED
      BY <1>3, <1>4, <3>2 DEF End
  <2> QED
    BY <2>1, <2>2
<1>6. End \in Nat
  BY HeldFrames
<1>7. p <= End
  <2>1. c.current + Len(files[c.current]) \in Nat
    BY <1>3, <1>4
  <2> QED
    BY <1>3, <1>5, <1>6, <2>1
<1> QED
  BY <1>1, <1>2, <1>3, <1>7 DEF p

\* A tail that has read to the end of the open file.
LEMMA AtTheEnd ==
    ASSUME TypeOK, tail = [current |-> cur, offset |-> Bytes(files[cur])],
           decoder.next_seq = End
    PROVE  InStep /\ Resumed = decoder
<1>1. cur \in DOMAIN files /\ cur \in Nat /\ Bytes(files[cur]) \in Nat
  BY DiskPlaces, BytesType DEF TypeOK
<1>2. tail.current = cur /\ tail.offset = Bytes(files[cur]) /\ cur # NoSegment
  BY <1>1, NoSegmentAssumption
<1>3. ~Gone(files, tail) /\ ReadAt = tail
  BY <1>1, <1>2 DEF Gone, ReadAt, Established
<1>4. ~Shrunk(files, tail)
  BY <1>1, <1>2 DEF Shrunk
<1>5. Resumed = decoder
  BY <1>3, <1>4 DEF Resumed
<1>6. Cursor(files, tail) = tail
  BY <1>3, <1>4 DEF Cursor, Clamped, ReadAt
<1>7. AtFrame(files, tail, End)
  <2>1. AtFrame(files, [current |-> cur, offset |-> Bytes(files[cur])], cur + Len(files[cur]))
    BY <1>1, AtFrameEnd
  <2> QED
    BY <2>1 DEF End
<1> QED
  BY <1>3, <1>4, <1>5, <1>6, <1>7 DEF InStep

LEMMA AtTheEndNext ==
    (/\ TypeOK
     /\ tail = [current |-> cur, offset |-> Bytes(files[cur])]
     /\ decoder.next_seq = End
     => InStep /\ Resumed = decoder)'
<1>1. /\ TypeOK
      /\ tail = [current |-> cur, offset |-> Bytes(files[cur])]
      /\ decoder.next_seq = End
      => InStep /\ Resumed = decoder
  BY AtTheEnd
<1> QED
  BY <1>1, PTL

\* The changes of the next k transactions after those of the first n.
LEMMA PrefixGrows ==
    ASSUME NEW n \in Nat, NEW k \in Nat
    PROVE  /\ ChangesFrom(0, n) \o ChangesFrom(n, k) = ChangesFrom(0, n + k)
           /\ Len(ChangesFrom(0, n)) = n
<1> DEFINE x(i) == [row |-> i, schema |-> SchemaOf(i), commit_lsn |-> i]
<1>1. /\ ChangesFrom(0, n) = [i \in 1..n |-> x(i)]
      /\ ChangesFrom(n, k) = [i \in 1..k |-> x(n + i)]
      /\ ChangesFrom(0, n + k) = [i \in 1..(n + k) |-> x(i)]
  <2>1. \A i \in Nat : 0 + i = i
    OBVIOUS
  <2>2. ChangesFrom(0, n) = [i \in 1..n |-> x(i)]
    BY <2>1 DEF ChangesFrom
  <2>3. ChangesFrom(0, n + k) = [i \in 1..(n + k) |-> x(i)]
    BY <2>1 DEF ChangesFrom
  <2> QED
    BY <2>2, <2>3 DEF ChangesFrom
<1> HIDE DEF x
<1>2. [i \in 1..n |-> x(i)] \o [i \in 1..k |-> x(n + i)] = [i \in 1..(n + k) |-> x(i)]
  OBVIOUS
<1>3. Len([i \in 1..n |-> x(i)]) = n
  OBVIOUS
<1> QED
  BY <1>1, <1>2, <1>3

LEMMA PrefixForm ==
    ASSUME NEW s
    PROVE  (s = [t \in 1..Len(s) |-> [row |-> t, schema |-> SchemaOf(t), commit_lsn |-> t]])
           <=> s = ChangesFrom(0, Len(s))
<1>1. \A t : t \in 1..Len(s) => 0 + t = t
  OBVIOUS
<1>2. [t \in 1..Len(s) |-> [row |-> t, schema |-> SchemaOf(t), commit_lsn |-> t]]
        = ChangesFrom(0, Len(s))
  BY <1>1 DEF ChangesFrom
<1> QED
  BY <1>2

\* What apply_new_frames has read when it has fed frames one by one.
HasRead(run, frames) ==
    LET out == run[Len(frames)]
        all == Len(applied) + Len(out.changes)
    IN  /\ frames \in Seq(Frame)
        /\ \A k \in 1..Len(frames) :
              frames[k] \in OnDisk /\ frames[k].seq = Resumed.next_seq + k - 1
        /\ IsFeed(run, Resumed, Len(applied), frames)
        /\ Fed(out, Len(applied), End)
        /\ tail' = [current |-> cur, offset |-> Bytes(files[cur])]
        /\ decoder' = out.decoder /\ apply_error' = "none"
        /\ applied' = ChangesFrom(0, all) /\ applied_lsn' = all
        /\ UNCHANGED <<logVars, sessionVars>>

\* apply_new_frames feeds every frame the decoder has not had, and applies
\* what comes out.
LEMMA ApplyReads ==
    ASSUME PumpInv, StreamInv, ApplyNewFrames
    PROVE  \E frames, run : HasRead(run, frames)
<1> DEFINE cursor == Cursor(files, tail)
           batch == ReadNew(files, tail, cursor)
           n == Len(applied)
<1>1. /\ IInv /\ TypeOK /\ Tiled /\ Geometry /\ ApplyType /\ Resumed \in DecoderState
      /\ End \in Nat /\ n \in Nat
  <2>1. IInv /\ TypeOK /\ Tiled /\ Geometry /\ ApplyType /\ End \in Nat
    BY TypeParts, LogParts DEF PumpInv, IInv
  <2> QED
    BY <2>1, AbortType DEF ApplyType, Resumed
<1>2. /\ Chained /\ Upcoming /\ InStep /\ DecoderAt(Resumed, n, OnDisk) /\ Readable
      /\ CutInOpenSegment /\ applied = ChangesFrom(0, n) /\ applied_lsn = n /\ apply_error = "none"
  BY PrefixForm DEF StreamInv, AppliedIsPrefix, NoApplyError
<1>3. /\ cursor \in LogCursor /\ Gone(files, tail) = FALSE
      /\ AtFrame(files, cursor, Resumed.next_seq)
  BY <1>1, <1>2, ReadsFrom DEF ApplyType, InStep
<1>4. /\ batch.frames \in Seq(Frame) /\ Resumed.next_seq + Len(batch.frames) = End
      /\ \A k \in 1..Len(batch.frames) :
            batch.frames[k] \in OnDisk /\ batch.frames[k].seq = Resumed.next_seq + k - 1
      /\ batch.rewound = (Gone(files, tail) \/ Shrunk(files, Established(files, tail)))
      /\ batch.corrupt = FALSE
      /\ batch.tail = [current |-> cur, offset |-> Bytes(files[cur])]
  <2> DEFINE p == Resumed.next_seq
  <2>1. cursor \in LogCursor /\ AtFrame(files, cursor, p)
    BY <1>3
  <2> HIDE DEF cursor, p
  <2>2. LET read == ReadNew(files, tail, cursor) IN
        /\ read.frames \in Seq(Frame) /\ p + Len(read.frames) = End
        /\ \A k \in 1..Len(read.frames) :
              read.frames[k] \in OnDisk /\ read.frames[k].seq = p + k - 1
        /\ read.rewound = (Gone(files, tail) \/ Shrunk(files, Established(files, tail)))
        /\ read.corrupt = FALSE
        /\ read.tail = [current |-> cur, offset |-> Bytes(files[cur])]
    BY <1>1, <2>1, ReadAtFrame
  <2> QED
    BY <2>2 DEF p
<1>5. PICK decoded \in Decode(batch) :
        LET error == IF batch.corrupt THEN "corrupt" ELSE decoded.error IN
        /\ tail' = batch.tail
        /\ decoder' = IF batch.corrupt THEN decoder ELSE decoded.decoder
        /\ apply_error' = IF apply_error = "none" THEN error ELSE apply_error
        /\ IF error = "none" /\ decoded.changes # <<>>
           THEN /\ applied' = applied \o decoded.changes
                /\ applied_lsn' = Greater(decoded.lsn, applied_lsn)
           ELSE UNCHANGED <<applied, applied_lsn>>
        /\ UNCHANGED <<logVars, sourceVars, sessionVars, boundVars>>
  BY DEF ApplyNewFrames
<1> HIDE DEF cursor, batch
<1>6. decoded \in Feed(Resumed, batch.frames)
  <2>1. (IF batch.rewound THEN AbortOpenTxn(decoder) ELSE decoder) = Resumed
    BY <1>3, <1>4 DEF Resumed, ReadAt
  <2> QED
    BY <1>5, <2>1 DEF Decode
<1>7. PICK run : IsFeed(run, Resumed, n, batch.frames)
  <2>1. /\ \A f \in Held : f.payload = "change" /\ Resumed.next_seq <= f.seq
                              => ReadsAs(SchemaOf(f.txn), f.seq, Resumed)
        /\ up /\ rel_sent # 0 => ReadsAs(rel_sent, next_seq, Resumed)
    BY <1>2 DEF Readable
  <2> HIDE DEF n
  <2> QED
    BY <1>1, <1>2, <1>4, <2>1, FeedAll
<1>12. decoded = run[Len(batch.frames)] /\ Fed(decoded, n, End)
  <2>1. Len(batch.frames) \in 0..Len(batch.frames)
    BY <1>4
  <2> HIDE DEF n
  <2> QED
    BY <1>4, <1>6, <1>7, <2>1 DEF IsFeed
<1> DEFINE k == Len(decoded.changes)
<1>8. /\ decoded \in Outcome /\ decoded.error = "none" /\ decoded.decoder.next_seq = End
      /\ decoded.changes = ChangesFrom(n, k)
      /\ decoded.changes # <<>> => decoded.lsn = n + k
  BY <1>12 DEF Fed
<1>9. k \in Nat
  BY <1>8 DEF Outcome
<1> HIDE DEF n, k
<1>10. /\ tail' = [current |-> cur, offset |-> Bytes(files[cur])]
       /\ decoder' = decoded.decoder /\ apply_error' = "none"
       /\ UNCHANGED logVars /\ UNCHANGED sessionVars
  BY <1>2, <1>4, <1>5, <1>8
<1>11. applied' = ChangesFrom(0, n + k) /\ applied_lsn' = n + k
  <2>1. CASE decoded.changes = <<>>
    <3>1. k = 0
      BY <2>1 DEF k
    <3>2. applied' = applied /\ applied_lsn' = applied_lsn
      BY <1>5, <2>1
    <3>3. n + 0 = n
      BY <1>1
    <3> QED
      BY <1>2, <3>1, <3>2, <3>3
  <2>2. CASE decoded.changes # <<>>
    <3>1. applied' = applied \o decoded.changes /\ applied_lsn' = Greater(decoded.lsn, applied_lsn)
      BY <1>4, <1>5, <1>8, <2>2
    <3>2. applied' = ChangesFrom(0, n + k)
      BY <1>1, <1>2, <1>8, <1>9, <3>1, PrefixGrows
    <3>3. applied_lsn' = Greater(n + k, n)
      BY <1>2, <1>8, <2>2, <3>1
    <3>4. Greater(n + k, n) = n + k
      BY <1>1, <1>9 DEF Greater
    <3> QED
      BY <3>2, <3>3, <3>4
  <2> QED
    BY <2>1, <2>2
<1> QED
  <2>1. k = Len(run[Len(batch.frames)].changes)
    BY <1>12 DEF k
  <2>2. HasRead(run, batch.frames)
    BY <1>4, <1>7, <1>10, <1>11, <1>12, <2>1 DEF HasRead, n
  <2> QED
    BY <2>2

LEMMA ApplyStreams ==
    ASSUME PumpInv, StreamInv, ApplyNewFrames
    PROVE  StreamInv'
<1> DEFINE n == Len(applied)
<1>1. TypeOK /\ n \in Nat
  BY TypeParts DEF PumpInv, ApplyType
<1>2. Chained /\ Upcoming /\ CutInOpenSegment
  BY DEF StreamInv
<1>3. PICK frames, run : HasRead(run, frames)
  BY ApplyReads
<1> DEFINE decoded == run[Len(frames)]
           k == Len(decoded.changes)
<1>4. /\ Fed(decoded, n, End)
      /\ tail' = [current |-> cur, offset |-> Bytes(files[cur])]
      /\ decoder' = decoded.decoder /\ apply_error' = "none"
      /\ applied' = ChangesFrom(0, n + k) /\ applied_lsn' = n + k
      /\ UNCHANGED logVars /\ UNCHANGED sessionVars
  BY <1>3 DEF HasRead
<1> HIDE DEF decoded
<1>8. /\ decoded \in Outcome /\ decoded.decoder.next_seq = End
      /\ DecoderAt(decoded.decoder, n + k, OnDisk)
      /\ \A f \in Held : f.payload = "change" /\ End <= f.seq
                          => ReadsAs(SchemaOf(f.txn), f.seq, decoded.decoder)
      /\ up /\ rel_sent # 0 => ReadsAs(rel_sent, next_seq, decoded.decoder)
  BY <1>4 DEF Fed
<1>9. k \in Nat
  BY <1>8 DEF Outcome
<1> HIDE DEF n, k
<1>12. Len(applied') = n + k
  BY <1>1, <1>4, <1>9, PrefixGrows
<1>13. AppliedIsPrefix' /\ NoApplyError'
  <2>1. applied' = [t \in 1..Len(applied') |-> [row |-> t, schema |-> SchemaOf(t), commit_lsn |-> t]]
    BY <1>4, <1>12, PrefixForm
  <2> QED
    BY <1>4, <1>12, <2>1 DEF AppliedIsPrefix, NoApplyError
<1>14. /\ files' = files /\ cur' = cur /\ up' = up /\ next_seq' = next_seq /\ head' = head
       /\ spill' = spill /\ msg' = msg /\ rel_sent' = rel_sent
  BY <1>4 DEF logVars, sessionVars
<1>15. /\ OnDisk' = OnDisk /\ Held' = Held /\ End' = End /\ CutInOpenSegment' /\ TypeOK'
  <2>1. OnDisk' = OnDisk /\ End' = End
    BY <1>14 DEF OnDisk, End
  <2>2. Held' = Held
    BY <1>14, <2>1 DEF Held, Staged
  <2>3. CutInOpenSegment'
    BY <1>2, <1>14, <2>1 DEF CutInOpenSegment
  <2>4. TypeOK'
    BY <1>1, <1>4 DEF logVars, TypeOK
  <2> QED
    BY <2>1, <2>2, <2>3, <2>4
<1>16. InStep' /\ Resumed' = decoded.decoder
  <2>1. tail' = [current |-> cur', offset |-> Bytes(files'[cur'])] /\ decoder'.next_seq = End'
    BY <1>8, <1>4, <1>14, <1>15
  <2> QED
    BY <1>4, <1>15, <2>1, AtTheEndNext
<1>17. Chained' /\ Upcoming'
  BY <1>2, <1>14, <1>15, StreamParts, StreamPartsNext
<1>18. DecoderAt(Resumed, Len(applied), OnDisk)'
  BY <1>8, <1>12, <1>15, <1>16, StreamPartsNext
<1>19. Readable'
  <2>1. ReadableIn(Held, decoded.decoder)
    BY <1>8, StreamParts DEF ReadableIn
  <2>2. up /\ rel_sent # 0 => ReadsIn(Held, rel_sent, next_seq, decoded.decoder)
    BY <1>8, StreamParts
  <2> QED
    BY <1>14, <1>15, <1>16, <2>1, <2>2, StreamPartsNext
<1> QED
  BY <1>13, <1>15, <1>16, <1>17, <1>18, <1>19 DEF StreamInv

-----------------------------------------------------------------------------
(***************************************************************************)
(* The log takes the session's next message.                               *)
(***************************************************************************)
LEMMA AnnouncedKept ==
    ASSUME NEW H, NEW x, NEW v, NEW s, AnnouncedIn(H, v, s), ~(x.seq < s)
    PROVE  AnnouncedIn(H \union {x}, v, s)
BY DEF AnnouncedIn

LEMMA ReadsKept ==
    ASSUME NEW H, NEW J, NEW v, NEW s, NEW d, ReadsIn(H, v, s, d), H \subseteq J
    PROVE  ReadsIn(J, v, s, d)
BY DEF ReadsIn

\* x is the frame of message m, the first that the log does not hold yet.
NextOf(H, x, m, rel, h) ==
    /\ x.payload = m /\ x.txn = h + 1 /\ (x.txn_complete <=> m = "commit")
    /\ m \in {"begin", "relation", "change", "commit"}
    /\ h \in Nat /\ x.seq \in Nat
    /\ \A f \in H : f.seq \in Nat /\ f.seq < x.seq
    /\ UpcomingIn(H, x.seq, m, rel, h)

LEMMA ChainGrows ==
    ASSUME NEW H, NEW x, NEW m, NEW rel, NEW h, NextOf(H, x, m, rel, h), ChainedIn(H)
    PROVE  ChainedIn(H \union {x})
<1> SUFFICES ASSUME NEW f \in H \union {x}
             PROVE  /\ f.txn_complete <=> f.payload = "commit"
                    /\ f.seq = 0 => f.payload = "begin"
                    /\ f.payload = "change" => AnnouncedIn(H \union {x}, SchemaOf(f.txn), f.seq)
                    /\ \A g \in H \union {x} : g.seq + 1 = f.seq => Follows(g, f.payload, f.txn)
  BY DEF ChainedIn
<1>1. /\ x.payload = m /\ x.txn = h + 1 /\ (x.txn_complete <=> m = "commit")
      /\ h \in Nat /\ x.seq \in Nat
      /\ \A g \in H : g.seq \in Nat /\ g.seq < x.seq
      /\ UpcomingIn(H, x.seq, m, rel, h)
  BY DEF NextOf
<1>2. CASE f = x
  <2>1. x.seq = 0 => m = "begin"
    BY <1>1 DEF UpcomingIn
  <2>2. m = "change" => AnnouncedIn(H \union {x}, SchemaOf(x.txn), x.seq)
    <3> SUFFICES ASSUME m = "change" PROVE AnnouncedIn(H \union {x}, SchemaOf(x.txn), x.seq)
      OBVIOUS
    <3>1. rel = SchemaOf(x.txn) /\ rel # 0
      BY <1>1, SchemaPositive DEF UpcomingIn
    <3>2. AnnouncedIn(H, SchemaOf(x.txn), x.seq)
      BY <1>1, <3>1 DEF UpcomingIn
    <3> QED
      BY <1>1, <3>2, AnnouncedKept
  <2>3. ASSUME NEW g \in H \union {x}, g.seq + 1 = x.seq PROVE Follows(g, m, x.txn)
    BY <1>1, <2>3 DEF UpcomingIn
  <2> QED
    BY <1>1, <1>2, <2>1, <2>2, <2>3
<1>3. CASE f # x
  <2>1. /\ f \in H /\ (f.txn_complete <=> f.payload = "commit")
        /\ f.seq = 0 => f.payload = "begin"
        /\ f.payload = "change" => AnnouncedIn(H, SchemaOf(f.txn), f.seq)
        /\ \A g \in H : g.seq + 1 = f.seq => Follows(g, f.payload, f.txn)
    BY <1>3 DEF ChainedIn
  <2>2. ~(x.seq < f.seq) /\ x.seq + 1 # f.seq
    BY <1>1, <2>1
  <2>3. f.payload = "change" => AnnouncedIn(H \union {x}, SchemaOf(f.txn), f.seq)
    BY <2>1, <2>2, AnnouncedKept
  <2> QED
    BY <2>1, <2>2, <2>3
<1> QED
  BY <1>2, <1>3

LEMMA UpcomingGrows ==
    ASSUME NEW H, NEW x, NEW m, NEW rel, NEW h, NextOf(H, x, m, rel, h),
           NEW m2, NEW rel2, NEW h2,
           m2 = CASE m = "begin" -> IF rel = SchemaOf(h + 1) THEN "change" ELSE "relation"
                  [] m = "relation" -> "change"
                  [] m = "change" -> "commit"
                  [] m = "commit" -> "begin",
           rel2 = IF m = "relation" THEN SchemaOf(h + 1) ELSE rel,
           h2 = IF m = "commit" THEN h + 1 ELSE h
    PROVE  UpcomingIn(H \union {x}, x.seq + 1, m2, rel2, h2)
<1>1. /\ x.payload = m /\ x.txn = h + 1
      /\ m \in {"begin", "relation", "change", "commit"}
      /\ h \in Nat /\ x.seq \in Nat
      /\ \A g \in H : g.seq \in Nat /\ g.seq < x.seq
      /\ UpcomingIn(H, x.seq, m, rel, h)
  BY DEF NextOf
<1>2. /\ m = "begin" => m2 = "relation" \/ (m2 = "change" /\ rel = SchemaOf(h + 1))
      /\ m = "relation" => m2 = "change"
      /\ m = "change" => m2 = "commit"
      /\ m = "commit" => m2 = "begin"
  BY <1>1
<1>3. x.seq + 1 # 0
  BY <1>1
<1>4. ASSUME NEW g \in H \union {x}, g.seq + 1 = x.seq + 1 PROVE Follows(g, m2, h2 + 1)
  <2>1. g = x
    BY <1>1, <1>4
  <2> QED
    BY <1>1, <1>2, <2>1 DEF Follows
<1>5. ASSUME rel2 # 0 PROVE AnnouncedIn(H \union {x}, rel2, x.seq + 1)
  <2>1. CASE m = "relation"
    <3>1. x.payload = "relation" /\ SchemaOf(x.txn) = rel2 /\ x.seq < x.seq + 1
      BY <1>1, <2>1
    <3>2. \A y \in H \union {x} : ~(x.seq < y.seq /\ y.seq < x.seq + 1)
      BY <1>1
    <3> QED
      BY <3>1, <3>2 DEF AnnouncedIn
  <2>2. CASE m # "relation"
    <3>1. AnnouncedIn(H, rel2, x.seq)
      BY <1>1, <1>5, <2>2 DEF UpcomingIn
    <3>2. PICK r \in H : /\ r.payload = "relation" /\ r.seq < x.seq /\ SchemaOf(r.txn) = rel2
                         /\ \A y \in H : y.payload = "relation" /\ r.seq < y.seq /\ y.seq < x.seq
                                          => SchemaOf(y.txn) = rel2
      BY <3>1 DEF AnnouncedIn
    <3>3. r.seq < x.seq + 1
      BY <1>1, <3>2
    <3>4. \A y \in H \union {x} : y.payload = "relation" => y \in H /\ y.seq < x.seq
      BY <1>1, <2>2
    <3> QED
      BY <3>2, <3>3, <3>4 DEF AnnouncedIn
  <2> QED
    BY <2>1, <2>2
<1>6. m2 = "change" => rel2 = SchemaOf(h2 + 1)
  BY <1>1, <1>2
<1> QED
  BY <1>3, <1>4, <1>5, <1>6 DEF UpcomingIn

LEMMA ReadableGrows ==
    ASSUME NEW H, NEW x, NEW m, NEW rel, NEW h, NextOf(H, x, m, rel, h), NEW d,
           ReadableIn(H, d), rel # 0 => ReadsIn(H, rel, x.seq, d), d.next_seq <= x.seq,
           NEW rel2, rel2 = IF m = "relation" THEN SchemaOf(h + 1) ELSE rel
    PROVE  /\ ReadableIn(H \union {x}, d)
           /\ rel2 # 0 => ReadsIn(H \union {x}, rel2, x.seq + 1, d)
<1>1. /\ x.payload = m /\ x.txn = h + 1
      /\ h \in Nat /\ x.seq \in Nat
      /\ \A g \in H : g.seq \in Nat /\ g.seq < x.seq
      /\ UpcomingIn(H, x.seq, m, rel, h)
  BY DEF NextOf
<1>2. ASSUME NEW f \in H \union {x}, f.payload = "change", d.next_seq <= f.seq
      PROVE  ReadsIn(H \union {x}, SchemaOf(f.txn), f.seq, d)
  <2>1. CASE f \in H
    BY <1>2, <2>1, ReadsKept DEF ReadableIn
  <2>2. CASE f = x
    <3>1. rel = SchemaOf(x.txn) /\ rel # 0
      BY <1>1, <1>2, <2>2, SchemaPositive DEF UpcomingIn
    <3> QED
      BY <2>2, <3>1, ReadsKept
  <2> QED
    BY <2>1, <2>2
<1>3. ASSUME rel2 # 0 PROVE ReadsIn(H \union {x}, rel2, x.seq + 1, d)
  <2>1. CASE m = "relation"
    <3>1. x.payload = "relation" /\ SchemaOf(x.txn) = rel2 /\ x.seq < x.seq + 1
      BY <1>1, <2>1
    <3> QED
      BY <3>1 DEF ReadsIn
  <2>2. CASE m # "relation"
    <3>1. ReadsIn(H, rel2, x.seq, d)
      BY <1>3, <2>2
    <3>2. \A r \in H : r.seq < x.seq + 1
      BY <1>1
    <3> QED
      BY <3>1, <3>2 DEF ReadsIn
  <2> QED
    BY <2>1, <2>2
<1> QED
  BY <1>2, <1>3 DEF ReadableIn

-----------------------------------------------------------------------------
(***************************************************************************)
(* The files grow: the open one at its end, or by a new one.               *)
(***************************************************************************)
LEMMA FirstKept ==
    ASSUME TypeOK, NEW fs, DOMAIN files \subseteq DOMAIN fs, DOMAIN fs \subseteq Nat,
           Tiled, \A n \in DOMAIN fs : n \notin DOMAIN files => n > cur
    PROVE  FirstSegment(fs) = FirstSegment(files)
<1>1. /\ cur \in DOMAIN files /\ DOMAIN files \subseteq Nat
      /\ \A n \in DOMAIN files : n \in Nat /\ n <= cur
  BY Segments
<1>2. PICK first \in DOMAIN files : \A n \in DOMAIN files : first <= n
  <2>1. DOMAIN files # {}
    BY <1>1
  <2> QED
    BY <1>1, <2>1, SmallestExists
<1>3. FirstSegment(files) = first
  <2>1. \A n \in DOMAIN files : (\A k \in DOMAIN files : n <= k) => n = first
    BY <1>1, <1>2
  <2> QED
    BY <1>2, <2>1 DEF FirstSegment
<1>4. first \in DOMAIN fs /\ \A n \in DOMAIN fs : first <= n
  BY <1>1, <1>2
<1>5. \A n \in DOMAIN fs : (\A k \in DOMAIN fs : n <= k) => n = first
  BY <1>1, <1>4
<1> QED
  BY <1>3, <1>4, <1>5 DEF FirstSegment

LEMMA PrefixKept ==
    ASSUME NEW s \in Seq(Frame), NEW t \in Seq(Frame), NEW j \in 0..Len(s)
    PROVE  /\ SubSeq(s \o t, 1, j) = SubSeq(s, 1, j)
           /\ j \in 0..Len(s \o t) /\ s \o t \in Seq(Frame)
<1>1. /\ s \o t \in Seq(Frame) /\ Len(s \o t) = Len(s) + Len(t)
      /\ \A i \in 1..Len(s) : (s \o t)[i] = s[i]
      /\ Len(s) \in Nat /\ Len(t) \in Nat
  BY ConcatProperties
<1>2. j \in 0..Len(s \o t)
  BY <1>1
<1> DEFINE u == s \o t
<1> HIDE DEF u
<1>3. u \in Seq(Frame) /\ j \in 0..Len(u) /\ \A i \in 1..j : u[i] = s[i]
  BY <1>1, <1>2 DEF u
<1>4. SubSeq(u, 1, j) = SubSeq(s, 1, j)
  BY <1>3
<1> QED
  BY <1>1, <1>2, <1>4 DEF u

LEMMA InStepKept ==
    ASSUME TypeOK, TypeOK', Tiled, tail \in LogCursor, InStep, UNCHANGED <<tail, decoder>>,
           DOMAIN files \subseteq DOMAIN files',
           \A n \in DOMAIN files : n # cur => files'[n] = files[n],
           NEW t \in Seq(Frame), files'[cur] = files[cur] \o t,
           \A n \in DOMAIN files' : n \notin DOMAIN files => n > cur,
           cur' = cur \/ cur' \notin DOMAIN files
    PROVE  InStep' /\ Resumed' = Resumed
<1> DEFINE e == ReadAt
           n == e.current
           p == Resumed.next_seq
<1>1. /\ cur \in DOMAIN files /\ DOMAIN files' \subseteq Nat
      /\ \A m \in DOMAIN files : m \in Nat /\ m <= cur /\ files[m] \in Seq(Frame)
      /\ \A m \in DOMAIN files' : files'[m] \in Seq(Frame)
      /\ FirstSegment(files) \in DOMAIN files
  BY Segments DEF TypeOK
<1>2. Gone(files, tail) = FALSE /\ Gone(files', tail') = FALSE
  BY DEF InStep, Gone
<1>3. FirstSegment(files') = FirstSegment(files)
  BY <1>1, FirstKept
<1>4. ReadAt = Established(files, tail) /\ Established(files', tail') = e
  BY <1>2, <1>3 DEF Established, ReadAt
<1>5. e \in LogCursor /\ n \in DOMAIN files
  BY <1>1, <1>2, <1>4 DEF Established, LogCursor, Gone
<1>6. ReadAt' = e
  BY <1>4 DEF ReadAt
<1>7. AtFrame(files, Clamped(files, e), p) /\ (Shrunk(files, e) => n # cur)
  BY DEF InStep, Cursor, ReadAt
<1> HIDE DEF e, p
<1>8. CASE Shrunk(files, e)
  <2>1. n # cur /\ files'[n] = files[n] /\ n # cur'
    BY <1>5, <1>7, <1>8
  <2>2. Shrunk(files', e) /\ Clamped(files', e) = Clamped(files, e)
    BY <1>8, <2>1 DEF Shrunk, Clamped
  <2>3. Clamped(files, e).current = n
    BY <1>5, <1>8 DEF Clamped, LogCursor
  <2>4. AtFrame(files', Clamped(files', e), p)
    <3>1. \E j \in 0..Len(files[n]) :
             Clamped(files, e).offset = Bytes(SubSeq(files[n], 1, j)) /\ p = n + j
      BY <1>7, <2>3 DEF AtFrame
    <3>2. n \in DOMAIN files'
      BY <1>5
    <3> QED
      BY <2>1, <2>2, <2>3, <3>1, <3>2 DEF AtFrame
  <2>5. Resumed' = Resumed
    BY <1>6, <1>8, <2>2 DEF Resumed, e
  <2>6. AtFrame(files', Cursor(files', tail'), Resumed'.next_seq)
    BY <1>4, <2>4, <2>5 DEF Cursor, p
  <2>7. ReadAt'.current # cur'
    BY <1>6, <2>1
  <2> QED
    BY <1>2, <2>5, <2>6, <2>7 DEF InStep
<1>9. CASE ~Shrunk(files, e)
  <2>1. Clamped(files, e) = e
    BY <1>9 DEF Clamped
  <2>2. PICK j \in 0..Len(files[n]) : e.offset = Bytes(SubSeq(files[n], 1, j)) /\ p = n + j
    BY <1>7, <2>1 DEF AtFrame
  <2>3. files[n] \in Seq(Frame) /\ files'[n] \in Seq(Frame) /\ n \in DOMAIN files'
    BY <1>1, <1>5
  <2>4. SubSeq(files'[n], 1, j) = SubSeq(files[n], 1, j) /\ j \in 0..Len(files'[n])
    <3>1. CASE n = cur
      <4>1. files'[n] = files[n] \o t
        BY <3>1
      <4> QED
        BY <2>2, <2>3, <4>1, PrefixKept
    <3>2. CASE n # cur
      BY <1>5, <2>2, <3>2
    <3> QED
      BY <3>1, <3>2
  <2>5. AtFrame(files', e, p)
    BY <2>2, <2>3, <2>4 DEF AtFrame
  <2>6. e.offset <= Bytes(files'[n]) /\ e.offset \in Nat /\ Bytes(files'[n]) \in Nat
    <3>1. \A u \in Seq(Frame) : Bytes(u) \in Nat /\ \A i \in 0..Len(u) :
             Bytes(SubSeq(u, 1, i)) \in Nat /\ Bytes(SubSeq(u, 1, i)) <= Bytes(u)
      BY BytesEnds, BytesType
    <3>2. e.offset = Bytes(SubSeq(files'[n], 1, j))
      BY <2>2, <2>4
    <3> QED
      BY <2>3, <2>4, <3>1, <3>2
  <2>7. ~Shrunk(files', e) /\ Clamped(files', e) = e
    BY <2>6 DEF Shrunk, Clamped
  <2>8. Resumed' = Resumed
    BY <1>6, <1>9, <2>7 DEF Resumed, e
  <2>9. AtFrame(files', Cursor(files', tail'), Resumed'.next_seq)
    BY <1>4, <2>5, <2>7, <2>8 DEF Cursor, p
  <2>10. ~Shrunk(files, ReadAt)'
    BY <1>6, <2>7
  <2> QED
    BY <1>2, <2>8, <2>9, <2>10 DEF InStep
<1> QED
  BY <1>8, <1>9

LEMMA DecoderKept ==
    ASSUME NEW d, NEW n, NEW X, NEW Y, DecoderAt(d, n, X), X \subseteq Y, d.next_seq \in Nat,
           \A f \in Y : f.seq \in Nat /\ (f \in X \/ f.seq >= d.next_seq)
    PROVE  DecoderAt(d, n, Y)
<1>1. \A f \in Y : f.seq + 1 = d.next_seq \/ f.seq < d.next_seq => f \in X
  OBVIOUS
<1>2. /\ \A f \in Y : f.txn_complete /\ f.seq < d.next_seq => f.txn <= n
      /\ \A g \in Y : g.seq + 1 = d.next_seq => LeftBy(d, g)
  BY <1>1 DEF DecoderAt
<1> QED
  BY <1>2 DEF DecoderAt

Grows ==
    /\ DOMAIN files \subseteq DOMAIN files'
    /\ \A n \in DOMAIN files : n # cur => files'[n] = files[n]
    /\ \E t \in Seq(Frame) : files'[cur] = files[cur] \o t
    /\ \A n \in DOMAIN files' : n \notin DOMAIN files => n > cur
    /\ cur' = cur \/ cur' \notin DOMAIN files

LEMMA WriteGrows ==
    ASSUME TypeOK, NEW f \in Frame, Write(f), cur' = cur
    PROVE  Grows
<1>1. /\ DOMAIN files' = DOMAIN files
      /\ \A n \in DOMAIN files : n # cur => files'[n] = files[n]
      /\ files'[cur] = Append(files[cur], f)
      /\ files[cur] \in Seq(Frame)
  BY DEF TypeOK, Write
<1>2. Append(files[cur], f) = files[cur] \o <<f>> /\ <<f>> \in Seq(Frame)
  BY <1>1
<1> QED
  BY <1>1, <1>2 DEF Grows

LEMMA StayGrows ==
    ASSUME TypeOK, UNCHANGED <<files, cur>>
    PROVE  Grows
<1>1. files[cur] \in Seq(Frame)
  BY DEF TypeOK
<1>2. files[cur] = files[cur] \o <<>> /\ <<>> \in Seq(Frame)
  BY <1>1
<1> QED
  BY <1>2 DEF Grows

LEMMA SyncGrows ==
    ASSUME TypeOK, Geometry, next_seq = End, SyncAndRoll
    PROVE  Grows
<1>1. CASE Full(files[cur])
  <2>1. /\ files[cur] \in Seq(Frame) /\ cur \in Nat /\ cur \in DOMAIN files /\ Len(files[cur]) >= SegMax
    BY <1>1 DEF TypeOK, Full
  <2>2. next_seq > cur /\ next_seq \in Nat
    BY <2>1, SegMaxAssumption DEF End
  <2>3. next_seq \notin DOMAIN files
    BY <2>1, <2>2 DEF Geometry, Tiled
  <2>4. /\ cur' = next_seq /\ DOMAIN files' = DOMAIN files \union {next_seq}
        /\ \A n \in DOMAIN files : files'[n] = files[n]
    BY <1>1, <2>3 DEF SyncAndRoll, RollSegment
  <2>5. files[cur] = files[cur] \o <<>> /\ <<>> \in Seq(Frame)
    BY <2>1
  <2> QED
    BY <2>1, <2>2, <2>3, <2>4, <2>5 DEF Grows
<1>2. CASE ~Full(files[cur])
  BY <1>2, StayGrows DEF SyncAndRoll
<1> QED
  BY <1>1, <1>2

\* What is left to show of a step of the log, when it takes nothing away.
LEMMA StreamKept ==
    ASSUME PumpInv, TypeOK', StreamInv, UNCHANGED applyVars, Grows,
           OnDisk \subseteq OnDisk',
           \A f \in OnDisk' : f \in OnDisk \/ (f.seq \in Nat /\ f.seq >= End),
           ChainedIn(Held'),
           up' => UpcomingIn(Held', next_seq', msg', rel_sent', head'),
           ReadableIn(Held', Resumed),
           up' /\ rel_sent' # 0 => ReadsIn(Held', rel_sent', next_seq', Resumed),
           CutInOpenSegment'
    PROVE  StreamInv'
<1>1. /\ IInv /\ TypeOK /\ Tiled /\ tail \in LogCursor /\ InStep /\ End \in Nat
      /\ DecoderAt(Resumed, Len(applied), OnDisk) /\ AppliedIsPrefix /\ NoApplyError
  BY TypeParts, LogParts DEF PumpInv, IInv, ApplyType, StreamInv
<1>2. UNCHANGED <<tail, decoder, applied, applied_lsn, apply_error>>
  BY DEF applyVars
<1>3. InStep' /\ Resumed' = Resumed
  <2>1. PICK t \in Seq(Frame) : files'[cur] = files[cur] \o t
    BY DEF Grows
  <2> QED
    BY <1>1, <1>2, <2>1, InStepKept DEF Grows
<1>4. Resumed.next_seq \in Nat /\ Resumed.next_seq <= End
  BY <1>1, ReadsFrom
<1>5. DecoderAt(Resumed, Len(applied), OnDisk')
  <2>1. \A f \in OnDisk : f.seq \in Nat
    BY <1>1, LogParts
  <2>2. \A f \in OnDisk' : f.seq \in Nat /\ (f \in OnDisk \/ f.seq >= Resumed.next_seq)
    BY <1>1, <1>4, <2>1
  <2> HIDE DEF Resumed
  <2> QED
    BY <1>1, <1>4, <2>2, DecoderKept
<1>6. DecoderAt(Resumed, Len(applied), OnDisk)'
  BY <1>2, <1>3, <1>5, StreamPartsNext
<1>7. Chained' /\ Upcoming' /\ Readable'
  BY <1>3, StreamPartsNext
<1>8. AppliedIsPrefix' /\ NoApplyError'
  BY <1>1, <1>2 DEF AppliedIsPrefix, NoApplyError
<1> QED
  BY <1>3, <1>6, <1>7, <1>8 DEF StreamInv

-----------------------------------------------------------------------------
(***************************************************************************)
(* The pump's own steps.                                                   *)
(***************************************************************************)
LEMMA HeldParts ==
    ASSUME PumpInv, StreamInv
    PROVE  /\ ChainedIn(Held)
           /\ up => UpcomingIn(Held, next_seq, msg, rel_sent, head)
           /\ ReadableIn(Held, Resumed)
           /\ up /\ rel_sent # 0 => ReadsIn(Held, rel_sent, next_seq, Resumed)
           /\ IInv /\ TypeOK /\ Geometry /\ Tiled /\ End \in Nat
           /\ \A f \in OnDisk : f \in Held
<1>1. IInv /\ TypeOK /\ Geometry /\ Tiled /\ End \in Nat /\ \A f \in OnDisk : f \in Held
  BY LogParts DEF PumpInv, IInv
<1> QED
  BY <1>1, StreamParts DEF StreamInv

\* Nothing but marks, counters and where the owner is.
LEMMA QuietStreams ==
    ASSUME PumpInv, TypeOK', StreamInv, UNCHANGED applyVars,
           UNCHANGED <<files, cur, spill, up, next_seq, head, msg, rel_sent>>
    PROVE  StreamInv'
<1>1. OnDisk' = OnDisk /\ Held' = Held
  BY DEF OnDisk, Held, Staged
<1>2. CutInOpenSegment'
  BY <1>1 DEF StreamInv, CutInOpenSegment
<1>3. Grows
  BY StayGrows, HeldParts
<1> QED
  BY <1>1, <1>2, <1>3, HeldParts, StreamKept

LEMMA SyncStreams ==
    ASSUME PumpInv, TypeOK', StreamInv, UNCHANGED applyVars, up, spill = <<>>, SyncAndRoll,
           UNCHANGED <<next_seq, spill, up, head, msg, rel_sent>>
    PROVE  StreamInv'
<1>1. OnDisk' = OnDisk /\ Held' = Held
  BY HeldParts, SyncKeeps
<1>2. next_seq = End
  <2>1. Len(spill) = 0 /\ next_seq = End + Len(spill) /\ End \in Nat
    BY LogParts, HeldParts DEF Numbering
  <2> QED
    BY <2>1
<1>3. Grows
  BY <1>2, HeldParts, SyncGrows
<1>4. CutInOpenSegment'
  BY DEF CutInOpenSegment
<1> QED
  BY <1>1, <1>3, <1>4, HeldParts, StreamKept

LEMMA DrainStreams ==
    ASSUME PumpInv, TypeOK', StreamInv, Drain
    PROVE  StreamInv'
<1> DEFINE x == Head(spill)
<1>1. /\ DrainFrame /\ up /\ Write(x) /\ UNCHANGED applyVars
      /\ UNCHANGED <<synced, cur, next_seq, up, head, msg, rel_sent>>
  BY DEF Drain, DrainFrame, sessionVars
<1>2. Held' = Held /\ x \in Frame /\ x.seq = End
  BY <1>1, HeldParts, DrainFrameKeeps
<1> HIDE DEF x
<1>3. OnDisk' = OnDisk \union {x}
  BY <1>1, <1>2, HeldParts, WriteEffect
<1>4. Grows
  BY <1>1, <1>2, HeldParts, WriteGrows
<1>5. CutInOpenSegment'
  BY <1>1 DEF CutInOpenSegment
<1>6. \A f \in OnDisk' : f \in OnDisk \/ (f.seq \in Nat /\ f.seq >= End)
  BY <1>2, <1>3, HeldParts
<1> QED
  BY <1>1, <1>2, <1>3, <1>4, <1>5, <1>6, HeldParts, StreamKept

LEMMA ReceiveStreams ==
    ASSUME PumpInv, TypeOK', StreamInv, ReceiveFrame
    PROVE  StreamInv'
<1> DEFINE c == msg = "commit"
           x == NextFrame(c, msg)
<1>1. /\ up /\ Take(c, msg) /\ UNCHANGED <<synced, cur, up>> /\ UNCHANGED applyVars
      /\ next_seq' = next_seq + 1 /\ head' = IF c THEN head + 1 ELSE head
      /\ msg' = FollowingMessage
      /\ rel_sent' = IF msg = "relation" THEN SchemaOf(head + 1) ELSE rel_sent
  BY DEF ReceiveFrame, AppendFrame, Take
<1>2. /\ c \in BOOLEAN /\ msg \in Payload /\ head \in Nat /\ next_seq \in Nat
      /\ msg \in {"begin", "relation", "change", "commit"}
  BY PayloadAssumption DEF PumpInv, PipelineTypeOK, TypeOK
<1>3. /\ x \in Frame /\ x.seq = next_seq /\ x.txn = head + 1 /\ x.txn_complete = c
      /\ x.payload = msg
  BY <1>2, HeldParts, NextFrameType DEF NextFrame
<1>4. /\ Held' = Held \union {x} /\ (stalled => files' = files)
  BY <1>1, <1>2, HeldParts, TakeKeeps
<1>5. ~stalled => Write(x) /\ spill = <<>>
  BY <1>1, HeldParts DEF Take, IInv, Modes
<1> HIDE DEF x
<1>6. /\ next_seq = End + Len(spill) /\ Len(spill) \in Nat /\ End \in Nat
      /\ \A f \in Held : f.seq \in Nat /\ f.seq < next_seq
  BY <1>1, HeldParts, LogParts, HeldFrames DEF Numbering
<1>7. /\ OnDisk \subseteq OnDisk' /\ Grows
      /\ \A f \in OnDisk' : f \in OnDisk \/ (f.seq \in Nat /\ f.seq >= End)
  <2>1. CASE stalled
    <3>1. files' = files
      BY <1>4, <2>1
    <3>2. OnDisk' = OnDisk
      BY <3>1 DEF OnDisk
    <3> QED
      BY <1>1, <3>1, <3>2, HeldParts, StayGrows
  <2>2. CASE ~stalled
    <3>1. Write(x) /\ x.seq = End
      <4>1. Len(spill) = 0 /\ \A e \in Nat : e + 0 = e
        BY <1>5, <2>2
      <4> QED
        BY <1>3, <1>5, <1>6, <2>2, <4>1
    <3>2. OnDisk' = OnDisk \union {x}
      BY <1>1, <1>3, <3>1, HeldParts, WriteEffect
    <3>3. Grows
      BY <1>1, <1>3, <3>1, HeldParts, WriteGrows
    <3> QED
      BY <1>6, <3>1, <3>2, <3>3
  <2> QED
    BY <2>1, <2>2
<1>8. NextOf(Held, x, msg, rel_sent, head)
  BY <1>1, <1>2, <1>3, <1>6, HeldParts DEF NextOf
<1>9. ChainedIn(Held')
  BY <1>4, <1>8, HeldParts, ChainGrows
<1>10. UpcomingIn(Held', next_seq', msg', rel_sent', head')
  <2>1. msg' = CASE msg = "begin" -> IF rel_sent = SchemaOf(head + 1) THEN "change" ELSE "relation"
                 [] msg = "relation" -> "change"
                 [] msg = "change" -> "commit"
                 [] msg = "commit" -> "begin"
    BY <1>1 DEF FollowingMessage
  <2>2. UpcomingIn(Held \union {x}, x.seq + 1, msg', rel_sent', head')
    BY <1>1, <1>8, <2>1, UpcomingGrows
  <2> QED
    BY <1>1, <1>3, <1>4, <2>2
<1>11. Resumed.next_seq <= x.seq
  <2>1. Resumed.next_seq \in Nat /\ Resumed.next_seq <= End
    BY HeldParts, TypeParts, ReadsFrom DEF PumpInv, StreamInv, ApplyType
  <2> HIDE DEF Resumed
  <2> QED
    BY <1>3, <1>6, <2>1
<1>12. /\ ReadableIn(Held', Resumed)
       /\ rel_sent' # 0 => ReadsIn(Held', rel_sent', next_seq', Resumed)
  <2>1. rel_sent # 0 => ReadsIn(Held, rel_sent, x.seq, Resumed)
    BY <1>1, <1>3, HeldParts
  <2>2. /\ ReadableIn(Held \union {x}, Resumed)
        /\ rel_sent' # 0 => ReadsIn(Held \union {x}, rel_sent', x.seq + 1, Resumed)
    BY <1>1, <1>8, <1>11, <2>1, HeldParts, ReadableGrows
  <2> QED
    BY <1>1, <1>3, <1>4, <2>2
<1>13. CutInOpenSegment'
  BY <1>1 DEF CutInOpenSegment
<1> QED
  BY <1>1, <1>7, <1>9, <1>10, <1>12, <1>13, StreamKept

-----------------------------------------------------------------------------
(***************************************************************************)
(* Kills and restarts: what was not on disk, and what follows the last     *)
(* commit, has never been.                                                 *)
(***************************************************************************)
LEMMA ChainCut ==
    ASSUME NEW H, NEW J, J \subseteq H, \A f \in H : f.seq \in Nat,
           \A f \in J, g \in H : g.seq <= f.seq => g \in J
    PROVE  /\ ChainedIn(H) => ChainedIn(J)
           /\ \A d : ReadableIn(H, d) => ReadableIn(J, d)
<1>1. ASSUME NEW v, NEW f \in J, AnnouncedIn(H, v, f.seq) PROVE AnnouncedIn(J, v, f.seq)
  <2>1. PICK r \in H : /\ r.payload = "relation" /\ r.seq < f.seq /\ SchemaOf(r.txn) = v
                       /\ \A x \in H : x.payload = "relation" /\ r.seq < x.seq /\ x.seq < f.seq
                                        => SchemaOf(x.txn) = v
    BY <1>1 DEF AnnouncedIn
  <2>2. r \in J
    <3>1. r.seq <= f.seq
      BY <2>1
    <3> QED
      BY <3>1
  <2> QED
    BY <2>1, <2>2 DEF AnnouncedIn
<1>2. ASSUME NEW v, NEW f \in J, NEW d, ReadsIn(H, v, f.seq, d) PROVE ReadsIn(J, v, f.seq, d)
  <2>1. \A r \in H : r.seq < f.seq => r \in J
    OBVIOUS
  <2> QED
    BY <1>2, <2>1 DEF ReadsIn
<1>3. ChainedIn(H) => ChainedIn(J)
  BY <1>1 DEF ChainedIn
<1>4. \A d : ReadableIn(H, d) => ReadableIn(J, d)
  BY <1>2 DEF ReadableIn
<1> QED
  BY <1>3, <1>4

LEMMA DecoderCut ==
    ASSUME NEW d, NEW n, NEW X, NEW Y, DecoderAt(d, n, X), Y \subseteq X,
           \A f \in X : f.seq < d.next_seq => f \in Y
    PROVE  DecoderAt(d, n, Y)
<1>1. n # 0 => \E f \in Y : /\ f.txn_complete /\ f.txn = n
                            /\ f.seq = d.last_commit_seq /\ f.seq < d.next_seq
  BY DEF DecoderAt
<1> QED
  BY <1>1 DEF DecoderAt

LEMMA KillStreams ==
    ASSUME PumpInv, TypeOK', StreamInv, KillPump, KillScope = "segment"
    PROVE  StreamInv'
<1>1. /\ UNCHANGED <<files, cur>> /\ spill' = <<>> /\ ~up' /\ UNCHANGED applyVars
      /\ \E i \in DOMAIN files[cur] : files[cur][i].txn_complete
  BY DEF KillPump, Kill, LoseMemory, KillAllowed
<1>2. OnDisk' = OnDisk /\ Held' = OnDisk
  BY <1>1 DEF OnDisk, Held, Staged
<1>3. /\ \A f \in Held : f.seq \in Nat
      /\ \A f \in OnDisk, g \in Held : g.seq <= f.seq => g \in OnDisk
      /\ OnDisk \subseteq Held
  BY HeldParts, LogParts
<1>4. ChainedIn(Held') /\ ReadableIn(Held', Resumed)
  BY <1>2, <1>3, HeldParts, ChainCut
<1>5. CutInOpenSegment'
  BY <1>1 DEF CutInOpenSegment
<1>6. Grows
  BY <1>1, HeldParts, StayGrows
<1> QED
  BY <1>1, <1>2, <1>4, <1>5, <1>6, StreamKept

\* An empty log is resumed as it is.
LEMMA RestartEmptyStreams ==
    ASSUME PumpInv, TypeOK', StreamInv, RestartPump, ResumeEmpty, \A f \in OnDisk : ~f.txn_complete
    PROVE  StreamInv'
<1>1. /\ ~up /\ UNCHANGED applyVars /\ msg' = "begin" /\ rel_sent' = 0 /\ up'
      /\ cur' = 0 /\ next_seq' = 0 /\ head' = 0 /\ files' = [m \in {0} |-> <<>>] /\ spill' = spill
  BY DEF RestartPump, Resume, ResumeEmpty
<1>2. OnDisk = {}
  <2>1. \A i \in DOMAIN files[cur] : files[cur][i] \in OnDisk
    BY HeldParts, DiskPlaces DEF TypeOK
  <2> QED
    BY <1>1, <2>1 DEF StreamInv, CutInOpenSegment
<1>3. /\ cur \in DOMAIN files /\ \A n \in DOMAIN files : n \in Nat /\ n <= cur /\ Len(files[n]) = 0
      /\ \A n \in DOMAIN files : files[n] = <<>>
  <2>1. /\ cur \in DOMAIN files
        /\ \A n \in DOMAIN files : n \in Nat /\ n <= cur /\ files[n] \in Seq(Frame)
    BY HeldParts, Segments
  <2>2. \A n \in DOMAIN files : \A i \in 1..Len(files[n]) : files[n][i] \in OnDisk
    BY HeldParts, DiskPlaces
  <2>3. ASSUME NEW n \in DOMAIN files PROVE Len(files[n]) = 0 /\ files[n] = <<>>
    <3>1. Len(files[n]) \in Nat /\ ~(1 \in 1..Len(files[n]))
      BY <1>2, <2>1, <2>2
    <3>2. Len(files[n]) = 0
      BY <3>1
    <3> QED
      BY <2>1, <3>2
  <2> QED
    BY <2>1, <2>3
<1>4. cur = 0
  <2> SUFFICES ASSUME cur # 0 PROVE FALSE
    OBVIOUS
  <2>1. 0 \in 0..(End - 1)
    BY <1>3 DEF End
  <2>2. \E n \in DOMAIN files : n <= 0 /\ 0 < n + Len(files[n])
    BY <2>1, HeldParts DEF Tiled
  <2> QED
    BY <1>3, <2>2
<1>5. files' = files /\ cur' = cur
  <2>1. DOMAIN files = {0}
    BY <1>3, <1>4
  <2>2. files = [m \in {0} |-> files[m]]
    BY <2>1, HeldParts DEF TypeOK
  <2> QED
    BY <1>1, <1>3, <1>4, <2>1, <2>2
<1>6. OnDisk' = OnDisk /\ spill = <<>>
  BY <1>1, <1>5, HeldParts DEF OnDisk, IInv, Modes
<1>7. Held' = {}
  BY <1>1, <1>2, <1>6 DEF Held, Staged
<1>8. /\ ChainedIn(Held') /\ UpcomingIn(Held', next_seq', msg', rel_sent', head')
      /\ ReadableIn(Held', Resumed)
  BY <1>1, <1>7 DEF ChainedIn, UpcomingIn, ReadableIn
<1>9. CutInOpenSegment' /\ Grows
  BY <1>1, <1>5, HeldParts, StayGrows DEF CutInOpenSegment
<1> QED
  BY <1>1, <1>6, <1>8, <1>9, StreamKept

\* A resume after a commit in the open file: the file keeps the frames up to
\* it, a new one is opened after it, and no other file is touched.
CutAfter(i) ==
    /\ i \in 1..Len(files[cur])
    /\ files[cur][i] \in OnDisk /\ files[cur][i].seq = cur + i - 1
    /\ files[cur][i].txn_complete
    /\ DOMAIN files' = DOMAIN files \union {cur + i} /\ cur' = cur + i
    /\ \A n \in DOMAIN files : n # cur => files'[n] = files[n]
    /\ files'[cur] = SubSeq(files[cur], 1, i)
    /\ next_seq' = cur + i /\ head' = files[cur][i].txn
    /\ \A f : f \in OnDisk' <=> f \in OnDisk /\ f.seq <= files[cur][i].seq
    /\ \A f \in OnDisk : f.txn_complete => f.seq <= files[cur][i].seq
    /\ Held = OnDisk /\ Held' = OnDisk'

LEMMA CutsOpen ==
    ASSUME PumpInv, StreamInv, Resume, NEW n \in DOMAIN files, NEW i \in DOMAIN files[n],
           IsBoundary(n, i), ResumeAt(n, i)
    PROVE  n = cur /\ CutAfter(i)
<1>1. /\ ~up /\ cur \in DOMAIN files /\ spill = <<>> /\ spill' = spill
      /\ \A m \in DOMAIN files : m \in Nat /\ m <= cur
  BY HeldParts, Segments DEF Resume, IInv, Modes
<1>2. /\ files[n][i] \in OnDisk
      /\ \A f : f \in OnDisk' <=> f \in OnDisk /\ f.seq <= files[n][i].seq
      /\ \A f \in OnDisk : f.txn_complete => f.seq <= files[n][i].seq
  BY HeldParts, ResumeAtEffect
<1>3. \E k \in DOMAIN files[cur] : files[cur][k].txn_complete
  BY <1>1, <1>2 DEF StreamInv, CutInOpenSegment
<1>4. n = cur
  <2>1. ~(cur > n)
    BY <1>1, <1>3 DEF IsBoundary
  <2> QED
    BY <1>1, <2>1
<1>5. /\ i \in 1..Len(files[cur]) /\ files[cur][i].seq = cur + i - 1 /\ cur \in Nat
      /\ Len(files[cur]) \in Nat
  BY <1>4, HeldParts, DiskPlaces DEF Geometry, Contiguous
<1>6. files[cur][i].seq + 1 = cur + i /\ cur + i > cur /\ cur + i \notin DOMAIN files
  BY <1>1, <1>5
<1>7. {m \in DOMAIN files : m <= n} = DOMAIN files
  BY <1>1, <1>4
<1>8. /\ DOMAIN files' = DOMAIN files \union {cur + i} /\ cur' = cur + i /\ next_seq' = cur + i
      /\ files' = [m \in DOMAIN files \union {cur + i} |->
                     IF m = cur + i THEN <<>>
                     ELSE IF m = cur THEN SubSeq(files[cur], 1, i) ELSE files[m]]
      /\ head' = files[cur][i].txn
  BY <1>4, <1>6, <1>7 DEF ResumeAt, Cut
<1>9. /\ \A m \in DOMAIN files : m # cur => files'[m] = files[m]
      /\ files'[cur] = SubSeq(files[cur], 1, i)
  BY <1>1, <1>6, <1>8
<1>10. Held = OnDisk /\ Held' = OnDisk'
  BY <1>1 DEF Held, Staged
<1>11. files[cur][i].txn_complete
  BY <1>4 DEF IsBoundary
<1> QED
  BY <1>2, <1>4, <1>5, <1>8, <1>9, <1>10, <1>11 DEF CutAfter

\* The cursor after the cut: where it was, or at the new end of the cut file.
LEMMA CutCursor ==
    ASSUME PumpInv, TypeOK', StreamInv, NEW i, CutAfter(i), UNCHANGED <<tail, decoder>>
    PROVE  /\ ReadAt' = ReadAt /\ ReadAt \in LogCursor /\ ReadAt.current \in DOMAIN files
           /\ Gone(files', tail') = FALSE
           /\ Cursor(files', tail') = Clamped(files', ReadAt)
           /\ Cursor(files, tail) = Clamped(files, ReadAt)
<1>1. /\ TypeOK /\ Tiled /\ tail \in LogCursor /\ ~Gone(files, tail)
      /\ cur \in DOMAIN files /\ i \in Nat /\ i >= 1
      /\ \A n \in DOMAIN files : n \in Nat /\ n <= cur
      /\ FirstSegment(files) \in DOMAIN files
  <2>1. TypeOK /\ Tiled /\ tail \in LogCursor /\ ~Gone(files, tail)
    BY HeldParts, TypeParts DEF PumpInv, ApplyType, StreamInv, InStep
  <2> QED
    BY <2>1, Segments DEF CutAfter
<1>2. FirstSegment(files') = FirstSegment(files)
  <2>1. /\ DOMAIN files \subseteq DOMAIN files' /\ DOMAIN files' \subseteq Nat
        /\ \A n \in DOMAIN files' : n \notin DOMAIN files => n > cur
    BY <1>1 DEF CutAfter
  <2> QED
    BY <1>1, <2>1, FirstKept
<1>3. ~Gone(files', tail')
  BY <1>1 DEF Gone, CutAfter
<1>4. Established(files', tail') = Established(files, tail)
  BY <1>1, <1>2, <1>3 DEF Established
<1>5. Established(files, tail) \in LogCursor /\ Established(files, tail).current \in DOMAIN files
  BY <1>1 DEF Established, LogCursor, Gone
<1>6. ReadAt' = Established(files', tail') /\ ReadAt = Established(files, tail)
  BY DEF ReadAt
<1> QED
  BY <1>3, <1>4, <1>5, <1>6 DEF Cursor

LEMMA CutFacts ==
    ASSUME PumpInv, StreamInv, NEW i, CutAfter(i)
    PROVE  LET b == files[cur][i] IN
           /\ cur \in Nat /\ i \in Nat /\ b.seq = cur + i - 1 /\ b.seq \in Nat
           /\ b \in OnDisk /\ b.txn_complete
           /\ \A f \in OnDisk : f.seq \in Nat
           /\ \A f : f \in OnDisk' <=> f \in OnDisk /\ f.seq <= b.seq
           /\ \A f \in OnDisk : f.txn_complete => f.seq <= b.seq
           /\ Held = OnDisk /\ Held' = OnDisk'
           /\ Held' \subseteq Held
           /\ \A f \in Held', g \in Held : g.seq <= f.seq => g \in Held'
<1> DEFINE b == files[cur][i]
<1>1. cur \in Nat /\ Len(files[cur]) \in Nat
  BY HeldParts, DiskPlaces DEF TypeOK
<1>2. i \in Nat
  BY <1>1 DEF CutAfter
<1>3. \A f \in OnDisk : f.seq \in Nat
  BY HeldParts, LogParts
<1>4. /\ b.seq = cur + i - 1 /\ b \in OnDisk /\ b.txn_complete
      /\ \A f : f \in OnDisk' <=> f \in OnDisk /\ f.seq <= b.seq
      /\ \A f \in OnDisk : f.txn_complete => f.seq <= b.seq
      /\ Held = OnDisk /\ Held' = OnDisk'
  BY DEF CutAfter
<1> HIDE DEF b
<1>5. Held' \subseteq Held /\ b.seq \in Nat
  BY <1>3, <1>4
<1>6. ASSUME NEW f \in Held', NEW g \in Held, g.seq <= f.seq PROVE g \in Held'
  <2>1. f.seq <= b.seq /\ f.seq \in Nat /\ g.seq \in Nat
    BY <1>3, <1>4
  <2>2. g.seq <= b.seq
    BY <1>5, <1>6, <2>1
  <2> QED
    BY <1>4, <2>2
<1> QED
  BY <1>1, <1>2, <1>3, <1>4, <1>5, <1>6 DEF b

\* What the decoder expects after the cut, where the tail is before it.
LEMMA CutBehind ==
    ASSUME PumpInv, TypeOK', StreamInv, NEW i, CutAfter(i), UNCHANGED <<tail, decoder>>,
           Resumed' = Resumed, Resumed.next_seq \in Nat, Resumed.next_seq <= cur + i
    PROVE  DecoderAt(Resumed', Len(applied), OnDisk') /\ ReadableIn(Held', Resumed')
<1>1. /\ cur \in Nat /\ i \in Nat /\ files[cur][i].seq = cur + i - 1
      /\ \A f \in OnDisk : f.seq \in Nat
      /\ \A f : f \in OnDisk' <=> f \in OnDisk /\ f.seq <= files[cur][i].seq
      /\ Held = OnDisk /\ Held' = OnDisk'
  BY CutFacts
<1> DEFINE d == Resumed
<1> HIDE DEF d
<1>2. d.next_seq \in Nat /\ d.next_seq <= cur + i /\ DecoderAt(d, Len(applied), OnDisk)
      /\ ReadableIn(Held, d) /\ Resumed' = d
  BY HeldParts DEF d, StreamInv
<1>3. \A f \in OnDisk : f.seq < d.next_seq => f \in OnDisk'
  BY <1>1, <1>2
<1>4. DecoderAt(d, Len(applied), OnDisk')
  BY <1>1, <1>2, <1>3, DecoderCut
<1>5. ReadableIn(Held', d)
  <2>1. Held' \subseteq Held /\ \A f \in Held', g \in Held : g.seq <= f.seq => g \in Held'
    BY CutFacts
  <2>2. \A f \in Held : f.seq \in Nat
    BY <1>1
  <2> QED
    BY <1>2, <2>1, <2>2, ChainCut
<1> QED
  BY <1>2, <1>4, <1>5

\* Where the tail has read past the cut, the open transaction is dropped and
\* the decoder expects the first frame of the new file.
LEMMA CutAhead ==
    ASSUME PumpInv, TypeOK', StreamInv, NEW i, CutAfter(i), UNCHANGED <<tail, decoder>>,
           Resumed = decoder, Resumed' = AbortOpenTxn(decoder), decoder.next_seq > cur + i
    PROVE  /\ Resumed'.next_seq = cur + i
           /\ DecoderAt(Resumed', Len(applied), OnDisk') /\ ReadableIn(Held', Resumed')
<1> DEFINE b == files[cur][i]
           n == Len(applied)
           e == AbortOpenTxn(decoder)
<1>1. /\ IInv /\ cur \in Nat /\ i \in Nat /\ b.seq = cur + i - 1 /\ b \in OnDisk /\ b \in Held
      /\ b.txn_complete /\ b.txn \in Nat /\ b.txn >= 1
      /\ \A f \in OnDisk : f.seq \in Nat /\ f \in Held /\ f.txn \in Nat
      /\ \A f : f \in OnDisk' <=> f \in OnDisk /\ f.seq <= b.seq
      /\ \A f \in OnDisk : f.txn_complete => f.seq <= b.seq
      /\ Held = OnDisk /\ Held' = OnDisk'
  BY CutFacts, HeldParts, LogParts
<1>2. /\ decoder \in DecoderState /\ decoder.next_seq \in Nat /\ n \in Nat
      /\ DecoderAt(decoder, n, OnDisk)
  BY TypeParts DEF PumpInv, ApplyType, DecoderState, StreamInv
<1> HIDE DEF b, n, e
<1>3. decoder.started
  <2>1. decoder.next_seq # 0
    BY <1>1, <1>2
  <2> QED
    BY <1>2, <2>1 DEF DecoderAt
<1>4. e.txn = NoTxn /\ e.next_seq = decoder.last_commit_seq + 1 /\ e.started = decoder.started
      /\ e.last_commit_seq = decoder.last_commit_seq
  BY <1>2, <1>3 DEF e, AbortOpenTxn, DecoderState
<1>5. b.txn <= n
  <2>1. b.seq < decoder.next_seq
    BY <1>1, <1>2
  <2> QED
    BY <1>1, <1>2, <2>1 DEF DecoderAt
<1>6. PICK f \in OnDisk : /\ f.txn_complete /\ f.txn = n
                          /\ f.seq = decoder.last_commit_seq /\ f.seq < decoder.next_seq
  <2>1. n # 0
    BY <1>1, <1>2, <1>5
  <2> QED
    BY <1>2, <2>1 DEF DecoderAt
<1>7. f = b
  <2>1. f.seq <= b.seq
    BY <1>1, <1>6
  <2>2. ~(f.seq < b.seq)
    <3>1. f.seq < b.seq => f.txn < b.txn
      BY <1>1, <1>6, LogParts DEF Order
    <3> QED
      BY <1>1, <1>2, <1>5, <1>6, <3>1
  <2>3. f.seq = b.seq
    BY <1>1, <2>1, <2>2
  <2> QED
    BY <1>1, <2>3, LogParts
<1>8. n = b.txn /\ e.last_commit_seq = b.seq /\ e.next_seq = b.seq + 1 /\ e.next_seq = cur + i
  BY <1>1, <1>4, <1>6, <1>7
<1>9. DecoderAt(e, n, OnDisk')
  <2>1. e.started /\ e.next_seq # 0
    BY <1>1, <1>3, <1>4, <1>8
  <2>2. ASSUME NEW g \in OnDisk', g.txn_complete PROVE g.txn <= n
    <3>1. g \in OnDisk /\ g.seq <= b.seq
      BY <1>1
    <3>2. CASE g.seq = b.seq
      BY <1>1, <1>2, <1>8, <3>1, <3>2, LogParts
    <3>3. CASE g.seq # b.seq
      <4>1. g.seq < b.seq
        BY <1>1, <3>1, <3>3
      <4>2. g.txn <= b.txn
        BY <1>1, <3>1, <4>1, LogParts DEF Order
      <4> QED
        BY <1>8, <4>2
    <3> QED
      BY <3>2, <3>3
  <2>3. b \in OnDisk' /\ b.seq < e.next_seq
    BY <1>1, <1>8
  <2>4. ASSUME NEW g \in OnDisk', g.seq + 1 = e.next_seq PROVE LeftBy(e, g)
    <3>1. g \in OnDisk /\ g.seq = b.seq
      BY <1>1, <1>8, <2>4
    <3>2. g = b
      BY <1>1, <3>1, LogParts
    <3>3. g.payload = "commit"
      BY <1>1, <3>2 DEF StreamInv, Chained
    <3> QED
      BY <1>4, <3>3 DEF LeftBy
  <2> QED
    BY <1>1, <1>4, <1>8, <2>1, <2>2, <2>3, <2>4 DEF DecoderAt
<1>10. ReadableIn(Held', e)
  <2>1. \A g \in Held' : ~(e.next_seq <= g.seq)
    BY <1>1, <1>8
  <2> QED
    BY <2>1 DEF ReadableIn
<1> QED
  BY <1>8, <1>9, <1>10 DEF e, n

LEMMA CutStreams ==
    ASSUME PumpInv, TypeOK', StreamInv, NEW i, CutAfter(i), UNCHANGED applyVars,
           up', msg' = "begin", rel_sent' = 0
    PROVE  StreamInv'
<1> DEFINE b == files[cur][i]
           c == ReadAt
           n == c.current
           p == Resumed.next_seq
<1>1. UNCHANGED <<tail, decoder, applied, applied_lsn, apply_error>>
  BY DEF applyVars
<1>2. /\ ReadAt' = c /\ c \in LogCursor /\ n \in DOMAIN files
      /\ Gone(files', tail') = FALSE
      /\ Cursor(files', tail') = Clamped(files', c)
      /\ Cursor(files, tail) = Clamped(files, c)
  BY <1>1, CutCursor
<1>3. /\ cur \in Nat /\ cur \in DOMAIN files /\ i \in Nat /\ i >= 1
      /\ cur' = cur + i /\ DOMAIN files' = DOMAIN files \union {cur + i}
      /\ files[cur] \in Seq(Frame) /\ i \in 1..Len(files[cur])
      /\ files'[cur] = SubSeq(files[cur], 1, i)
      /\ \A m \in DOMAIN files : /\ m # cur => files'[m] = files[m]
                                 /\ m \in Nat /\ m <= cur /\ Len(files[m]) \in Nat
                                 /\ (m # cur => m + Len(files[m]) <= cur)
  <2>1. /\ cur \in DOMAIN files
        /\ \A m \in DOMAIN files : m \in Nat /\ m <= cur /\ files[m] \in Seq(Frame) /\ Len(files[m]) \in Nat
    BY HeldParts, Segments
  <2>2. \A m \in DOMAIN files : m # cur => m + Len(files[m]) <= cur
    BY <2>1, HeldParts DEF Tiled
  <2>3. i \in Nat /\ i >= 1
    BY <2>1 DEF CutAfter
  <2> QED
    BY <2>1, <2>2, <2>3 DEF CutAfter
<1>4. /\ p \in Nat /\ AtFrame(files, Clamped(files, c), p) /\ (Shrunk(files, c) => n # cur)
  BY <1>2, HeldParts, TypeParts, ReadsFrom DEF PumpInv, ApplyType, StreamInv, InStep
<1>5. Resumed = IF Shrunk(files, c) THEN AbortOpenTxn(decoder) ELSE decoder
  BY DEF Resumed
<1>6. Resumed' = IF Shrunk(files', c) THEN AbortOpenTxn(decoder) ELSE decoder
  BY <1>1, <1>2 DEF Resumed
<1> HIDE DEF c, p
<1>7. SUFFICES /\ AtFrame(files', Clamped(files', c), Resumed'.next_seq)
               /\ DecoderAt(Resumed', Len(applied), OnDisk') /\ ReadableIn(Held', Resumed')
  <2> SUFFICES ASSUME AtFrame(files', Clamped(files', c), Resumed'.next_seq),
                      DecoderAt(Resumed', Len(applied), OnDisk'), ReadableIn(Held', Resumed')
               PROVE  StreamInv'
    OBVIOUS
  <2>1. InStep'
    <3>1. ReadAt'.current # cur'
      BY <1>2, <1>3
    <3> QED
      BY <1>2, <3>1 DEF InStep
  <2>2. DecoderAt(Resumed, Len(applied), OnDisk)'
    BY <1>1, StreamPartsNext
  <2>3. Readable'
    BY StreamPartsNext
  <2>4. Chained'
    <3>1. ChainedIn(Held')
      BY CutFacts, HeldParts, ChainCut
    <3> QED
      BY <3>1, StreamPartsNext
  <2>5. Upcoming'
    <3>1. next_seq' = cur + i /\ head' = b.txn
      BY DEF CutAfter
    <3>2. next_seq' # 0
      BY <1>3, <3>1
    <3>3. ASSUME NEW g \in Held', g.seq + 1 = next_seq' PROVE Follows(g, msg', head' + 1)
      <4>1. g \in OnDisk /\ g.seq \in Nat /\ b.seq = cur + i - 1 /\ b \in OnDisk
            /\ \A f \in OnDisk : f \in Held
        BY CutFacts, HeldParts
      <4>2. g.seq = b.seq
        BY <1>3, <3>1, <3>3, <4>1
      <4>3. g = b
        BY <4>1, <4>2, LogParts, HeldParts
      <4>4. g.payload = "commit"
        BY <4>1, <4>3, CutFacts DEF StreamInv, Chained
      <4> QED
        BY <3>1, <4>3, <4>4 DEF Follows
    <3>4. UpcomingIn(Held', next_seq', msg', rel_sent', head')
      BY <3>2, <3>3 DEF UpcomingIn
    <3> QED
      BY <3>4, StreamPartsNext
  <2>6. AppliedIsPrefix' /\ NoApplyError'
    BY <1>1 DEF StreamInv, AppliedIsPrefix, NoApplyError
  <2>7. CutInOpenSegment'
    BY DEF CutInOpenSegment
  <2> QED
    BY <2>1, <2>2, <2>3, <2>4, <2>5, <2>6, <2>7 DEF StreamInv
<1>8. CASE n # cur
  <2>1. files'[n] = files[n] /\ n + Len(files[n]) <= cur /\ n \in DOMAIN files'
    BY <1>2, <1>3, <1>8
  <2>2. (Shrunk(files', c) <=> Shrunk(files, c)) /\ Clamped(files', c) = Clamped(files, c)
    BY <2>1 DEF Shrunk, Clamped
  <2>3. Resumed' = Resumed
    BY <1>5, <1>6, <2>2
  <2>4. Clamped(files, c).current = n
    BY <1>2 DEF Clamped, LogCursor
  <2>5. PICK j \in 0..Len(files[n]) :
           Clamped(files, c).offset = Bytes(SubSeq(files[n], 1, j)) /\ p = n + j
    BY <1>4, <2>4 DEF AtFrame
  <2>6. AtFrame(files', Clamped(files', c), p)
    BY <2>1, <2>2, <2>4, <2>5 DEF AtFrame
  <2>7. p <= cur + i
    <3>1. n \in Nat /\ Len(files[n]) \in Nat
      BY <1>2, <1>3
    <3> QED
      BY <1>3, <2>1, <2>5, <3>1
  <2>8. DecoderAt(Resumed', Len(applied), OnDisk') /\ ReadableIn(Held', Resumed')
    BY <1>1, <1>4, <2>3, <2>7, CutBehind DEF p
  <2> QED
    BY <2>3, <2>6, <2>8 DEF p
<1>9. CASE n = cur
  <2>1. ~Shrunk(files, c) /\ Clamped(files, c) = c /\ Resumed = decoder
    BY <1>4, <1>5, <1>9 DEF Clamped
  <2>2. PICK j \in 0..Len(files[cur]) : c.offset = Bytes(SubSeq(files[cur], 1, j)) /\ p = cur + j
    BY <1>4, <1>9, <2>1 DEF AtFrame
  <2> DEFINE kept == SubSeq(files[cur], 1, i)
  <2>3. /\ kept \in Seq(Frame) /\ Len(kept) = i /\ files'[cur] = kept /\ cur \in DOMAIN files'
        /\ Bytes(kept) \in Nat
    <3>1. kept \in Seq(Frame) /\ Len(kept) = i
      BY <1>3
    <3> QED
      BY <1>3, <3>1, BytesType
  <2>4. CASE j <= i
    <3>1. SubSeq(kept, 1, j) = SubSeq(files[cur], 1, j) /\ j \in 0..Len(kept)
      BY <1>3, <2>2, <2>3, <2>4
    <3>2. Bytes(SubSeq(kept, 1, j)) <= Bytes(kept) /\ Bytes(SubSeq(kept, 1, j)) \in Nat
      BY <2>3, <3>1, BytesEnds
    <3> HIDE DEF kept
    <3>3. c.offset = Bytes(SubSeq(kept, 1, j))
      BY <2>2, <3>1
    <3>4. ~Shrunk(files', c) /\ Clamped(files', c) = c
      BY <1>9, <2>3, <3>2, <3>3 DEF Shrunk, Clamped
    <3>5. Resumed' = Resumed
      BY <1>6, <2>1, <3>4
    <3>6. AtFrame(files', c, p)
      BY <1>9, <2>2, <2>3, <3>1, <3>3 DEF AtFrame
    <3>7. p <= cur + i
      BY <1>3, <2>2, <2>4
    <3>8. DecoderAt(Resumed', Len(applied), OnDisk') /\ ReadableIn(Held', Resumed')
      BY <1>1, <1>4, <3>5, <3>7, CutBehind DEF p
    <3> QED
      BY <3>4, <3>5, <3>6, <3>8 DEF p
  <2>5. CASE j > i
    <3>1. Bytes(kept) < c.offset
      <4>1. i \in 0..Len(files[cur]) /\ i < j
        BY <1>3, <2>5
      <4> QED
        BY <1>3, <2>2, <4>1, BytesGrow
    <3> HIDE DEF kept
    <3>2. Shrunk(files', c) /\ Clamped(files', c) = [c EXCEPT !.offset = Bytes(kept)]
      BY <1>9, <2>3, <3>1 DEF Shrunk, Clamped
    <3>3. Resumed' = AbortOpenTxn(decoder)
      BY <1>6, <3>2
    <3>4. decoder.next_seq > cur + i
      BY <1>3, <2>1, <2>2, <2>5 DEF p
    <3>5. /\ Resumed'.next_seq = cur + i
          /\ DecoderAt(Resumed', Len(applied), OnDisk') /\ ReadableIn(Held', Resumed')
      BY <1>1, <2>1, <3>3, <3>4, CutAhead
    <3>6. AtFrame(files', Clamped(files', c), cur + i)
      <4>1. Clamped(files', c).current = cur /\ Clamped(files', c).offset = Bytes(kept)
        BY <1>2, <1>9, <3>2 DEF LogCursor
      <4>2. SubSeq(kept, 1, i) = kept /\ i \in 0..Len(kept)
        <5>1. i \in 0..Len(kept)
          BY <1>3, <2>3
        <5> QED
          BY <2>3, <5>1, BytesEnds
      <4> QED
        BY <2>3, <4>1, <4>2 DEF AtFrame
    <3> QED
      BY <3>5, <3>6
  <2> QED
    BY <1>3, <2>2, <2>4, <2>5
<1> QED
  BY <1>8, <1>9

LEMMA RestartStreams ==
    ASSUME PumpInv, TypeOK', StreamInv, RestartPump
    PROVE  StreamInv'
<1>1. Resume /\ up' /\ msg' = "begin" /\ rel_sent' = 0 /\ UNCHANGED applyVars
  BY DEF RestartPump, Resume
<1>2. CASE \E n \in DOMAIN files : \E i \in DOMAIN files[n] : IsBoundary(n, i) /\ ResumeAt(n, i)
  <2>0. PICK n \in DOMAIN files : \E i \in DOMAIN files[n] : IsBoundary(n, i) /\ ResumeAt(n, i)
    BY <1>2
  <2>1. PICK i \in DOMAIN files[n] : IsBoundary(n, i) /\ ResumeAt(n, i)
    BY <2>0
  <2>2. CutAfter(i)
    BY <1>1, <2>1, CutsOpen
  <2> QED
    BY <1>1, <2>2, CutStreams
<1>3. CASE (\A f \in OnDisk : ~f.txn_complete) /\ ResumeEmpty
  BY <1>3, RestartEmptyStreams
<1> QED
  BY <1>1, <1>2, <1>3 DEF Resume

-----------------------------------------------------------------------------
(***************************************************************************)
(* Every step, and the initial states.                                     *)
(***************************************************************************)
LEMMA StreamStep ==
    ASSUME PumpInv, StreamInv, KillScope = "segment", [PipelineNext]_vars
    PROVE  StreamInv'
<1>1. TypeOK'
  BY PumpKeeps DEF PumpInv, IInv
<1>2. CASE SourceCommit \/ SourceCheckpoint \/ PromptAck \/ StatusTick \/ StallLog \/ UnstallLog
           \/ (\E reply_requested \in BOOLEAN : Keepalive(reply_requested)) \/ UNCHANGED vars
  <2>1. UNCHANGED applyVars /\ UNCHANGED <<files, cur, spill, up, next_seq, head, msg, rel_sent>>
    BY <1>2 DEF SourceCommit, SourceCheckpoint, PromptAck, StatusTick, StallLog, UnstallLog,
                Keepalive, Stall, DrainStart, vars, logVars, sessionVars
  <2> QED
    BY <1>1, <2>1, QuietStreams
<1>3. CASE PumpSync \/ DrainEnd
  <2>1. /\ up /\ SyncAndRoll /\ UNCHANGED applyVars
        /\ UNCHANGED <<next_seq, spill, up, head, msg, rel_sent>>
    BY <1>3 DEF PumpSync, SyncCommit, DrainEnd, DrainSync, sessionVars
  <2>2. spill = <<>>
    BY <1>3, HeldParts DEF PumpSync, SyncCommit, DrainEnd, DrainSync, IInv, Modes
  <2> QED
    BY <1>1, <2>1, <2>2, SyncStreams
<1>4. CASE Drain
  BY <1>1, <1>4, DrainStreams
<1>5. CASE ReceiveFrame
  BY <1>1, <1>5, ReceiveStreams
<1>6. CASE KillPump
  BY <1>1, <1>6, KillStreams
<1>7. CASE RestartPump
  BY <1>1, <1>7, RestartStreams
<1>8. CASE ApplyNewFrames
  BY <1>8, ApplyStreams
<1> QED
  BY <1>2, <1>3, <1>4, <1>5, <1>6, <1>7, <1>8 DEF PipelineNext, Pump

\* A log without frames, and nothing read from it.
LEMMA EmptyStreams ==
    Empty /\ (up => msg = "begin" /\ rel_sent = 0) /\ NothingRead => StreamInv
<1> SUFFICES ASSUME Empty, up => msg = "begin" /\ rel_sent = 0, NothingRead PROVE StreamInv
  OBVIOUS
<1>0. /\ tail = NewTail /\ decoder = NewDecoder
      /\ applied = <<>> /\ applied_lsn = 0 /\ apply_error = "none"
  BY DEF NothingRead
<1>1. /\ files = [n \in {0} |-> <<>>] /\ cur = 0 /\ next_seq = 0 /\ spill = <<>> /\ head = 0
      /\ DOMAIN files = {0} /\ files[0] = <<>>
  BY DEF Empty
<1>2. OnDisk = {} /\ Held = {}
  BY <1>1 DEF OnDisk, Held, Staged
<1>3. Bytes(<<>>) = 0
  <2>1. << >> \in Seq(Frame)
    OBVIOUS
  <2> QED
    BY <2>1, BytesEnds
<1>4. FirstSegment(files) = 0
  BY <1>1 DEF FirstSegment
<1>5. ~Gone(files, tail) /\ ReadAt = [current |-> 0, offset |-> 0]
  BY <1>0, <1>4 DEF Gone, ReadAt, Established, NewTail
<1>6. ~Shrunk(files, ReadAt) /\ Cursor(files, tail) = [current |-> 0, offset |-> 0]
  BY <1>1, <1>3, <1>5 DEF Shrunk, Cursor, Clamped, ReadAt
<1>7. Resumed = NewDecoder
  BY <1>0, <1>6 DEF Resumed
<1>8. Chained /\ Upcoming /\ Readable
  BY <1>1, <1>2 DEF Chained, Upcoming, Readable
<1>9. InStep
  <2>1. SubSeq(<<>>, 1, 0) = <<>> /\ 0 \in 0..Len(<<>>)
    OBVIOUS
  <2>2. AtFrame(files, [current |-> 0, offset |-> 0], 0)
    BY <1>1, <1>3, <2>1 DEF AtFrame
  <2> QED
    BY <1>5, <1>6, <1>7, <2>2 DEF InStep, NewDecoder
<1>10. DecoderAt(Resumed, Len(applied), OnDisk)
  BY <1>0, <1>2, <1>7 DEF DecoderAt, NewDecoder
<1>11. CutInOpenSegment /\ AppliedIsPrefix /\ NoApplyError
  BY <1>0, <1>2 DEF CutInOpenSegment, AppliedIsPrefix, NoApplyError
<1> QED
  BY <1>8, <1>9, <1>10, <1>11 DEF StreamInv

LEMMA EmptyStreamsNext ==
    (Empty /\ (up => msg = "begin" /\ rel_sent = 0) /\ NothingRead)' => StreamInv'
BY EmptyStreams, PTL

\* The invariant of the whole pipeline, from the source's transactions to the
\* apply loop: what is in the log, what is on its way, what was read and what
\* was applied fit together, whatever is stalled, cut, killed or restarted,
\* when a kill leaves a commit in the segment that is being written.
THEOREM StreamInductive == KillScope = "segment" => (PipelineSpec => []StreamInv)
<1> SUFFICES ASSUME KillScope = "segment" PROVE PipelineSpec => []StreamInv
  OBVIOUS
<1>1. PipelineInit => StreamInv
  BY EmptyStreams DEF PipelineInit, PipelineStart, Create, NothingRead
<1>2. PumpInv /\ StreamInv /\ [PipelineNext]_vars => StreamInv'
  BY StreamStep
<1> QED
  BY <1>1, <1>2, PumpInductive, PTL DEF PipelineSpec

\* However the pump is stalled, killed and restarted and the log is cut, the
\* apply loop applies the source's transactions, in order, once each, under
\* the schema they were written with, and none is left out.
THEOREM PipelineAppliesPrefix == KillScope = "segment" => (PipelineSpec => []AppliedIsPrefix)
<1>1. StreamInv => AppliedIsPrefix
  BY DEF StreamInv
<1> QED
  BY <1>1, StreamInductive, PTL

\* Nor does the tail or the decoder ever report an error.
THEOREM PipelineNeverErrs == KillScope = "segment" => (PipelineSpec => []NoApplyError)
<1>1. StreamInv => NoApplyError
  BY DEF StreamInv
<1> QED
  BY <1>1, StreamInductive, PTL

-----------------------------------------------------------------------------
(***************************************************************************)
(* The stream under attach.                                                *)
(***************************************************************************)
\* As long as there is no pipeline, nobody reads.
LEMMA RunningStreams ==
    ASSUME AttachInv, AttachStreamInv, KillScope = "segment", Running
    PROVE  AttachStreamInv'
<1>1. PipelineNext /\ UNCHANGED <<at, loaded>>
  BY RunningStep DEF attachVars
<1>2. StreamInv'
  BY <1>1, StreamStep DEF AttachInv, AttachStreamInv
<1>3. loaded = NoJob => UNCHANGED applyVars
  <2> SUFFICES ASSUME loaded = NoJob PROVE UNCHANGED applyVars
    OBVIOUS
  <2>1. ~ApplyTick
    BY DEF ApplyTick
  <2>2. CASE SourceCommit \/ SourceCheckpoint \/ StatusTick \/ StallLog \/ UnstallLog
             \/ \E reply_requested \in BOOLEAN : Keepalive(reply_requested)
    BY <2>2 DEF SourceCommit, SourceCheckpoint, StatusTick, StallLog, UnstallLog, Keepalive
  <2>3. CASE Pump
    BY <2>3 DEF Pump, ReceiveFrame, PumpSync, PromptAck, Drain, DrainEnd
  <2>4. CASE KillPump \/ RestartPump
    BY <2>4 DEF KillPump, RestartPump
  <2> QED
    BY <2>1, <2>2, <2>3, <2>4 DEF Running
<1> QED
  BY <1>1, <1>2, <1>3 DEF AttachStreamInv, NothingRead, applyVars

LEMMA AttachStreams ==
    ASSUME AttachInv, AttachStreamInv, KillScope = "segment", [AttachNext]_allVars
    PROVE  AttachStreamInv'
<1>1. TypeOK'
  BY AttachKeeps DEF AttachInv, PumpInv, IInv
<1>2. CASE UNCHANGED allVars \/ Attach \/ SlotIsActive \/ DropSlot \/ DropPublication
           \/ EnsurePublication \/ Plan \/ AssembleManifest \/ AttachFails
           \/ \E w \in Worker : PinWorker(w) \/ TakeJob(w) \/ StagePart(w)
  <2>1. UNCHANGED vars /\ loaded' = loaded
    BY <1>2 DEF allVars, attachVars, Attach, SlotIsActive, DropSlot, DropPublication,
                EnsurePublication, Plan, AssembleManifest, AttachFails, PinWorker, TakeJob, StagePart
  <2>2. at' # "idle" => loaded = NoJob
    BY <1>2 DEF AttachStreamInv, allVars, attachVars, Attach, SlotIsActive, DropSlot,
                DropPublication, EnsurePublication, Plan, AssembleManifest, AttachFails,
                PinWorker, TakeJob, StagePart
  <2>3. StreamInv'
    BY <2>1, StreamStep DEF AttachInv, AttachStreamInv
  <2> QED
    BY <2>1, <2>2, <2>3 DEF AttachStreamInv, NothingRead, vars, applyVars
<1>3. CASE CreateSlot
  <2>1. /\ UNCHANGED logVars /\ UNCHANGED applyVars /\ UNCHANGED <<msg, rel_sent>>
        /\ loaded' = loaded /\ at = "create"
    BY <1>3 DEF CreateSlot
  <2>2. StreamInv'
    BY <1>1, <2>1, QuietStreams DEF AttachInv, AttachStreamInv, logVars
  <2> QED
    BY <2>1, <2>2 DEF AttachStreamInv, NothingRead, applyVars
<1>4. CASE CreateLog
  <2>1. /\ UNCHANGED applyVars /\ loaded' = loaded /\ at = "log" /\ up' = up
    BY <1>4 DEF CreateLog
  <2>2. NothingRead /\ NothingRead' /\ loaded = NoJob /\ ~up'
    BY <2>1 DEF AttachStreamInv, NothingRead, applyVars, AttachInv
  <2>3. Empty'
    BY <1>4, CreateLogKeeps DEF AttachInv, CreateLog
  <2>4. StreamInv'
    BY <2>2, <2>3, EmptyStreamsNext
  <2> QED
    BY <2>1, <2>2, <2>4 DEF AttachStreamInv
<1>5. CASE StartPump
  <2>1. /\ UNCHANGED applyVars /\ loaded' = loaded /\ at = "pump"
        /\ msg' = "begin" /\ rel_sent' = 0
    BY <1>5 DEF StartPump, NewSession
  <2>2. NothingRead /\ NothingRead' /\ loaded = NoJob /\ Empty
    BY <2>1 DEF AttachStreamInv, NothingRead, applyVars, AttachInv
  <2>3. Empty'
    BY <1>5, <2>2 DEF StartPump, Empty
  <2>4. StreamInv'
    BY <2>1, <2>2, <2>3, EmptyStreamsNext
  <2> QED
    BY <2>1, <2>2, <2>4 DEF AttachStreamInv
<1>6. CASE BuildShapes
  <2>1. /\ at = "build" /\ at' = "idle" /\ NothingRead' /\ UNCHANGED logVars
        /\ UNCHANGED sessionVars
    BY <1>6 DEF BuildShapes, NothingRead
  <2>2. UNCHANGED applyVars
    BY <2>1 DEF AttachStreamInv, NothingRead, applyVars
  <2>3. StreamInv'
    BY <1>1, <2>1, <2>2, QuietStreams DEF AttachInv, AttachStreamInv, logVars, sessionVars
  <2> QED
    BY <2>1, <2>3 DEF AttachStreamInv
<1> QED
  BY <1>2, <1>3, <1>4, <1>5, <1>6, RunningStreams DEF AttachNext, AttachStep

\* The stream's invariant under attaches: a log, a session or an apply loop is
\* only replaced while nobody reads.
THEOREM AttachStreamInductive == KillScope = "segment" => (AttachSpec => []AttachStreamInv)
<1> SUFFICES ASSUME KillScope = "segment" PROVE AttachSpec => []AttachStreamInv
  OBVIOUS
<1>1. AttachInit => AttachStreamInv
  BY EmptyStreams DEF AttachInit, PipelineStart, AttachStreamInv, NothingRead
<1>2. AttachInv /\ AttachStreamInv /\ [AttachNext]_allVars => AttachStreamInv'
  BY AttachStreams
<1> QED
  BY <1>1, <1>2, AttachInductive, PTL DEF AttachSpec

\* The same across attaches: whichever call of attach fails and however the
\* pump fares while the tables are copied, the apply loop it spawns applies
\* the stream from the slot's consistent point on, in order, once each.
THEOREM AttachAppliesPrefix == KillScope = "segment" => (AttachSpec => []AppliedIsPrefix)
<1>1. AttachStreamInv => AppliedIsPrefix
  BY DEF AttachStreamInv, StreamInv
<1> QED
  BY <1>1, AttachStreamInductive, PTL

\* And no attach leaves an apply loop that reports an error.
THEOREM AttachNeverErrs == KillScope = "segment" => (AttachSpec => []NoApplyError)
<1>1. AttachStreamInv => NoApplyError
  BY DEF AttachStreamInv, StreamInv
<1> QED
  BY <1>1, AttachStreamInductive, PTL

-----------------------------------------------------------------------------
(***************************************************************************)
(* The versions a log of n transactions leaves in a registry.              *)
(***************************************************************************)
\* A transaction is under the schema of the one before, or alters it.
LEMMA SchemaStep ==
    ASSUME NEW n \in Nat
    PROVE  \/ SchemaOf(n + 1) = SchemaOf(n)
           \/ SchemaOf(n + 1) = SchemaOf(n) + 1 /\ n + 1 \in Altered
<1> DEFINE A == {a \in Altered : a <= n}
           B == {a \in Altered : a <= n + 1}
<1>1. (\A a \in Altered : a \in Nat) /\ IsFiniteSet(A)
  BY AlteredAssumption, FS_Subset
<1>6. \A a \in Altered : a <= n + 1 <=> a <= n \/ a = n + 1
  BY <1>1
<1>7. ~(n + 1 <= n)
  OBVIOUS
<1>2. Cardinality(A) \in Nat
  BY <1>1, FS_CardinalityType
<1>3. SchemaOf(n) = Cardinality(A) + 1 /\ SchemaOf(n + 1) = Cardinality(B) + 1
  BY DEF SchemaOf
<1>4. CASE n + 1 \in Altered
  <2>1. B = A \union {n + 1} /\ n + 1 \notin A
    BY <1>4, <1>6, <1>7
  <2>2. Cardinality(B) = Cardinality(A) + 1
    BY <1>1, <2>1, FS_AddElement
  <2> HIDE DEF A, B
  <2> QED
    BY <1>2, <1>3, <1>4, <2>2
<1>5. CASE n + 1 \notin Altered
  <2>1. B = A
    BY <1>5, <1>6
  <2> QED
    BY <1>3, <2>1
<1> QED
  BY <1>4, <1>5

LEMMA SchemaGrows ==
    ASSUME NEW m \in Nat, NEW n \in Nat, m <= n
    PROVE  SchemaOf(m) <= SchemaOf(n)
<1> DEFINE A == {a \in Altered : a <= m}
           B == {a \in Altered : a <= n}
<1>1. (\A a \in Altered : a \in Nat) /\ IsFiniteSet(B)
  BY AlteredAssumption, FS_Subset
<1>6. \A a \in Altered : a <= m => a <= n
  BY <1>1
<1>2. A \subseteq B
  BY <1>6
<1>3. Cardinality(A) <= Cardinality(B) /\ IsFiniteSet(A)
  BY <1>1, <1>2, FS_Subset
<1>4. Cardinality(A) \in Nat /\ Cardinality(B) \in Nat
  BY <1>1, <1>3, FS_CardinalityType
<1>5. SchemaOf(m) = Cardinality(A) + 1 /\ SchemaOf(n) = Cardinality(B) + 1
  BY DEF SchemaOf
<1> HIDE DEF A, B
<1> QED
  BY <1>3, <1>4, <1>5

\* Every schema from the first to the n'th transaction's has a first transaction.
LEMMA FirstUnderIs ==
    ASSUME NEW n \in Nat, n # 0, NEW v \in SchemaOf(1)..SchemaOf(n)
    PROVE  /\ FirstUnder(v) \in 1..n /\ SchemaOf(FirstUnder(v)) = v
           /\ \A u \in 1..(FirstUnder(v) - 1) : SchemaOf(u) < v
<1> DEFINE S == {u \in 1..n : SchemaOf(u) >= v}
<1>1. /\ v \in Nat /\ SchemaOf(1) \in Nat /\ SchemaOf(n) \in Nat /\ SchemaOf(n) >= v /\ SchemaOf(1) <= v
      /\ \A u \in Nat : SchemaOf(u) \in Nat
  BY SchemaOfType
<1>2. S \subseteq Nat /\ n \in S
  BY <1>1
<1>3. PICK w \in S : \A y \in S : w <= y
  BY <1>2, SmallestExists
<1>4. w \in 1..n /\ SchemaOf(w) >= v /\ w \in Nat
  BY <1>3
<1>5. \A u \in 1..(w - 1) : SchemaOf(u) < v
  <2> SUFFICES ASSUME NEW u \in 1..(w - 1), ~(SchemaOf(u) < v) PROVE FALSE
    OBVIOUS
  <2>1. u \in 1..n /\ u \in Nat /\ ~(w <= u)
    BY <1>4
  <2>2. SchemaOf(u) >= v
    BY <1>1, <2>1
  <2> QED
    BY <1>3, <2>1, <2>2
<1> HIDE DEF S
<1>6. SchemaOf(w) = v /\ w \in Altered \union {1}
  <2>1. CASE w = 1
    BY <1>1, <1>4, <2>1
  <2>2. CASE w # 1
    <3>1. w - 1 \in 1..(w - 1) /\ w - 1 \in Nat /\ (w - 1) + 1 = w
      BY <1>4, <2>2
    <3>2. SchemaOf(w - 1) < v /\ SchemaOf(w - 1) \in Nat /\ SchemaOf(w) \in Nat
      BY <1>1, <1>4, <1>5, <3>1
    <3>3. \/ SchemaOf(w) = SchemaOf(w - 1)
          \/ SchemaOf(w) = SchemaOf(w - 1) + 1 /\ w \in Altered
      BY <3>1, SchemaStep
    <3> QED
      BY <1>1, <1>4, <3>2, <3>3
  <2> QED
    BY <2>1, <2>2
<1>7. \A u \in 1..(w - 1) : SchemaOf(u) # v
  BY <1>1, <1>4, <1>5
<1> DEFINE F == FirstUnder(v)
<1>8. F \in Altered \union {1} /\ F >= 1 /\ SchemaOf(F) = v /\ \A u \in 1..(F - 1) : SchemaOf(u) # v
  BY <1>4, <1>6, <1>7 DEF FirstUnder
<1> HIDE DEF F
<1>9. F \in Nat
  BY <1>8, AlteredAssumption
<1>10. F = w
  <2>1. ~(F < w)
    BY <1>4, <1>7, <1>8, <1>9
  <2>2. ~(w < F)
    BY <1>4, <1>6, <1>8, <1>9
  <2> QED
    BY <1>4, <1>9, <2>1, <2>2
<1> QED
  BY <1>4, <1>5, <1>6, <1>10 DEF F

\* How many versions there are, and what they are.
LEMMA VersionsParts ==
    ASSUME NEW n \in Nat
    PROVE  /\ Len(Versions(n)) = (IF n = 0 THEN 0 ELSE SchemaOf(n) - SchemaOf(1) + 1)
           /\ Len(Versions(n)) \in Nat
           /\ DOMAIN Versions(n) = 1..Len(Versions(n))
           /\ Versions(n) = [i \in 1..Len(Versions(n)) |->
                                [valid_from |-> FirstUnder(SchemaOf(1) + i - 1),
                                 schema |-> SchemaOf(1) + i - 1]]
           /\ n = 0 => Versions(n) = <<>>
<1> DEFINE len == IF n = 0 THEN 0 ELSE SchemaOf(n) - SchemaOf(1) + 1
           x(i) == [valid_from |-> FirstUnder(SchemaOf(1) + i - 1), schema |-> SchemaOf(1) + i - 1]
<1>1. len \in Nat
  <2>1. CASE n = 0
    BY <2>1
  <2>2. CASE n # 0
    <3>1. SchemaOf(1) <= SchemaOf(n)
      BY <2>2, SchemaGrows
    <3>2. SchemaOf(1) \in Nat /\ SchemaOf(n) \in Nat
      BY SchemaOfType
    <3> QED
      BY <2>2, <3>1, <3>2
  <2> QED
    BY <2>1, <2>2
<1>2. Versions(n) = [i \in 1..len |-> x(i)]
  BY DEF Versions
<1>4. n = 0 => len = 0
  OBVIOUS
<1> HIDE DEF len, x
<1>3. DOMAIN [i \in 1..len |-> x(i)] = 1..len /\ Len([i \in 1..len |-> x(i)]) = len
  BY <1>1
<1>5. Len(Versions(n)) = len /\ DOMAIN Versions(n) = 1..len
  BY <1>2, <1>3
<1>6. n = 0 => Versions(n) = <<>>
  BY <1>1, <1>2, <1>4
<1> QED
  BY <1>1, <1>2, <1>5, <1>6 DEF len, x

\* A later registry only knows more.
LEMMA VersionsPrefix ==
    ASSUME NEW m \in Nat, NEW n \in Nat, m <= n
    PROVE  IsPrefix(Versions(m), Versions(n))
<1> DEFINE x(i) == [valid_from |-> FirstUnder(SchemaOf(1) + i - 1), schema |-> SchemaOf(1) + i - 1]
           a == Len(Versions(m))
           b == Len(Versions(n))
<1>1. /\ a \in Nat /\ Versions(m) = [i \in 1..a |-> x(i)]
      /\ b \in Nat /\ Versions(n) = [i \in 1..b |-> x(i)]
  BY VersionsParts
<1>2. a <= b
  <2>1. CASE m = 0
    <3>1. a = 0
      BY <2>1, VersionsParts
    <3> HIDE DEF a, b
    <3> QED
      BY <1>1, <3>1
  <2>2. CASE m # 0
    <3>1. n # 0 /\ SchemaOf(m) <= SchemaOf(n)
      BY <2>2, SchemaGrows
    <3>2. SchemaOf(m) \in Nat /\ SchemaOf(n) \in Nat /\ SchemaOf(1) \in Nat
      BY SchemaOfType
    <3>3. a = SchemaOf(m) - SchemaOf(1) + 1 /\ b = SchemaOf(n) - SchemaOf(1) + 1
      BY <2>2, <3>1, VersionsParts
    <3> HIDE DEF a, b
    <3> QED
      BY <3>1, <3>2, <3>3
  <2> QED
    BY <2>1, <2>2
<1> HIDE DEF x
<1>3. SubSeq([i \in 1..a |-> x(i)], 1, a) = [i \in 1..a |-> x(i)]
      /\ SubSeq([i \in 1..b |-> x(i)], 1, a) = [i \in 1..a |-> x(i)]
  <2> HIDE DEF a, b
  <2> QED
    BY <1>1, <1>2
<1> QED
  BY <1>1, <1>2, <1>3 DEF IsPrefix

\* schema_at finds the schema in force at each of the n transactions.
LEMMA VersionsKnow ==
    ASSUME NEW n \in Nat, NEW t \in 1..n
    PROVE  SchemaAt(Versions(n), t) = SchemaOf(t)
<1> DEFINE S1 == SchemaOf(1)
           St == SchemaOf(t)
           Sn == SchemaOf(n)
           reg == Versions(n)
           len == Len(reg)
           j == St - S1 + 1
           inForce == {i \in DOMAIN reg : reg[i].valid_from <= t}
<1>1. n # 0 /\ t \in Nat /\ t >= 1 /\ t <= n /\ S1 \in Nat /\ St \in Nat /\ Sn \in Nat /\ S1 <= St /\ St <= Sn
  BY SchemaGrows, SchemaOfType
<1>2. /\ len = Sn - S1 + 1 /\ DOMAIN reg = 1..len /\ len \in Nat
      /\ \A i \in 1..len : reg[i] = [valid_from |-> FirstUnder(S1 + i - 1), schema |-> S1 + i - 1]
  BY <1>1, VersionsParts
<1>3. SchemaAt(reg, t) = IF inForce = {} THEN 0 ELSE reg[Max(inForce)].schema
  BY DEF SchemaAt
<1>10. \A i \in DOMAIN reg : i \in inForce <=> reg[i].valid_from <= t
  OBVIOUS
<1>11. inForce \subseteq DOMAIN reg
  OBVIOUS
<1>12. j = St - S1 + 1
  OBVIOUS
<1> HIDE DEF reg, len, j, inForce
<1>4. \A i \in 1..len : /\ S1 + i - 1 \in S1..Sn
                        /\ reg[i].valid_from = FirstUnder(S1 + i - 1)
                        /\ reg[i].schema = S1 + i - 1
  BY <1>1, <1>2
<1>5. j \in 1..len /\ S1 + j - 1 = St
  BY <1>1, <1>2, <1>12
<1>6. j \in inForce
  <2>1. reg[j].valid_from = FirstUnder(St) /\ St \in S1..Sn
    BY <1>1, <1>4, <1>5
  <2>2. FirstUnder(St) \in 1..n /\ \A u \in 1..(FirstUnder(St) - 1) : SchemaOf(u) < St
    BY <1>1, <2>1, FirstUnderIs
  <2>3. ~(t < FirstUnder(St))
    <3> SUFFICES ASSUME t < FirstUnder(St) PROVE FALSE
      OBVIOUS
    <3>1. t \in 1..(FirstUnder(St) - 1)
      BY <1>1, <2>2
    <3>2. St < St
      BY <2>2, <3>1
    <3> QED
      BY <1>1, <3>2
  <2>4. FirstUnder(St) <= t
    BY <1>1, <2>2, <2>3
  <2> QED
    BY <1>2, <1>5, <1>10, <2>1, <2>4
<1>7. \A i \in inForce : i <= j
  <2> SUFFICES ASSUME NEW i \in inForce PROVE i <= j
    OBVIOUS
  <2>1. i \in 1..len /\ reg[i].valid_from <= t
    BY <1>2, <1>10, <1>11
  <2> DEFINE w == FirstUnder(S1 + i - 1)
  <2>2. w \in 1..n /\ SchemaOf(w) = S1 + i - 1 /\ w <= t
    BY <1>1, <1>4, <2>1, FirstUnderIs
  <2> HIDE DEF w
  <2>3. S1 + i - 1 <= St
    BY <1>1, <2>2, SchemaGrows
  <2> QED
    BY <1>1, <1>2, <1>12, <2>1, <2>3
<1>8. Max(inForce) = j
  <2>1. \A i \in inForce : i \in Nat
    BY <1>2, <1>11
  <2>2. j \in Nat
    BY <1>6, <2>1
  <2>3. Max(inForce) \in inForce /\ \A y \in inForce : Max(inForce) >= y
    <3>1. \E x \in inForce : \A y \in inForce : x >= y
      BY <1>6, <1>7, <2>1, <2>2
    <3> QED
      BY <3>1 DEF Max
  <2> DEFINE M == Max(inForce)
  <2>4. M \in Nat /\ M <= j /\ M >= j
    BY <1>6, <1>7, <2>1, <2>3
  <2> HIDE DEF M
  <2>5. M = j
    BY <2>2, <2>4
  <2> QED
    BY <2>5 DEF M
<1>9. reg[j].schema = St
  BY <1>4, <1>5
<1> QED
  BY <1>3, <1>6, <1>8, <1>9 DEF reg

\* record_version of the next transaction's schema.
LEMMA RecordNext ==
    ASSUME NEW n \in Nat
    PROVE  /\ RecordVersion(Versions(n), SchemaOf(n + 1), n + 1) = Versions(n + 1)
           /\ n # 0 /\ SchemaOf(n) = SchemaOf(n + 1) => Versions(n) = Versions(n + 1)
<1> DEFINE S1 == SchemaOf(1)
           Sn == SchemaOf(n)
           T == SchemaOf(n + 1)
           x(i) == [valid_from |-> FirstUnder(S1 + i - 1), schema |-> S1 + i - 1]
           a == Len(Versions(n))
           b == Len(Versions(n + 1))
<1>1. n + 1 \in Nat /\ n + 1 # 0 /\ S1 \in Nat /\ Sn \in Nat /\ T \in Nat /\ S1 <= T /\ (n # 0 => S1 <= Sn)
  BY SchemaOfType, SchemaGrows
<1>2. /\ a \in Nat /\ Versions(n) = [i \in 1..a |-> x(i)] /\ (n = 0 => Versions(n) = <<>>)
      /\ a = IF n = 0 THEN 0 ELSE Sn - S1 + 1
      /\ b \in Nat /\ Versions(n + 1) = [i \in 1..b |-> x(i)] /\ b = T - S1 + 1
  BY <1>1, VersionsParts
<1>3. T \in S1..T /\ FirstUnder(T) \in 1..(n + 1) /\ SchemaOf(FirstUnder(T)) = T
  BY <1>1, FirstUnderIs
<1> HIDE DEF a, b
<1>4. CASE n # 0 /\ Sn = T
  <2>1. a = b /\ Versions(n) = Versions(n + 1)
    BY <1>2, <1>4
  <2>2. a \in 1..a
    BY <1>1, <1>2, <1>4
  <2>3. Versions(n) # <<>> /\ Last(Versions(n)) = x(a)
    BY <1>2, <2>2 DEF Last, a
  <2>4. x(a).schema = T
    BY <1>1, <1>2, <1>4
  <2> QED
    BY <2>1, <2>3, <2>4 DEF RecordVersion
<1>5. CASE n = 0 \/ Sn # T
  <2>1. a + 1 = b /\ S1 + b - 1 = T
    <3>1. CASE n = 0
      <4>1. T = S1
        BY <3>1
      <4> HIDE DEF T, S1
      <4> QED
        BY <1>1, <1>2, <3>1, <4>1
    <3>2. CASE n # 0
      <4>1. T = Sn + 1
        BY <1>5, <3>2, SchemaStep
      <4> HIDE DEF T, S1, Sn
      <4> QED
        BY <1>1, <1>2, <3>2, <4>1
    <3> QED
      BY <3>1, <3>2
  <2>2. FirstUnder(T) = n + 1
    <3> DEFINE F == FirstUnder(T)
    <3> SUFFICES ASSUME F # n + 1 PROVE FALSE
      OBVIOUS
    <3> HIDE DEF F
    <3>1. F \in 1..(n + 1) /\ SchemaOf(F) = T
      BY <1>3 DEF F
    <3>2. F \in Nat /\ F <= n /\ n # 0
      BY <3>1
    <3>3. T <= Sn
      BY <3>1, <3>2, SchemaGrows
    <3>4. T = Sn \/ T = Sn + 1
      BY SchemaStep
    <3> QED
      BY <1>1, <1>5, <3>2, <3>3, <3>4
  <2>3. x(b) = [valid_from |-> n + 1, schema |-> T]
    BY <2>1, <2>2
  <2>4. ~(Versions(n) # <<>> /\ Last(Versions(n)).schema = T)
    <3>1. CASE n = 0
      BY <1>2, <3>1
    <3>2. CASE n # 0
      <4>1. a \in 1..a
        BY <1>1, <1>2, <3>2
      <4>2. Last(Versions(n)) = x(a)
        BY <1>2, <4>1 DEF Last, a
      <4>3. x(a).schema = Sn
        BY <1>1, <1>2, <3>2
      <4> QED
        BY <1>5, <3>2, <4>2, <4>3
    <3> QED
      BY <3>1, <3>2
  <2>5. RecordVersion(Versions(n), T, n + 1) = Append(Versions(n), x(b))
    BY <2>3, <2>4 DEF RecordVersion
  <2> HIDE DEF x
  <2>6. Append([i \in 1..a |-> x(i)], x(a + 1)) = [i \in 1..(a + 1) |-> x(i)]
    BY <1>2
  <2>7. Append(Versions(n), x(b)) = Versions(n + 1)
    BY <1>2, <2>1, <2>6
  <2> QED
    BY <1>5, <2>5, <2>7
<1> QED
  BY <1>4, <1>5

-----------------------------------------------------------------------------
(***************************************************************************)
(* What feeding makes of the registry.                                     *)
(***************************************************************************)
LEMMA RecordNone ==
    ASSUME NEW r, NEW l
    PROVE  RecordVersions(r, <<>>, l) = r
<1> DEFINE Step(f, i) == IF i = 0 THEN r ELSE RecordVersion(f[i - 1], <<>>[i], l)
           g == CHOOSE f : f = [i \in 0..Len(<<>>) |-> Step(f, i)]
<1>1. RecordVersions(r, <<>>, l) = g[Len(<<>>)]
  BY DEF RecordVersions
<1>2. Len(<<>>) = 0 /\ \A i \in 0..0 : i = 0
  OBVIOUS
<1>3. \A f : [i \in 0..0 |-> Step(f, i)] = [i \in 0..0 |-> r]
  BY <1>2
<1> HIDE DEF Step
<1>4. g = [i \in 0..0 |-> Step(g, i)]
  BY <1>2, <1>3
<1> HIDE DEF g
<1>5. g = [i \in 0..0 |-> r]
  BY <1>3, <1>4
<1>6. g[0] = r
  BY <1>5
<1> QED
  BY <1>1, <1>2, <1>6

LEMMA RecordOne ==
    ASSUME NEW r, NEW v, NEW l
    PROVE  RecordVersions(r, <<v>>, l) = RecordVersion(r, v, l)
<1> DEFINE Step(f, i) == IF i = 0 THEN r ELSE RecordVersion(f[i - 1], <<v>>[i], l)
           g == CHOOSE f : f = [i \in 0..Len(<<v>>) |-> Step(f, i)]
           h == [i \in 0..1 |-> IF i = 0 THEN r ELSE RecordVersion(r, v, l)]
<1>1. RecordVersions(r, <<v>>, l) = g[Len(<<v>>)]
  BY DEF RecordVersions
<1>2. Len(<<v>>) = 1 /\ (\A i \in 0..1 : i = 0 \/ i = 1) /\ 0 \in 0..1 /\ 1 \in 0..1 /\ 1 - 1 = 0 /\ <<v>>[1] = v
  OBVIOUS
<1>3. \A f : Step(f, 0) = r /\ Step(f, 1) = RecordVersion(f[0], v, l)
  BY <1>2
<1>4. h[0] = r /\ h[1] = RecordVersion(r, v, l)
  BY <1>2
<1>5. \A i \in 0..1 : h[i] = Step(h, i)
  <2> HIDE DEF h, Step
  <2> QED
    BY <1>2, <1>3, <1>4
<1>6. h = [i \in 0..1 |-> Step(h, i)]
  <2>1. h = [i \in 0..1 |-> h[i]]
    OBVIOUS
  <2> HIDE DEF h, Step
  <2> QED
    BY <1>5, <2>1
<1> HIDE DEF Step, h
<1>7. g = [i \in 0..1 |-> Step(g, i)]
  BY <1>2, <1>6
<1> HIDE DEF g
<1>8. \A i \in 0..1 : g[i] = Step(g, i)
  BY <1>7
<1>9. g[0] = r /\ g[1] = RecordVersion(g[0], v, l)
  BY <1>2, <1>3, <1>8
<1> QED
  BY <1>1, <1>2, <1>9

\* A change without a Relation of its own transaction is not the first, and its
\* schema is that of the transaction before.
LEMMA SameSchema ==
    ASSUME IInv, Chained, NEW f \in OnDisk, f.payload = "change",
           NEW g \in OnDisk, g.payload = "begin", g.seq + 1 = f.seq, g.txn = f.txn
    PROVE  f.txn - 1 # 0 /\ SchemaOf(f.txn - 1) = SchemaOf(f.txn)
<1>1. /\ f \in Held /\ g \in Held /\ g \in Frame /\ f.seq \in Nat /\ g.seq \in Nat /\ f.txn \in Nat
      /\ f.txn >= 1
  BY LogParts
<1>2. PICK r \in Held : r.payload = "relation" /\ r.seq < f.seq /\ SchemaOf(r.txn) = SchemaOf(f.txn)
  BY <1>1 DEF Chained, Announced
<1>3. r.seq \in Nat /\ r.txn \in Nat /\ r.txn >= 1 /\ r # g
  BY <1>2, LogParts
<1>4. r.seq < g.seq
  <2>1. r.seq # g.seq
    BY <1>1, <1>3, LogParts
  <2> QED
    BY <1>1, <1>2, <1>3, <2>1
<1>5. g.seq - 1 \in Nat /\ g.seq - 1 < End /\ (g.seq - 1) + 1 = g.seq
  <2>1. g.seq < End /\ End \in Nat
    BY LogParts
  <2> QED
    BY <1>1, <1>3, <1>4, <2>1
<1>6. PICK c \in OnDisk : c.seq = g.seq - 1
  BY <1>5, FrameNumbered
<1>7. c \in Held /\ c \in Frame /\ c.txn \in Nat /\ c.seq \in Nat
  BY LogParts
<1>8. Follows(c, "begin", f.txn)
  BY <1>1, <1>5, <1>6, <1>7 DEF Chained
<1>9. c.payload = "commit" /\ f.txn = c.txn + 1
  <2>1. c.payload \in {"begin", "relation", "change", "commit"}
    BY <1>7, PayloadAssumption DEF Frame
  <2> QED
    BY <1>8, <2>1 DEF Follows
<1>10. r.txn <= c.txn
  <2>1. r = c \/ r.seq < c.seq
    <3>1. r.seq = c.seq => r = c
      BY <1>7, LogParts
    <3> QED
      BY <1>1, <1>3, <1>4, <1>6, <1>7, <3>1
  <2>2. CASE r = c
    BY <1>3, <2>2
  <2>3. CASE r.seq < c.seq
    BY <1>3, <1>7, <2>3, LogParts DEF Order
  <2> QED
    BY <2>1, <2>2, <2>3
<1>11. f.txn - 1 = c.txn /\ c.txn # 0 /\ c.txn <= f.txn
  BY <1>1, <1>3, <1>7, <1>9, <1>10
<1>12. SchemaOf(r.txn) <= SchemaOf(c.txn) /\ SchemaOf(c.txn) <= SchemaOf(f.txn)
  BY <1>1, <1>3, <1>7, <1>10, <1>11, SchemaGrows
<1>13. SchemaOf(c.txn) \in Nat /\ SchemaOf(f.txn) \in Nat
  BY <1>1, <1>7, SchemaOfType
<1> QED
  BY <1>2, <1>11, <1>12, <1>13

\* Each frame leaves the registry, and the open transaction, as they should be.
LEMMA RegistryStep ==
    ASSUME IInv, Chained, NEW n \in Nat, NEW f \in OnDisk, NEW b, Fed(b, n, f.seq),
           RegistryAt(b.decoder, n + Len(b.changes))
    PROVE  RegistryAt(FeedFrame(b, f).decoder, n + Len(FeedFrame(b, f).changes))
<1> DEFINE d == b.decoder
           k == Len(b.changes)
           m == n + k
           out == FeedFrame(b, f)
           e == out.decoder
<1>1. /\ b \in Outcome /\ b.error = "none" /\ d \in DecoderState /\ k \in Nat /\ m \in Nat
      /\ f \in Held /\ f \in Frame /\ f.seq \in Nat /\ f.txn \in Nat
      /\ d.next_seq = f.seq /\ DecoderAt(d, m, OnDisk)
  BY LogParts DEF Fed, Outcome
<1>2. f.payload \in {"begin", "relation", "change", "commit"} /\ f.txn = m + 1
  BY FrameFits
<1>3. /\ f.payload # "begin" => d.txn # NoTxn
      /\ f.payload = "relation" => d.txn.changes = <<>> /\ d.txn.relations = <<>>
      /\ f.payload = "change" => d.live_rel # 0
      /\ f.payload = "commit" => d.txn.changes = <<[row |-> f.txn, schema |-> SchemaOf(f.txn)]>>
  BY FrameFits
<1>5. RegistryAt(d, m)
  OBVIOUS
<1>6. ASSUME e.registry = d.registry, e.txn.relations = d.txn.relations, out.changes = b.changes,
             d.txn # NoTxn,
             d.txn.relations = <<>> => m # 0 /\ SchemaOf(m) = SchemaOf(m + 1)
      PROVE  RegistryAt(e, n + Len(out.changes))
  <2> HIDE DEF e, d, m, out
  <2>1. n + Len(out.changes) = m
    BY <1>6 DEF m
  <2>2. RegistryAt(e, m)
    BY <1>5, <1>6 DEF RegistryAt
  <2> QED
    BY <2>1, <2>2
<1>7. CASE f.payload = "begin"
  <2>1. out.changes = b.changes
        /\ e = [d EXCEPT !.next_seq = f.seq + 1, !.started = TRUE, !.txn = NewTxn]
    BY <1>1, <1>7, FeedBegin
  <2> HIDE DEF out, e
  <2>2. e.registry = d.registry /\ e.txn.relations = <<>> /\ e.txn.changes = <<>>
    <3> HIDE DEF d
    <3> QED
      BY <1>1, <2>1 DEF DecoderState, NewTxn
  <2>3. n + Len(out.changes) = m
    BY <2>1
  <2> HIDE DEF m, d
  <2>4. RegistryAt(e, m)
    BY <1>5, <2>2 DEF RegistryAt
  <2> QED
    BY <2>3, <2>4 DEF e, out
<1>8. CASE f.payload = "relation"
  <2>3. d.txn # NoTxn /\ d.txn.changes = <<>> /\ d.txn.relations = <<>>
    BY <1>3, <1>8
  <2>4. /\ out.changes = b.changes /\ e.registry = d.registry
        /\ e.txn.relations = Append(d.txn.relations, SchemaOf(f.txn))
        /\ e.txn.changes = d.txn.changes
    BY <1>1, <1>8, <2>3, FeedRelation
  <2> HIDE DEF e, out, d
  <2>5. e.txn.relations = <<SchemaOf(m + 1)>> /\ e.txn.relations # <<>>
    <3>1. \A v : Append(<<>>, v) = <<v>> /\ <<v>> # <<>>
      OBVIOUS
    <3> QED
      BY <1>2, <2>3, <2>4, <3>1
  <2>6. n + Len(out.changes) = m
    BY <2>4
  <2> HIDE DEF m
  <2>7. RegistryAt(e, m)
    BY <1>5, <2>4, <2>5 DEF RegistryAt
  <2> QED
    BY <2>6, <2>7 DEF e, out
<1>9. CASE f.payload = "change"
  <2>1. PICK g \in OnDisk : Follows(g, "change", f.txn) /\ LeftBy(d, g) /\ g.seq + 1 = f.seq
                            /\ g.payload \in {"begin", "relation", "change", "commit"}
    <3>1. f.seq # 0
      BY <1>1, <1>9 DEF Chained
    <3> QED
      BY <1>1, <1>9, <3>1, FrameBefore
  <2>2. g.payload \in {"begin", "relation"} /\ g.txn = f.txn
    BY <2>1 DEF Follows
  <2>3. d.txn # NoTxn /\ d.live_rel # 0
    BY <1>3, <1>9
  <2>5. /\ out.changes = b.changes /\ e.registry = d.registry
        /\ e.txn.relations = d.txn.relations
    BY <1>1, <1>9, <2>3, FeedChange
  <2>6. d.txn.relations = <<>> => m # 0 /\ SchemaOf(m) = SchemaOf(m + 1)
    <3> SUFFICES ASSUME d.txn.relations = <<>> PROVE m # 0 /\ SchemaOf(m) = SchemaOf(m + 1)
      OBVIOUS
    <3>1. \A v : <<v>> # <<>>
      OBVIOUS
    <3>2. g.payload = "begin"
      BY <2>1, <2>2, <3>1 DEF LeftBy
    <3>3. f.txn - 1 # 0 /\ SchemaOf(f.txn - 1) = SchemaOf(f.txn)
      BY <1>9, <2>1, <2>2, <3>2, SameSchema
    <3>4. f.txn - 1 = m
      BY <1>1, <1>2
    <3> QED
      BY <1>2, <3>3, <3>4
  <2> QED
    BY <1>6, <2>3, <2>5, <2>6
<1>10. CASE f.payload = "commit"
  <2>3. d.txn # NoTxn /\ d.txn.changes = <<[row |-> f.txn, schema |-> SchemaOf(f.txn)]>>
    BY <1>3, <1>10
  <2>4. /\ out.changes = b.changes \o Emitted(d.txn, f.txn)
        /\ e.registry = RecordVersions(d.registry, d.txn.relations, f.txn) /\ e.txn = NoTxn
    BY <1>1, <1>10, <2>3, FeedCommit
  <2> HIDE DEF e, out, d
  <2>5. Emitted(d.txn, f.txn) = <<[row |-> f.txn, schema |-> SchemaOf(f.txn), commit_lsn |-> f.txn]>>
    BY <1>1, <2>3, Emits
  <2>6. n + Len(out.changes) = m + 1
    <3>1. \A s \in Seq(TypedChange) : \A x : Len(s \o <<x>>) = Len(s) + 1
      OBVIOUS
    <3>2. Len(out.changes) = k + 1
      BY <1>1, <2>4, <2>5, <3>1 DEF Outcome
    <3>3. n + (k + 1) = m + 1
      BY <1>1
    <3> QED
      BY <3>2, <3>3
  <2>7. d.txn.changes # <<>>
    <3>1. \A v : <<v>> # <<>>
      OBVIOUS
    <3> QED
      BY <2>3, <3>1
  <2> HIDE DEF m, k
  <2>8. e.registry = Versions(m + 1)
    <3>1. CASE d.txn.relations = <<>>
      BY <1>1, <1>5, <2>3, <2>4, <2>7, <3>1, RecordNone, RecordNext DEF RegistryAt
    <3>2. CASE d.txn.relations = <<SchemaOf(m + 1)>>
      <4>1. f.txn = m + 1 /\ m \in Nat /\ d.registry = Versions(m)
        BY <1>1, <1>2, <1>5 DEF RegistryAt
      <4>2. e.registry = RecordVersion(Versions(m), SchemaOf(m + 1), m + 1)
        BY <2>4, <3>2, <4>1, RecordOne
      <4> QED
        BY <4>1, <4>2, RecordNext
    <3> QED
      BY <1>5, <2>3, <3>1, <3>2 DEF RegistryAt
  <2>9. RegistryAt(e, m + 1)
    BY <2>4, <2>8 DEF RegistryAt
  <2> QED
    BY <2>6, <2>9 DEF e, out
<1> QED
  BY <1>2, <1>7, <1>8, <1>9, <1>10

\* So does a whole batch, after each of its frames.
LEMMA RegistryRun ==
    ASSUME IInv, Chained, NEW n \in Nat, NEW d \in DecoderState, NEW frames \in Seq(Frame), NEW run,
           IsFeed(run, d, n, frames),
           \A k \in 1..Len(frames) : frames[k] \in OnDisk /\ frames[k].seq = d.next_seq + k - 1,
           RegistryAt(d, n)
    PROVE  \A i \in 0..Len(frames) : RegistryAt(run[i].decoder, n + Len(run[i].changes))
<1> DEFINE m == Len(frames)
           p == d.next_seq
           G == {i \in 0..m : RegistryAt(run[i].decoder, n + Len(run[i].changes))}
<1>1. m \in Nat /\ p \in Nat
  BY DEF DecoderState
<1>2. /\ run[0] = Unfed(d)
      /\ \A i \in 1..m : run[i] = FeedFrame(run[i - 1], frames[i])
      /\ \A i \in 0..m : Fed(run[i], n, p + i)
  BY DEF IsFeed
<1>3. RegistryAt(run[0].decoder, n + Len(run[0].changes))
  <2>1. run[0].decoder = d /\ Len(run[0].changes) = 0
    BY <1>2 DEF Unfed
  <2>2. n + 0 = n
    OBVIOUS
  <2> QED
    BY <2>1, <2>2
<1>4. 0 \in G
  BY <1>1, <1>3
<1>5. \A i \in 0..m : i \in G <=> RegistryAt(run[i].decoder, n + Len(run[i].changes))
  OBVIOUS
<1>6. \A k \in 1..m : frames[k] \in OnDisk /\ frames[k].seq = p + k - 1
  OBVIOUS
<1> HIDE DEF G, m, p
<1>7. ASSUME NEW i \in 0..(m - 1), i \in G PROVE i + 1 \in G
  <2>1. i + 1 \in 1..m /\ (i + 1) - 1 = i /\ i + 1 \in 0..m /\ i \in 0..m /\ p + (i + 1) - 1 = p + i
    BY <1>1
  <2>2. frames[i + 1] \in OnDisk /\ frames[i + 1].seq = p + i
    BY <1>6, <2>1
  <2>3. Fed(run[i], n, frames[i + 1].seq) /\ RegistryAt(run[i].decoder, n + Len(run[i].changes))
    BY <1>2, <1>5, <1>7, <2>1, <2>2
  <2>4. run[i + 1] = FeedFrame(run[i], frames[i + 1])
    BY <1>2, <2>1
  <2>5. RegistryAt(run[i + 1].decoder, n + Len(run[i + 1].changes))
    BY <2>2, <2>3, <2>4, RegistryStep
  <2> QED
    BY <1>5, <2>1, <2>5
<1>8. \A i \in 0..m : i \in G
  BY <1>1, <1>4, <1>7, IntervalInduction
<1> QED
  BY <1>5, <1>8 DEF m

-----------------------------------------------------------------------------
(***************************************************************************)
(* The registry of the apply loop.                                         *)
(***************************************************************************)
LEMMA ApplyRegistry ==
    ASSUME PumpInv, StreamInv, RegistryInv, ApplyNewFrames
    PROVE  RegistryInv'
<1> DEFINE n == Len(applied)
<1>1. IInv /\ Chained /\ n \in Nat /\ Resumed \in DecoderState
  BY TypeParts, AbortType DEF PumpInv, StreamInv, ApplyType, Resumed
<1>2. PICK frames, run : HasRead(run, frames)
  BY ApplyReads
<1> DEFINE out == run[Len(frames)]
           k == Len(out.changes)
<1>3. /\ frames \in Seq(Frame) /\ IsFeed(run, Resumed, n, frames) /\ Fed(out, n, End)
      /\ \A i \in 1..Len(frames) :
            frames[i] \in OnDisk /\ frames[i].seq = Resumed.next_seq + i - 1
      /\ decoder' = out.decoder /\ applied' = ChangesFrom(0, n + k)
  BY <1>2 DEF HasRead
<1>4. RegistryAt(Resumed, n)
  <2>1. Resumed.registry = decoder.registry /\ (Resumed = decoder \/ Resumed.txn = NoTxn)
    BY TypeParts DEF PumpInv, ApplyType, Resumed, AbortOpenTxn, DecoderState
  <2> QED
    BY <2>1 DEF RegistryInv, RegistryAt
<1>5. Len(frames) \in 0..Len(frames)
  BY <1>3
<1>6. RegistryAt(out.decoder, n + k)
  <2> HIDE DEF n
  <2> QED
    BY <1>1, <1>3, <1>4, <1>5, RegistryRun
<1>7. k \in Nat
  BY <1>3 DEF Fed, Outcome
<1> HIDE DEF n, k, out
<1>8. Len(applied') = n + k
  BY <1>1, <1>3, <1>7, PrefixGrows
<1> QED
  BY <1>3, <1>6, <1>8 DEF RegistryInv

\* The rest of the pipeline leaves it alone.
LEMMA RegistryStands ==
    ASSUME PumpInv, StreamInv, RegistryInv, [PipelineNext]_vars
    PROVE  RegistryInv'
<1>1. CASE ApplyNewFrames
  BY <1>1, ApplyRegistry
<1>2. CASE ~ApplyNewFrames
  <2>1. UNCHANGED applyVars
    <3>1. CASE SourceCommit \/ SourceCheckpoint \/ StatusTick \/ StallLog \/ UnstallLog
               \/ (\E reply_requested \in BOOLEAN : Keepalive(reply_requested))
      BY <3>1 DEF SourceCommit, SourceCheckpoint, StatusTick, StallLog, UnstallLog, Keepalive
    <3>2. CASE Pump
      BY <3>2 DEF Pump, ReceiveFrame, PumpSync, PromptAck, Drain, DrainEnd
    <3>3. CASE KillPump \/ RestartPump \/ UNCHANGED vars
      BY <3>3 DEF KillPump, RestartPump, vars
    <3> QED
      BY <1>2, <3>1, <3>2, <3>3 DEF PipelineNext
  <2> QED
    BY <2>1 DEF RegistryInv, RegistryAt, applyVars
<1> QED
  BY <1>1, <1>2

\* A registry without versions is what nothing applied leaves.
LEMMA NothingKnown == NothingRead => RegistryInv
<1> SUFFICES ASSUME NothingRead PROVE RegistryInv
  OBVIOUS
<1>1. decoder = NewDecoder /\ applied = <<>> /\ Len(applied) = 0
  BY DEF NothingRead
<1>2. decoder.registry = <<>> /\ decoder.txn = NoTxn
  BY <1>1 DEF NewDecoder
<1>3. Versions(0) = <<>>
  BY VersionsParts
<1> QED
  BY <1>1, <1>2, <1>3 DEF RegistryInv, RegistryAt

LEMMA NothingKnownNext == NothingRead' => RegistryInv'
BY NothingKnown, PTL

\* Through kills, cuts and Relations that are sent again, the registry holds
\* one version for every schema of the applied transactions, from the first
\* transaction under it on.
THEOREM RegistryInductive == KillScope = "segment" => (PipelineSpec => []RegistryInv)
<1> SUFFICES ASSUME KillScope = "segment" PROVE PipelineSpec => []RegistryInv
  OBVIOUS
<1>1. PipelineInit => RegistryInv
  BY NothingKnown DEF PipelineInit, PipelineStart, NothingRead
<1>2. PumpInv /\ StreamInv /\ RegistryInv /\ [PipelineNext]_vars => RegistryInv'
  BY RegistryStands
<1> QED
  BY <1>1, <1>2, PumpInductive, StreamInductive, PTL DEF PipelineSpec

LEMMA AttachRegistry ==
    ASSUME AttachInv, AttachStreamInv, RegistryInv, [AttachNext]_allVars
    PROVE  RegistryInv'
<1>1. CASE BuildShapes
  BY <1>1, NothingKnownNext DEF BuildShapes, NothingRead
<1>2. CASE Running
  BY <1>2, RunningStep, RegistryStands DEF AttachInv, AttachStreamInv
<1>3. CASE CreateSlot \/ CreateLog \/ StartPump
  <2>1. UNCHANGED applyVars
    BY <1>3 DEF CreateSlot, CreateLog, StartPump
  <2> QED
    BY <2>1 DEF RegistryInv, RegistryAt, applyVars
<1>4. CASE UNCHANGED allVars \/ Attach \/ SlotIsActive \/ DropSlot \/ DropPublication
           \/ EnsurePublication \/ Plan \/ AssembleManifest \/ AttachFails
           \/ \E w \in Worker : PinWorker(w) \/ TakeJob(w) \/ StagePart(w)
  <2>1. UNCHANGED vars
    BY <1>4 DEF allVars, Attach, SlotIsActive, DropSlot, DropPublication,
                EnsurePublication, Plan, AssembleManifest, AttachFails, PinWorker, TakeJob, StagePart
  <2> QED
    BY <2>1 DEF RegistryInv, RegistryAt, vars, applyVars
<1> QED
  BY <1>1, <1>2, <1>3, <1>4 DEF AttachNext, AttachStep

\* The same under attaches.
THEOREM AttachRegistryInductive == KillScope = "segment" => (AttachSpec => []RegistryInv)
<1> SUFFICES ASSUME KillScope = "segment" PROVE AttachSpec => []RegistryInv
  OBVIOUS
<1>1. AttachInit => RegistryInv
  BY NothingKnown DEF AttachInit, PipelineStart, NothingRead
<1>2. AttachInv /\ AttachStreamInv /\ RegistryInv /\ [AttachNext]_allVars => RegistryInv'
  BY AttachRegistry
<1> QED
  BY <1>1, <1>2, AttachInductive, AttachStreamInductive, PTL DEF AttachSpec

-----------------------------------------------------------------------------
(***************************************************************************)
(* The offline replay of the files.                                        *)
(***************************************************************************)
\* replay_log's loop, frame by frame.
LEMMA ReplayRun ==
    ASSUME NEW frames \in Seq(Frame), NEW g, g[0] = NewReplay,
           \A i \in 1..Len(frames) : g[i] = ReplayFrame(g[i - 1], frames[i])
    PROVE  ReplayLog(frames) = g[Len(frames)]
<1> DEFINE n == Len(frames)
           Step(f, i) == IF i = 0 THEN NewReplay ELSE ReplayFrame(f[i - 1], frames[i])
           replayed == CHOOSE f : f = [i \in 0..n |-> Step(f, i)]
           h == [i \in 0..n |-> g[i]]
           G == {i \in 0..n : replayed[i] = g[i]}
<1>1. n \in Nat
  OBVIOUS
<1>2. ReplayLog(frames) = replayed[n]
  BY DEF ReplayLog
<1>3. \A i \in 0..n : i \in G <=> replayed[i] = g[i]
  OBVIOUS
<1>4. \A f : Step(f, 0) = NewReplay
  OBVIOUS
<1>5. \A i \in 1..n : \A f : Step(f, i) = ReplayFrame(f[i - 1], frames[i])
  OBVIOUS
<1>6. \A i \in 1..n : g[i] = ReplayFrame(g[i - 1], frames[i])
  OBVIOUS
<1>7. \A i \in 0..n : h[i] = g[i]
  OBVIOUS
<1>12. h = [i \in 0..n |-> h[i]]
  OBVIOUS
<1> HIDE DEF n, Step, h, replayed, G
<1>8. \A i \in 0..n : h[i] = Step(h, i)
  <2> SUFFICES ASSUME NEW i \in 0..n PROVE h[i] = Step(h, i)
    OBVIOUS
  <2>1. CASE i = 0
    BY <1>4, <1>7, <2>1
  <2>2. CASE i # 0
    <3>1. i \in 1..n /\ i - 1 \in 0..n
      BY <1>1, <2>2
    <3> QED
      BY <1>5, <1>6, <1>7, <3>1
  <2> QED
    BY <2>1, <2>2
<1>9. h = [i \in 0..n |-> Step(h, i)]
  BY <1>8, <1>12
<1>10. replayed = [i \in 0..n |-> Step(replayed, i)]
  BY <1>9 DEF replayed
<1>11. \A i \in 0..n : replayed[i] = Step(replayed, i)
  BY <1>10
<1>13. 0 \in G
  <2>1. 0 \in 0..n
    BY <1>1
  <2> QED
    BY <1>3, <1>4, <1>11, <2>1
<1>14. ASSUME NEW i \in 0..(n - 1), i \in G PROVE i + 1 \in G
  <2>1. i + 1 \in 1..n /\ i + 1 \in 0..n /\ i \in 0..n /\ (i + 1) - 1 = i
    BY <1>1
  <2>2. replayed[i + 1] = ReplayFrame(replayed[i], frames[i + 1])
    BY <1>5, <1>11, <2>1
  <2>3. g[i + 1] = ReplayFrame(g[i], frames[i + 1])
    BY <1>6, <2>1
  <2> QED
    BY <1>3, <1>14, <2>1, <2>2, <2>3
<1>15. \A i \in 0..n : i \in G
  BY <1>1, <1>13, <1>14, IntervalInduction
<1>16. n \in 0..n
  BY <1>1
<1> QED
  BY <1>2, <1>3, <1>15, <1>16 DEF n

\* What replay_log has of what a decoder has.
Replayed(b) ==
    [txn |-> b.decoder.txn, live_rel |-> b.decoder.live_rel, registry |-> b.decoder.registry,
     changes |-> b.changes, error |-> FALSE]

\* The two decoders make the same of a frame of the log.
LEMMA ReplayStep ==
    ASSUME IInv, Chained, NEW n \in Nat, NEW f \in OnDisk, NEW b, Fed(b, n, f.seq)
    PROVE  ReplayFrame(Replayed(b), f) = Replayed(FeedFrame(b, f))
<1> DEFINE d == b.decoder
           out == FeedFrame(b, f)
           e == out.decoder
           r == Replayed(b)
<1>1. /\ b \in Outcome /\ b.error = "none" /\ d \in DecoderState /\ f \in Frame
      /\ d.next_seq = f.seq
  BY LogParts DEF Fed, Outcome
<1>2. /\ f.payload \in {"begin", "relation", "change", "commit"}
      /\ f.payload # "begin" => d.txn # NoTxn
      /\ f.payload = "change" => d.live_rel # 0
  BY FrameFits
<1>3. out \in Outcome /\ e \in DecoderState /\ (e.txn # NoTxn => e.txn \in TxnBuf)
      /\ (d.txn # NoTxn => d.txn \in TxnBuf)
  BY <1>1, FeedFrameType DEF Outcome, DecoderState
<1>4. /\ r = [txn |-> d.txn, live_rel |-> d.live_rel, registry |-> d.registry,
              changes |-> b.changes, error |-> FALSE]
      /\ Replayed(out) = [txn |-> e.txn, live_rel |-> e.live_rel, registry |-> e.registry,
                          changes |-> out.changes, error |-> FALSE]
  BY DEF Replayed
<1>5. CASE f.payload = "begin"
  <2>1. /\ out.changes = b.changes
        /\ e = [d EXCEPT !.next_seq = f.seq + 1, !.started = TRUE, !.txn = NewTxn]
    BY <1>1, <1>5, FeedBegin
  <2> HIDE DEF e, out, d
  <2>2. e.txn = NewTxn /\ e.live_rel = d.live_rel /\ e.registry = d.registry
    BY <1>1, <2>1 DEF DecoderState
  <2>4. r.error = FALSE
    BY <1>4
  <2> HIDE DEF r
  <2>3. ReplayFrame(r, f) = [r EXCEPT !.txn = NewTxn]
    BY <1>5, <2>4 DEF ReplayFrame
  <2> DEFINE x == NewTxn
  <2> HIDE DEF x
  <2>5. ReplayFrame(r, f) = [txn |-> x, live_rel |-> d.live_rel, registry |-> d.registry,
                             changes |-> b.changes, error |-> FALSE]
    BY <1>4, <2>3 DEF x
  <2> QED
    BY <1>4, <2>1, <2>2, <2>5 DEF r, out, x
<1>6. CASE f.payload = "relation"
  <2>1. /\ out.changes = b.changes /\ e.live_rel = SchemaOf(f.txn) /\ e.txn # NoTxn
        /\ e.txn.changes = d.txn.changes
        /\ e.txn.relations = Append(d.txn.relations, SchemaOf(f.txn))
        /\ e.registry = d.registry
    BY <1>1, <1>2, <1>6, FeedRelation
  <2> HIDE DEF e, out, d
  <2>2. e.txn = [d.txn EXCEPT !.relations = Append(d.txn.relations, SchemaOf(f.txn))]
    BY <1>2, <1>3, <1>6, <2>1 DEF TxnBuf
  <2> HIDE DEF r
  <2>3. ReplayFrame(r, f) =
          [r EXCEPT !.live_rel = SchemaOf(f.txn), !.txn.relations = Append(@, SchemaOf(f.txn))]
    BY <1>2, <1>4, <1>6 DEF ReplayFrame
  <2> DEFINE x == [d.txn EXCEPT !.relations = Append(d.txn.relations, SchemaOf(f.txn))]
  <2>4. ReplayFrame(r, f) = [txn |-> x, live_rel |-> SchemaOf(f.txn), registry |-> d.registry,
                             changes |-> b.changes, error |-> FALSE]
    BY <1>4, <2>3
  <2> QED
    BY <1>4, <2>1, <2>2, <2>4 DEF r, out
<1>7. CASE f.payload = "change"
  <2> DEFINE c == [row |-> f.txn, schema |-> d.live_rel]
  <2>1. /\ out.changes = b.changes /\ e.live_rel = d.live_rel /\ e.txn # NoTxn
        /\ e.txn.changes = Append(d.txn.changes, c)
        /\ e.txn.relations = d.txn.relations
        /\ e.registry = d.registry
    BY <1>1, <1>2, <1>7, FeedChange
  <2> HIDE DEF e, out, d, c
  <2>2. e.txn = [d.txn EXCEPT !.changes = Append(d.txn.changes, c)]
    BY <1>2, <1>3, <1>7, <2>1 DEF TxnBuf
  <2>5. r.live_rel = d.live_rel
    BY <1>4
  <2> HIDE DEF r
  <2>3. ReplayFrame(r, f) = [r EXCEPT !.txn.changes = Append(@, c)]
    BY <1>2, <1>4, <1>7 DEF ReplayFrame, c
  <2> DEFINE x == [d.txn EXCEPT !.changes = Append(d.txn.changes, c)]
  <2>4. ReplayFrame(r, f) = [txn |-> x, live_rel |-> d.live_rel, registry |-> d.registry,
                             changes |-> b.changes, error |-> FALSE]
    BY <1>4, <2>3
  <2> QED
    BY <1>4, <2>1, <2>2, <2>4 DEF r, out
<1>8. CASE f.payload = "commit"
  <2> DEFINE v == RecordVersions(d.registry, d.txn.relations, f.txn)
             s == b.changes \o Emitted(d.txn, f.txn)
  <2>1. out.changes = s /\ e.live_rel = d.live_rel /\ e.txn = NoTxn /\ e.registry = v
    BY <1>1, <1>2, <1>8, FeedCommit
  <2> HIDE DEF e, out, d, r
  <2>2. ReplayFrame(r, f) = [r EXCEPT !.txn = NoTxn, !.registry = v, !.changes = s]
    BY <1>2, <1>4, <1>8 DEF ReplayFrame
  <2> HIDE DEF v, s
  <2>3. ReplayFrame(r, f) = [txn |-> NoTxn, live_rel |-> d.live_rel, registry |-> v,
                             changes |-> s, error |-> FALSE]
    BY <1>4, <2>2
  <2> QED
    BY <1>4, <2>1, <2>3 DEF r, out
<1> QED
  BY <1>2, <1>5, <1>6, <1>7, <1>8

\* Replaying frames that a decoder of its own consumes one by one.
LEMMA ReplayFollows ==
    ASSUME IInv, Chained, NEW frames \in Seq(Frame), NEW run, IsFeed(run, NewDecoder, 0, frames),
           \A k \in 1..Len(frames) : frames[k] \in OnDisk /\ frames[k].seq = k - 1
    PROVE  ReplayLog(frames) = Replayed(run[Len(frames)])
<1> DEFINE m == Len(frames)
           g == [i \in 0..m |-> Replayed(run[i])]
<1>1. m \in Nat /\ NewDecoder.next_seq = 0
  BY DEF NewDecoder
<1>2. /\ run[0] = Unfed(NewDecoder)
      /\ \A i \in 1..m : run[i] = FeedFrame(run[i - 1], frames[i])
      /\ \A i \in 0..m : Fed(run[i], 0, 0 + i)
  BY <1>1 DEF IsFeed
<1>3. \A i \in 0..m : g[i] = Replayed(run[i])
  OBVIOUS
<1>4. \A k \in 1..m : frames[k] \in OnDisk /\ frames[k].seq = k - 1
  OBVIOUS
<1> HIDE DEF g, m
<1>5. g[0] = NewReplay
  <2>1. 0 \in 0..m
    BY <1>1
  <2>2. Replayed(Unfed(NewDecoder)) = NewReplay
    BY DEF Replayed, Unfed, NewDecoder, NewReplay
  <2> QED
    BY <1>2, <1>3, <2>1, <2>2
<1>6. \A i \in 1..m : g[i] = ReplayFrame(g[i - 1], frames[i])
  <2> SUFFICES ASSUME NEW i \in 1..m PROVE g[i] = ReplayFrame(g[i - 1], frames[i])
    OBVIOUS
  <2>1. i \in 0..m /\ i - 1 \in 0..m /\ 0 + (i - 1) = i - 1
    BY <1>1
  <2>2. frames[i] \in OnDisk /\ Fed(run[i - 1], 0, frames[i].seq)
    BY <1>2, <1>4, <2>1
  <2>3. ReplayFrame(Replayed(run[i - 1]), frames[i]) = Replayed(FeedFrame(run[i - 1], frames[i]))
    BY <2>2, ReplayStep
  <2> QED
    BY <1>2, <1>3, <2>1, <2>3
<1>7. m \in 0..m
  BY <1>1
<1>8. ReplayLog(frames) = g[m]
  BY <1>5, <1>6, ReplayRun DEF m
<1> QED
  BY <1>3, <1>7, <1>8 DEF m

\* The files hold the frames from the first number to the last.
LEMMA AllFramesRead ==
    ASSUME TypeOK, Geometry
    PROVE  LET frames == AllFrames(files) IN
           /\ frames \in Seq(Frame) /\ Len(frames) = End
           /\ \A k \in 1..Len(frames) : frames[k] \in OnDisk /\ frames[k].seq = k - 1
<1> DEFINE n == FirstSegment(files)
           c == [current |-> n, offset |-> 0]
           batch == ReadNew(files, c, c)
<1>1. /\ n \in DOMAIN files /\ n \in Nat /\ files[n] \in Seq(Frame)
      /\ cur \in DOMAIN files /\ cur \in Nat /\ Len(files[cur]) \in Nat /\ Len(files[n]) \in Nat
      /\ End \in Nat /\ \A k \in DOMAIN files : n <= k /\ k \in Nat
  <2>1. /\ n \in DOMAIN files /\ cur \in DOMAIN files
        /\ \A k \in DOMAIN files : k \in Nat /\ files[k] \in Seq(Frame)
    BY Segments DEF Geometry
  <2>2. \A k \in DOMAIN files : n <= k
    <3>1. \A k \in DOMAIN files : k \in Nat
      BY <2>1
    <3>2. \E least \in DOMAIN files : \A y \in DOMAIN files : least <= y
      BY <2>1, <3>1, SmallestExists
    <3> QED
      BY <3>2 DEF FirstSegment
  <2> HIDE DEF n
  <2> QED
    BY <2>1, <2>2 DEF End
<1>2. n = 0
  <2>1. CASE End = 0
    <3>1. cur = 0
      BY <1>1, <2>1 DEF End
    <3> HIDE DEF n
    <3> QED
      BY <1>1, <3>1
  <2>2. CASE End # 0
    <3>1. 0 \in 0..(End - 1)
      BY <1>1, <2>2
    <3>2. PICK k \in DOMAIN files : k <= 0
      BY <3>1 DEF Geometry, Tiled
    <3> HIDE DEF n
    <3> QED
      BY <1>1, <3>2
  <2> QED
    BY <2>1, <2>2
<1>8. Bytes(SubSeq(files[n], 1, 0)) = 0 /\ 0 \in 0..Len(files[n])
  <2> HIDE DEF n
  <2>1. SubSeq(files[n], 1, 0) = <<>> /\ Bytes(<<>>) = 0
    BY <1>1, BytesEnds
  <2>2. Bytes(SubSeq(files[n], 1, 0)) = 0
    BY <2>1, Zenon
  <2> QED
    BY <1>1, <2>2
<1>3. c \in LogCursor /\ AtFrame(files, c, 0)
  <2>1. c \in LogCursor /\ c.current = n /\ c.offset = 0
    BY <1>1 DEF LogCursor
  <2> HIDE DEF c, n
  <2> QED
    BY <1>1, <1>2, <1>8, <2>1 DEF AtFrame
<1>4. batch.frames = AllFrames(files)
  <2>1. Decodes(files[n], 0) /\ From(files[n], 0) = SubSeq(files[n], 1, Len(files[n]))
    <3> HIDE DEF n
    <3> QED
      BY <1>1, <1>8, FromFrame
  <2>2. SubSeq(files[n], 1, Len(files[n])) = files[n]
    BY <1>1, BytesEnds
  <2> QED
    BY <2>1, <2>2 DEF ReadNew, AllFrames
<1>5. /\ batch.frames \in Seq(Frame) /\ 0 + Len(batch.frames) = End
      /\ \A k \in 1..Len(batch.frames) : batch.frames[k] \in OnDisk /\ batch.frames[k].seq = 0 + k - 1
  <2> HIDE DEF c
  <2> QED
    BY <1>3, ReadAtFrame
<1> DEFINE frames == AllFrames(files)
<1> HIDE DEF frames, batch
<1>6. batch.frames = frames
  BY <1>4 DEF frames
<1>7. Len(frames) \in Nat /\ 0 + Len(frames) = Len(frames) /\ \A k \in 1..Len(frames) : 0 + k - 1 = k - 1
  BY <1>5, <1>6
<1> QED
  BY <1>5, <1>6, <1>7 DEF frames

\* What replaying the files gives: the changes and the versions of all the
\* transactions they hold in full, no fewer than were applied.
LEMMA ReplayOfFiles ==
    ASSUME IInv, StreamInv, Len(applied) \in Nat
    PROVE  LET offline == ReplayLog(AllFrames(files)) IN
           \E n \in Nat : /\ Len(applied) <= n /\ ~offline.error
                          /\ offline.changes = ChangesFrom(0, n) /\ offline.registry = Versions(n)
<1> DEFINE frames == AllFrames(files)
           d == NewDecoder
<1>1. /\ TypeOK /\ Geometry /\ Chained /\ Upcoming /\ End \in Nat
      /\ DecoderAt(Resumed, Len(applied), OnDisk)
      /\ \A f \in Held : f.seq \in Nat
      /\ \A f \in OnDisk : f.seq < End /\ f \in Held
  BY LogParts DEF StreamInv
<1>2. /\ frames \in Seq(Frame) /\ Len(frames) = End
      /\ \A k \in 1..Len(frames) : frames[k] \in OnDisk /\ frames[k].seq = k - 1
  BY <1>1, AllFramesRead
<1>3. d \in DecoderState /\ d.next_seq = 0 /\ d.txn = NoTxn /\ d.started = FALSE
      /\ d.registry = <<>> /\ d.live_rel = 0
  BY DEF DecoderState, NewDecoder
<1> HIDE DEF frames, d
<1>4. DecoderAt(d, 0, OnDisk)
  <2>1. \A f \in OnDisk : f.seq \in Nat
    BY <1>1
  <2>2. \A f \in OnDisk : ~(f.seq < 0) /\ f.seq + 1 # 0
    BY <2>1
  <2> QED
    BY <1>3, <2>2 DEF DecoderAt
<1>5. \A v, s : Announced(v, s) => ReadsAs(v, s, d)
  <2> SUFFICES ASSUME NEW v, NEW s, Announced(v, s) PROVE ReadsAs(v, s, d)
    OBVIOUS
  <2>1. PICK r \in Held : r.payload = "relation" /\ r.seq < s /\ SchemaOf(r.txn) = v
    BY DEF Announced
  <2>2. d.next_seq <= r.seq
    BY <1>1, <1>3
  <2> QED
    BY <2>1, <2>2 DEF ReadsAs
<1>6. /\ \A f \in Held : f.payload = "change" /\ d.next_seq <= f.seq
                            => ReadsAs(SchemaOf(f.txn), f.seq, d)
      /\ up /\ rel_sent # 0 => ReadsAs(rel_sent, next_seq, d)
  BY <1>1, <1>5 DEF Chained, Upcoming
<1>7. /\ d.next_seq + Len(frames) = End
      /\ \A k \in 1..Len(frames) : frames[k] \in OnDisk /\ frames[k].seq = d.next_seq + k - 1
  <2>1. 0 + End = End /\ \A k \in 1..Len(frames) : 0 + k - 1 = k - 1
    BY <1>1, <1>2
  <2> QED
    BY <1>2, <1>3, <2>1
<1>8. PICK run : IsFeed(run, d, 0, frames)
  BY <1>1, <1>2, <1>3, <1>4, <1>6, <1>7, FeedAll
<1> DEFINE out == run[Len(frames)]
           n == Len(out.changes)
<1>9. Fed(out, 0, End)
  <2>1. Len(frames) \in 0..Len(frames) /\ d.next_seq + Len(frames) = End
    BY <1>1, <1>2, <1>7
  <2> QED
    BY <1>8, <2>1 DEF IsFeed
<1>10. RegistryAt(d, 0)
  BY <1>3, VersionsParts DEF RegistryAt
<1>11. RegistryAt(out.decoder, 0 + n)
  <2>1. Len(frames) \in 0..Len(frames)
    BY <1>1, <1>2
  <2> QED
    BY <1>1, <1>2, <1>3, <1>7, <1>8, <1>10, <2>1, RegistryRun
<1>12. ReplayLog(frames) = Replayed(out)
  BY <1>1, <1>2, <1>8, ReplayFollows DEF d
<1> HIDE DEF out
<1>13. n \in Nat /\ out.changes = ChangesFrom(0, n) /\ DecoderAt(out.decoder, 0 + n, OnDisk)
       /\ out.decoder.next_seq = End
  BY <1>9 DEF Fed, Outcome
<1> HIDE DEF n
<1>14. 0 + n = n
  BY <1>13
<1>15. Len(applied) <= n
  <2>1. CASE Len(applied) = 0
    BY <1>13, <2>1
  <2>2. CASE Len(applied) # 0
    <3>1. PICK f \in OnDisk : f.txn_complete /\ f.txn = Len(applied)
      BY <1>1, <2>2 DEF DecoderAt
    <3>2. f.seq < out.decoder.next_seq
      BY <1>1, <1>13, <3>1
    <3>3. f.txn <= n
      BY <1>13, <1>14, <3>1, <3>2 DEF DecoderAt
    <3> QED
      BY <3>1, <3>3
  <2> QED
    BY <2>1, <2>2
<1>16. Replayed(out).error = FALSE /\ Replayed(out).changes = out.changes
       /\ Replayed(out).registry = out.decoder.registry
  BY DEF Replayed
<1>17. out.decoder.registry = Versions(n)
  BY <1>11, <1>14 DEF RegistryAt
<1> QED
  BY <1>12, <1>13, <1>15, <1>16, <1>17 DEF frames

\* Why the offline replay agrees with the live decoder.
LEMMA ReplaysAlike == PumpInv /\ StreamInv /\ RegistryInv => ReplayAgrees
<1> SUFFICES ASSUME PumpInv, StreamInv, RegistryInv PROVE ReplayAgrees
  OBVIOUS
<1> DEFINE offline == ReplayLog(AllFrames(files))
           m == Len(applied)
<1>1. IInv /\ m \in Nat
  BY TypeParts DEF PumpInv, ApplyType
<1>2. PICK n \in Nat : /\ m <= n /\ ~offline.error
                       /\ offline.changes = ChangesFrom(0, n) /\ offline.registry = Versions(n)
  BY <1>1, ReplayOfFiles
<1>3. applied = ChangesFrom(0, m) /\ decoder.registry = Versions(m)
  BY PrefixForm DEF StreamInv, AppliedIsPrefix, RegistryInv, RegistryAt
<1> HIDE DEF offline, m
<1>4. Len(ChangesFrom(0, n)) = n
  BY PrefixGrows
<1>5. IsPrefix(applied, offline.changes)
  <2> DEFINE x(i) == [row |-> 0 + i, schema |-> SchemaOf(0 + i), commit_lsn |-> 0 + i]
  <2>1. applied = [i \in 1..m |-> x(i)] /\ offline.changes = [i \in 1..n |-> x(i)]
    BY <1>2, <1>3 DEF ChangesFrom
  <2> HIDE DEF x
  <2>2. SubSeq([i \in 1..m |-> x(i)], 1, m) = [i \in 1..m |-> x(i)]
        /\ SubSeq([i \in 1..n |-> x(i)], 1, m) = [i \in 1..m |-> x(i)]
        /\ Len([i \in 1..m |-> x(i)]) = m /\ Len([i \in 1..n |-> x(i)]) = n
    BY <1>1, <1>2
  <2> QED
    BY <1>2, <2>1, <2>2 DEF IsPrefix
<1>6. IsPrefix(decoder.registry, offline.registry)
  BY <1>1, <1>2, <1>3, VersionsPrefix
<1>7. \A t \in 1..Len(offline.changes) : SchemaAt(offline.registry, t) = SchemaOf(t)
  BY <1>2, <1>4, VersionsKnow
<1>8. \A t \in 1..Len(applied) : SchemaAt(decoder.registry, t) = SchemaOf(t)
  BY <1>1, <1>3, VersionsKnow DEF m
<1> QED
  BY <1>2, <1>5, <1>6, <1>7, <1>8 DEF ReplayAgrees, offline

\* The same frames give the same result: whatever the live decoder has been
\* through, replaying the files from the first frame on meets no error, gives
\* what was applied and perhaps more, and both registries name the schema in
\* force at every commit.
THEOREM PipelineReplays == KillScope = "segment" => (PipelineSpec => []ReplayAgrees)
<1> SUFFICES ASSUME KillScope = "segment" PROVE PipelineSpec => []ReplayAgrees
  OBVIOUS
<1> QED
  BY PumpInductive, StreamInductive, RegistryInductive, ReplaysAlike, PTL

\* And so they do under attaches, from each one's consistent point on.
THEOREM AttachReplays == KillScope = "segment" => (AttachSpec => []ReplayAgrees)
<1> SUFFICES ASSUME KillScope = "segment" PROVE AttachSpec => []ReplayAgrees
  OBVIOUS
<1>1. AttachInv /\ AttachStreamInv /\ RegistryInv => ReplayAgrees
  BY ReplaysAlike DEF AttachInv, AttachStreamInv
<1> QED
  BY <1>1, AttachInductive, AttachStreamInductive, AttachRegistryInductive, PTL

-----------------------------------------------------------------------------
(***************************************************************************)
(* The jobs of a plan.                                                     *)
(***************************************************************************)
\* One row's jobs in a list, and in two lists one after the other.
LEMMA RowsAppended ==
    ASSUME NEW h, NEW s \in Seq(Job), NEW t \in Seq(Job)
    PROVE  /\ One(ForRow(s, h)) /\ ForRow(t, h) = {} => One(ForRow(s \o t, h))
           /\ ForRow(s, h) = {} /\ One(ForRow(t, h)) => One(ForRow(s \o t, h))
           /\ ForRow(s, h) = {} /\ ForRow(t, h) = {} => ForRow(s \o t, h) = {}
<1>1. /\ Len(s) \in Nat /\ Len(t) \in Nat /\ DOMAIN s = 1..Len(s) /\ DOMAIN t = 1..Len(t)
      /\ DOMAIN (s \o t) = 1..(Len(s) + Len(t))
      /\ \A i \in 1..Len(s) : (s \o t)[i] = s[i]
      /\ \A i \in 1..Len(t) : (s \o t)[Len(s) + i] = t[i]
  OBVIOUS
<1> DEFINE u == s \o t
<1> HIDE DEF u
<1>2. \A i : i \in ForRow(u, h) <=> \/ i \in ForRow(s, h)
                                    \/ \E k \in ForRow(t, h) : i = Len(s) + k
  <2> SUFFICES ASSUME NEW i
               PROVE  i \in ForRow(u, h) <=> \/ i \in ForRow(s, h)
                                             \/ \E k \in ForRow(t, h) : i = Len(s) + k
    OBVIOUS
  <2>1. i \in ForRow(s, h) => i \in ForRow(u, h)
    BY <1>1 DEF u, ForRow
  <2>2. ASSUME NEW k \in ForRow(t, h), i = Len(s) + k PROVE i \in ForRow(u, h)
    <3>1. k \in 1..Len(t) /\ Within(t[k], h)
      BY <1>1 DEF ForRow
    <3>2. i \in DOMAIN u /\ u[i] = t[k]
      BY <1>1, <2>2, <3>1 DEF u
    <3> QED
      BY <3>1, <3>2 DEF ForRow
  <2>3. ASSUME i \in ForRow(u, h)
        PROVE  i \in ForRow(s, h) \/ \E k \in ForRow(t, h) : i = Len(s) + k
    <3>1. i \in 1..(Len(s) + Len(t)) /\ Within(u[i], h)
      BY <1>1, <2>3 DEF ForRow, u
    <3>2. CASE i \in 1..Len(s)
      BY <1>1, <3>1, <3>2 DEF ForRow, u
    <3>3. CASE i \notin 1..Len(s)
      <4>1. i - Len(s) \in 1..Len(t) /\ i = Len(s) + (i - Len(s))
        BY <1>1, <3>1, <3>3
      <4>2. u[i] = t[i - Len(s)]
        BY <1>1, <4>1 DEF u
      <4>3. i - Len(s) \in ForRow(t, h)
        BY <1>1, <3>1, <4>1, <4>2 DEF ForRow
      <4> QED
        BY <4>1, <4>3
    <3> QED
      BY <3>2, <3>3
  <2> QED
    BY <2>1, <2>2, <2>3
<1>3. One(ForRow(s, h)) /\ ForRow(t, h) = {} => One(ForRow(u, h))
  <2> SUFFICES ASSUME NEW x, ForRow(s, h) = {x}, ForRow(t, h) = {} PROVE ForRow(u, h) = {x}
    BY DEF One
  <2> QED
    BY <1>2
<1>4. ForRow(s, h) = {} /\ One(ForRow(t, h)) => One(ForRow(u, h))
  <2> SUFFICES ASSUME NEW x, ForRow(t, h) = {x}, ForRow(s, h) = {} PROVE ForRow(u, h) = {Len(s) + x}
    BY DEF One
  <2> QED
    BY <1>2
<1>5. ForRow(s, h) = {} /\ ForRow(t, h) = {} => ForRow(u, h) = {}
  BY <1>2
<1> QED
  BY <1>3, <1>4, <1>5 DEF u

\* A table is cut in one to Streams parts.
LEMMA PartCountType ==
    ASSUME NEW r \in Nat
    PROVE  PartCount(r) \in Nat /\ PartCount(r) >= 1 /\ Chunk(r) \in Nat /\ Chunk(r) >= 1
<1>1. Streams \in Nat /\ Streams >= 1
  <2>1. Cardinality(Worker) \in Nat /\ Cardinality(Worker) # 0
    BY CopyAssumption, FS_CardinalityType, FS_EmptySet
  <2> QED
    BY <2>1 DEF Streams
<1>2. Chunk(r) \in Nat /\ Chunk(r) >= 1
  <2>1. r \div Streams \in Int
    BY <1>1
  <2> QED
    BY <2>1 DEF Chunk, Greater
<1> DEFINE c == Chunk(r)
           enough(n) == n = Streams \/ (n - 1) * c >= r
           S == {n \in 1..Streams : enough(n)}
           right(n) == (\A i \in 1..(n - 1) : (i - 1) * c < r) /\ enough(n)
<1>3. S \in SUBSET Nat /\ S # {}
  <2>1. Streams \in S
    BY <1>1
  <2> QED
    BY <1>1, <2>1
<1>4. PICK n \in S : \A y \in S : n <= y
  BY <1>3, SmallestExists
<1>5. n \in 1..Streams /\ enough(n)
  OBVIOUS
<1>6. ASSUME NEW i \in 1..(n - 1) PROVE (i - 1) * c < r
  <2>1. i \in 1..Streams /\ ~(n <= i)
    BY <1>1, <1>5
  <2>2. ~enough(i)
    BY <1>4, <2>1
  <2>3. (i - 1) * c \in Int
    BY <1>2, <2>1
  <2> QED
    BY <2>2, <2>3
<1>7. right(n)
  BY <1>5, <1>6
<1>8. PartCount(r) = CHOOSE m \in 1..Streams : right(m)
  BY DEF PartCount
<1> HIDE DEF right
<1>9. PartCount(r) \in 1..Streams
  BY <1>5, <1>7, <1>8
<1> QED
  BY <1>1, <1>2, <1>9

\* A row of the table is in one of its parts, wherever its page is.
LEMMA PartsOfTable ==
    ASSUME NEW t \in {Table[i] : i \in DOMAIN Table}, NEW r \in Nat
    PROVE  /\ PlanTable(t, r) \in Seq(Job)
           /\ \A k \in DOMAIN PlanTable(t, r) : PlanTable(t, r)[k].table = t
           /\ \A h : TableOf(h) = t /\ PageOf(h) \in Nat => One(ForRow(PlanTable(t, r), h))
<1> DEFINE n == PartCount(r)
           c == Chunk(r)
           plan == PlanTable(t, r)
<1>1. n \in Nat /\ n >= 1 /\ c \in Nat /\ c >= 1
  BY PartCountType
<1>2. /\ DOMAIN plan = 1..n
      /\ \A i \in 1..n : plan[i] = [table |-> t, first |-> (i - 1) * c, open |-> i = n, end |-> i * c]
  BY DEF PlanTable
<1> HIDE DEF n, c
<1>3. \A i \in 1..n : (i - 1) * c \in Nat /\ i * c \in Nat
  BY <1>1
<1>4. plan \in Seq(Job)
  <2>1. \A i \in 1..n : plan[i] \in Job
    <3> SUFFICES ASSUME NEW i \in 1..n PROVE plan[i] \in Job
      OBVIOUS
    <3> DEFINE last == i = n
               first == (i - 1) * c
               end == i * c
    <3>1. last \in BOOLEAN /\ first \in Nat /\ end \in Nat
      BY <1>3
    <3>2. plan[i] = [table |-> t, first |-> first, open |-> last, end |-> end]
      BY <1>2
    <3> HIDE DEF last, first, end, plan
    <3> QED
      BY <3>1, <3>2 DEF Job
  <2>2. plan = [i \in 1..n |-> plan[i]]
    BY DEF PlanTable, n
  <2>3. plan \in [1..n -> Job]
    BY <2>1, <2>2
  <2> QED
    BY <1>1, <2>3
<1> HIDE DEF plan
<1>5. ASSUME NEW h, TableOf(h) = t, PageOf(h) \in Nat PROVE One(ForRow(plan, h))
  <2> DEFINE q == PageOf(h)
             S == {i \in 1..n : i = n \/ q < i * c}
  <2>1. S \in SUBSET Nat /\ S # {}
    <3>1. n \in S
      BY <1>1
    <3> QED
      BY <3>1
  <2>2. PICK x \in S : \A y \in S : x <= y
    BY <2>1, SmallestExists
  <2>3. x \in 1..n /\ (x = n \/ q < x * c)
    OBVIOUS
  <2>4. q >= (x - 1) * c
    <3>1. CASE x = 1
      BY <1>1, <1>5, <3>1
    <3>2. CASE x # 1
      <4>1. x - 1 \in 1..n /\ ~(x <= x - 1) /\ x - 1 # n
        BY <1>1, <2>3, <3>2
      <4>2. ~(q < (x - 1) * c)
        BY <2>2, <4>1
      <4> QED
        BY <1>1, <1>5, <4>1, <4>2, <1>3
    <3> QED
      BY <3>1, <3>2
  <2>5. \A i \in 1..n : Within(plan[i], h) <=> q >= (i - 1) * c /\ (i = n \/ q < i * c)
    <3> SUFFICES ASSUME NEW i \in 1..n
                 PROVE  Within(plan[i], h) <=> q >= (i - 1) * c /\ (i = n \/ q < i * c)
      OBVIOUS
    <3>1. plan[i].table = t /\ plan[i].first = (i - 1) * c /\ plan[i].end = i * c
      BY <1>2
    <3> DEFINE last == i = n
               first == (i - 1) * c
               end == i * c
    <3>3. plan[i] = [table |-> t, first |-> first, open |-> last, end |-> end]
      BY <1>2
    <3>4. plan[i].open = last
      <4> HIDE DEF plan, last, first, end
      <4> QED
        BY <3>3
    <3>2. plan[i].open <=> i = n
      BY <3>4
    <3> QED
      BY <1>5, <3>1, <3>2 DEF Within
  <2>6. x \in ForRow(plan, h)
    BY <1>2, <2>3, <2>4, <2>5 DEF ForRow
  <2>7. ASSUME NEW i \in 1..n, NEW j \in 1..n, i < j, Within(plan[i], h), Within(plan[j], h) PROVE FALSE
    <3>1. q < i * c /\ q >= (j - 1) * c
      BY <2>5, <2>7
    <3>2. PICK d \in Nat : j - 1 = i + d
      <4>1. j - 1 - i \in Nat /\ j - 1 = i + (j - 1 - i)
        BY <2>7
      <4> QED
        BY <4>1
    <3>3. (i + d) * c = i * c + d * c /\ d * c \in Nat /\ i * c \in Nat
      BY <1>1
    <3> QED
      BY <1>5, <3>1, <3>2, <3>3
  <2>8. \A i \in ForRow(plan, h) : i = x
    <3> SUFFICES ASSUME NEW i \in ForRow(plan, h) PROVE i = x
      OBVIOUS
    <3>1. i \in 1..n /\ Within(plan[i], h) /\ Within(plan[x], h)
      BY <1>2, <2>6 DEF ForRow
    <3>2. ~(i < x) /\ ~(x < i)
      BY <2>3, <2>7, <3>1
    <3> QED
      BY <1>1, <2>3, <3>1, <3>2
  <2>9. ForRow(plan, h) = {x}
    BY <2>6, <2>8
  <2> QED
    BY <2>9 DEF One
<1>6. \A k \in DOMAIN plan : plan[k].table = t
  BY <1>2
<1> QED
  BY <1>4, <1>5, <1>6 DEF plan

\* And of all tables' parts, one after the other, it is in one.
LEMMA PlanCovers ==
    ASSUME RowsPlaced, NEW relpages \in [DOMAIN Table -> RelPages],
           NEW js, js = FlattenSeq([i \in DOMAIN Table |-> PlanTable(Table[i], relpages[i])])
    PROVE  js \in Seq(Job) /\ \A h \in Nat : One(ForRow(js, h))
<1> DEFINE seqs == [i \in DOMAIN Table |-> PlanTable(Table[i], relpages[i])]
           n == Len(Table)
<1>1. n \in Nat /\ DOMAIN Table = 1..n
  BY TableAssumption
<1>2. \A i \in 1..n : seqs[i] = PlanTable(Table[i], relpages[i]) /\ relpages[i] \in Nat
  BY <1>1, CopyAssumption
<1>3. /\ \A i \in 1..n : seqs[i] \in Seq(Job)
      /\ \A i \in 1..n : \A k \in DOMAIN seqs[i] : seqs[i][k].table = Table[i]
      /\ \A i \in 1..n : \A h : TableOf(h) = Table[i] /\ PageOf(h) \in Nat => One(ForRow(seqs[i], h))
  BY <1>1, <1>2, PartsOfTable
<1>4. DOMAIN seqs = 1..n
  BY <1>1
<1>5. seqs \in Seq(Seq(Job)) /\ Len(seqs) = n
  <2>1. seqs = [i \in 1..n |-> seqs[i]]
    BY <1>1
  <2> HIDE DEF seqs
  <2>2. seqs \in [1..n -> Seq(Job)]
    BY <1>3, <2>1
  <2> QED
    BY <1>1, <1>4, <2>2
<1>6. js = FlattenSeq(seqs)
  OBVIOUS
<1> HIDE DEF seqs, n
<1>7. js \in Seq(Job)
  BY <1>5, <1>6, FlattenType
<1>8. ASSUME NEW h \in Nat PROVE One(ForRow(js, h))
  <2>1. PICK a \in 1..n : Table[a] = TableOf(h) /\ PageOf(h) \in Nat
    BY <1>1 DEF RowsPlaced
  <2>2. One(ForRow(seqs[a], h))
    BY <1>3, <2>1
  <2>3. \A i \in 1..n : i # a => ForRow(seqs[i], h) = {}
    <3> SUFFICES ASSUME NEW i \in 1..n, i # a PROVE ForRow(seqs[i], h) = {}
      OBVIOUS
    <3>1. Table[i] # TableOf(h)
      BY <1>1, <2>1, TableAssumption
    <3> QED
      BY <1>3, <3>1 DEF ForRow, Within
  <2>4. PICK g \in [1..n -> Seq(Job)] : /\ g[1] = seqs[1]
                                        /\ \A i \in 2..n : g[i] = g[i - 1] \o seqs[i]
                                        /\ js = g[n]
    <3>1. Len(seqs) # 0
      BY <1>1, <1>5, <2>1
    <3>2. \E g \in [1..Len(seqs) -> Seq(Job)] :
             /\ g[1] = seqs[1]
             /\ \A i \in 2..Len(seqs) : g[i] = g[i - 1] \o seqs[i]
             /\ FlattenSeq(seqs) = g[Len(seqs)]
      BY <1>5, <3>1, FlattenRun
    <3> QED
      BY <1>5, <1>6, <3>2
  <2> DEFINE right(i) == IF a <= i THEN One(ForRow(g[i], h)) ELSE ForRow(g[i], h) = {}
             m == n - 1
             G == {i \in 0..m : right(i + 1)}
  <2>5. m \in Nat /\ m + 1 = n
    BY <1>1, <2>1
  <2>6. 0 \in G
    <3>1. right(1)
      <4>1. CASE a = 1
        BY <2>2, <2>4, <4>1
      <4>2. CASE a # 1
        <5>1. 1 \in 1..n /\ ~(a <= 1)
          BY <2>1, <2>5, <4>2
        <5>2. ForRow(seqs[1], h) = {}
          BY <2>3, <4>2, <5>1
        <5> QED
          BY <2>4, <5>1, <5>2
      <4> QED
        BY <4>1, <4>2
    <3>2. 0 \in 0..m /\ 0 + 1 = 1
      BY <2>5
    <3> QED
      BY <3>1, <3>2
  <2>7. ASSUME NEW i \in 0..(m - 1), i \in G PROVE i + 1 \in G
    <3> DEFINE k == (i + 1) + 1
    <3>1. k \in 2..n /\ k \in 1..n /\ k - 1 = i + 1 /\ i + 1 \in 1..n /\ i + 1 \in 0..m
      BY <2>5
    <3>2. right(i + 1)
      BY <2>7
    <3>3. g[k] = g[i + 1] \o seqs[k] /\ g[i + 1] \in Seq(Job) /\ seqs[k] \in Seq(Job)
      BY <1>3, <2>4, <3>1
    <3> HIDE DEF k
    <3>4. /\ One(ForRow(g[i + 1], h)) /\ ForRow(seqs[k], h) = {} => One(ForRow(g[k], h))
          /\ ForRow(g[i + 1], h) = {} /\ One(ForRow(seqs[k], h)) => One(ForRow(g[k], h))
          /\ ForRow(g[i + 1], h) = {} /\ ForRow(seqs[k], h) = {} => ForRow(g[k], h) = {}
      BY <3>3, RowsAppended
    <3>5. CASE k = a
      <4>1. ~(a <= i + 1) /\ a <= k
        BY <2>1, <3>1, <3>5
      <4> QED
        BY <2>2, <3>1, <3>2, <3>4, <3>5, <4>1 DEF k
    <3>6. CASE k # a
      <4>1. (a <= i + 1 <=> a <= k) /\ ForRow(seqs[k], h) = {}
        <5>1. a <= i + 1 <=> a <= k
          BY <2>1, <3>1, <3>6
        <5> QED
          BY <2>3, <3>1, <3>6, <5>1
      <4> QED
        BY <3>1, <3>2, <3>4, <4>1 DEF k
    <3> QED
      BY <3>5, <3>6
  <2> HIDE DEF G
  <2>8. \A i \in 0..m : i \in G
    BY <2>5, <2>6, <2>7, IntervalInduction
  <2>9. right(n)
    <3>1. m \in G
      BY <2>5, <2>8
    <3> QED
      BY <2>5, <3>1 DEF G
  <2> QED
    BY <1>1, <2>1, <2>4, <2>9
<1> QED
  BY <1>7, <1>8

-----------------------------------------------------------------------------
(***************************************************************************)
(* run_parallel_copy.                                                      *)
(***************************************************************************)
\* Nobody but CreateSlot, Plan, the workers and BuildShapes touches the copy.
LEMMA BesideCopies ==
    ASSUME CopyInv, UNCHANGED <<base, copyVars, loaded>>,
           at' # "copy" => \A w \in Worker : workers[w].at = "done",
           at' \in {"copy", "build"} => at \in {"copy", "build"},
           at' # "idle" => loaded = NoJob
    PROVE  CopyInv'
<1>1. UNCHANGED <<base, jobs, workers, parts, loaded>>
  BY DEF copyVars
<1>2. /\ base' \in Nat /\ jobs' \in Seq(Job)
      /\ workers' \in [Worker -> [at : {"new", "idle", "copying", "done"}, job : Job \union {NoJob}]]
      /\ \A w \in Worker : workers'[w].at = "copying" => workers'[w].job \in Job
      /\ at' # "copy" => \A w \in Worker : workers'[w].at = "done"
      /\ at' # "idle" => loaded' = NoJob
      /\ loaded' # NoJob => loaded' = [h \in 1..base' |-> 1]
  BY <1>1 DEF CopyInv
<1>3. /\ \A h : CopiedOnce(h)' <=> CopiedOnce(h)
      /\ \A j : CopyOut(j, base)' = CopyOut(j, base)
  BY <1>1 DEF CopiedOnce, Waiting, Copying, InParts, CopyOut, Within, ForRow, One
<1> QED
  BY <1>1, <1>2, <1>3 DEF CopyInv

\* Jobs that nobody has taken yet.
LEMMA PlanCopies ==
    ASSUME CopyInv, Plan, RowsPlaced
    PROVE  CopyInv'
<1>1. /\ UNCHANGED <<base, loaded>> /\ at = "plan" /\ at' = "copy" /\ parts' = {}
      /\ workers' = All("new")
  BY DEF Plan
<1>2. PICK relpages \in [DOMAIN Table -> RelPages] :
         jobs' = FlattenSeq([i \in DOMAIN Table |-> PlanTable(Table[i], relpages[i])])
  BY DEF Plan
<1>3. jobs' \in Seq(Job) /\ \A h \in Nat : One(ForRow(jobs', h))
  <2> DEFINE js == jobs'
  <2>1. js = FlattenSeq([i \in DOMAIN Table |-> PlanTable(Table[i], relpages[i])])
    BY <1>2
  <2> HIDE DEF js
  <2>2. js \in Seq(Job) /\ \A h \in Nat : One(ForRow(js, h))
    BY <2>1, PlanCovers
  <2> QED
    BY <2>2 DEF js
<1>4. /\ workers' \in [Worker -> [at : {"new", "idle", "copying", "done"}, job : Job \union {NoJob}]]
      /\ \A w \in Worker : workers'[w].at = "new"
  BY <1>1 DEF All, Being
<1>5. \A h \in 1..base' : CopiedOnce(h)'
  <2> SUFFICES ASSUME NEW h \in 1..base' PROVE CopiedOnce(h)'
    OBVIOUS
  <2>1. h \in Nat
    BY <1>1 DEF CopyInv
  <2>2. One(ForRow(jobs', h)) /\ Copying(h)' = {} /\ InParts(h)' = {}
    BY <1>1, <1>3, <1>4, <2>1 DEF Copying, InParts
  <2>3. Waiting(h)' = ForRow(jobs', h)
    BY DEF Waiting, ForRow, Within
  <2> QED
    BY <2>2, <2>3 DEF CopiedOnce, One
<1> QED
  BY <1>1, <1>3, <1>4, <1>5 DEF CopyInv

\* A session that has taken nothing yet.
LEMMA PinCopies ==
    ASSUME CopyInv, NEW w \in Worker, PinWorker(w)
    PROVE  CopyInv'
<1>1. /\ UNCHANGED <<base, at, jobs, parts, loaded>> /\ workers[w].at = "new"
      /\ workers' = [workers EXCEPT ![w] = Being("idle")]
  BY DEF PinWorker
<1>2. at = "copy"
  BY <1>1 DEF CopyInv
<1>3. /\ workers' \in [Worker -> [at : {"new", "idle", "copying", "done"}, job : Job \union {NoJob}]]
      /\ workers'[w].at = "idle" /\ \A v \in Worker : v # w => workers'[v] = workers[v]
  BY <1>1 DEF CopyInv, Being
<1>4. ASSUME NEW h PROVE CopiedOnce(h)' <=> CopiedOnce(h)
  <2>1. Copying(h)' = Copying(h)
    BY <1>1, <1>3 DEF Copying, Within
  <2>2. Waiting(h)' = Waiting(h) /\ InParts(h)' = InParts(h)
    BY <1>1 DEF Waiting, InParts, ForRow, Within
  <2> QED
    BY <2>1, <2>2 DEF CopiedOnce, One
<1>5. \A j : CopyOut(j, base)' = CopyOut(j, base)
  BY <1>1 DEF CopyOut, Within
<1> QED
  BY <1>1, <1>2, <1>3, <1>4, <1>5 DEF CopyInv

\* The first job in the queue goes to the session that asks.
LEMMA TakeCopies ==
    ASSUME CopyInv, NEW w \in Worker, TakeJob(w)
    PROVE  CopyInv'
<1>1. /\ UNCHANGED <<base, at, parts, loaded>> /\ workers[w].at = "idle" /\ at = "copy"
  BY DEF TakeJob, CopyInv
<1>2. \A j : CopyOut(j, base)' = CopyOut(j, base)
  BY <1>1 DEF CopyOut, Within
<1>3. CASE jobs = <<>>
  <2>1. jobs' = jobs /\ workers' = [workers EXCEPT ![w] = Being("done")]
    BY <1>3 DEF TakeJob
  <2>2. /\ workers' \in [Worker -> [at : {"new", "idle", "copying", "done"}, job : Job \union {NoJob}]]
        /\ workers'[w].at = "done" /\ \A v \in Worker : v # w => workers'[v] = workers[v]
    BY <2>1 DEF CopyInv, Being
  <2>3. ASSUME NEW h PROVE CopiedOnce(h)' <=> CopiedOnce(h)
    <3>1. Copying(h)' = Copying(h)
      BY <1>1, <2>2 DEF Copying, Within
    <3>2. Waiting(h)' = Waiting(h) /\ InParts(h)' = InParts(h)
      BY <1>1, <2>1 DEF Waiting, InParts, ForRow, Within
    <3> QED
      BY <3>1, <3>2 DEF CopiedOnce, One
  <2> QED
    BY <1>1, <1>2, <1>3, <2>1, <2>2, <2>3 DEF CopyInv
<1>4. CASE jobs # <<>>
  <2> DEFINE j == Head(jobs)
  <2>1. /\ jobs' = Tail(jobs)
        /\ workers' = [workers EXCEPT ![w] = [at |-> "copying", job |-> j]]
    BY <1>4 DEF TakeJob
  <2>2. /\ jobs \in Seq(Job) /\ Len(jobs) \in Nat /\ Len(jobs) >= 1 /\ j = jobs[1] /\ j \in Job
        /\ jobs' \in Seq(Job) /\ Len(jobs') = Len(jobs) - 1
        /\ \A i \in 1..Len(jobs') : jobs'[i] = jobs[i + 1]
    BY <1>4, <2>1 DEF CopyInv
  <2> HIDE DEF j
  <2>3. /\ workers' \in [Worker -> [at : {"new", "idle", "copying", "done"}, job : Job \union {NoJob}]]
        /\ workers'[w].at = "copying" /\ workers'[w].job = j
        /\ \A v \in Worker : v # w => workers'[v] = workers[v]
    BY <2>1, <2>2 DEF CopyInv
  <2>4. ASSUME NEW h, CopiedOnce(h) PROVE CopiedOnce(h)'
    <3>1. InParts(h)' = InParts(h)
      BY <1>1 DEF InParts, Within
    <3>2. \A i : i \in Waiting(h)' <=> i \in 1..Len(jobs') /\ i + 1 \in Waiting(h)
      <4>1. /\ \A i : i \in Waiting(h)' <=> i \in 1..Len(jobs') /\ Within(jobs'[i], h)
            /\ \A i : i \in Waiting(h) <=> i \in 1..Len(jobs) /\ Within(jobs[i], h)
        BY <2>2 DEF Waiting, ForRow, Within
      <4>2. \A i \in 1..Len(jobs') : i + 1 \in 1..Len(jobs)
        BY <2>2
      <4> QED
        BY <2>2, <4>1, <4>2
    <3>3. \A v : v \in Copying(h)' <=> v \in Copying(h) \/ (v = w /\ Within(j, h))
      BY <1>1, <2>3 DEF Copying, Within
    <3>4. 1 \in Waiting(h) <=> Within(j, h)
      <4>1. 1 \in DOMAIN jobs
        BY <2>2
      <4> QED
        BY <2>2, <4>1 DEF Waiting, ForRow
    <3>5. \A i \in Waiting(h) : i \in 1..Len(jobs)
      BY <2>2 DEF Waiting, ForRow
    <3>6. CASE Within(j, h)
      <4>1. Waiting(h) = {1} /\ Copying(h) = {} /\ InParts(h) = {}
        BY <2>4, <3>4, <3>6 DEF CopiedOnce, One
      <4>2. Waiting(h)' = {}
        <5>1. \A i \in 1..Len(jobs') : i + 1 # 1
          BY <2>2
        <5> QED
          BY <3>2, <4>1, <5>1
      <4>3. Copying(h)' = {w}
        BY <3>3, <3>6, <4>1
      <4> QED
        BY <3>1, <4>1, <4>2, <4>3 DEF CopiedOnce, One
    <3>7. CASE ~Within(j, h)
      <4>1. Copying(h)' = Copying(h)
        BY <3>3, <3>7
      <4>2. CASE Waiting(h) = {}
        <5>1. Waiting(h)' = {}
          BY <3>2, <4>2
        <5> QED
          BY <2>4, <3>1, <4>1, <4>2, <5>1 DEF CopiedOnce, One
      <4>3. CASE Waiting(h) # {}
        <5>1. Copying(h) = {} /\ InParts(h) = {} /\ One(Waiting(h))
          BY <2>4, <4>3 DEF CopiedOnce
        <5>2. PICK x : Waiting(h) = {x}
          BY <5>1 DEF One
        <5>3. x \in 1..Len(jobs) /\ x # 1
          BY <3>4, <3>5, <3>7, <5>2
        <5>4. x - 1 \in 1..Len(jobs') /\ (x - 1) + 1 = x
          BY <2>2, <5>3
        <5>5. \A i \in 1..Len(jobs') : i + 1 = x => i = x - 1
          BY <2>2, <5>3
        <5>6. Waiting(h)' = {x - 1}
          BY <3>2, <5>2, <5>4, <5>5
        <5> QED
          BY <3>1, <4>1, <5>1, <5>6 DEF CopiedOnce, One
      <4> QED
        BY <4>2, <4>3
    <3> QED
      BY <3>6, <3>7
  <2>5. \A v \in Worker : workers'[v].at # "done"
    BY <1>1, <1>4, <2>3 DEF CopyInv
  <2> QED
    BY <1>1, <1>2, <2>2, <2>3, <2>4, <2>5 DEF CopyInv
<1> QED
  BY <1>3, <1>4

\* What a session has copied is a part.
LEMMA StageCopies ==
    ASSUME CopyInv, NEW w \in Worker, StagePart(w)
    PROVE  CopyInv'
<1> DEFINE j == workers[w].job
           p == [job |-> j, rows |-> CopyOut(j, base)]
<1>1. /\ UNCHANGED <<base, at, jobs, loaded>> /\ workers[w].at = "copying" /\ at = "copy"
      /\ parts' = parts \union {p}
      /\ workers' = [workers EXCEPT ![w] = Being("idle")]
  BY DEF StagePart, CopyInv
<1>2. p.job = j /\ p.rows = CopyOut(j, base) /\ \A x : CopyOut(x, base)' = CopyOut(x, base)
  BY <1>1 DEF CopyOut, Within
<1> HIDE DEF p
<1>3. /\ workers' \in [Worker -> [at : {"new", "idle", "copying", "done"}, job : Job \union {NoJob}]]
      /\ workers'[w].at = "idle" /\ \A v \in Worker : v # w => workers'[v] = workers[v]
  BY <1>1 DEF CopyInv, Being
<1>4. ASSUME NEW h, CopiedOnce(h) PROVE CopiedOnce(h)'
  <2>1. Waiting(h)' = Waiting(h)
    BY <1>1 DEF Waiting, ForRow, Within
  <2>2. \A v : v \in Copying(h)' <=> v \in Copying(h) /\ v # w
    BY <1>1, <1>3 DEF Copying, Within
  <2>3. w \in Copying(h) <=> Within(j, h)
    BY <1>1 DEF Copying
  <2>4. \A q : q \in InParts(h)' <=> q \in InParts(h) \/ (q = p /\ Within(j, h))
    BY <1>1, <1>2 DEF InParts, Within
  <2> HIDE DEF j
  <2>5. CASE Within(j, h)
    <3>1. Waiting(h) = {} /\ Copying(h) = {w} /\ InParts(h) = {}
      BY <1>4, <2>3, <2>5 DEF CopiedOnce, One
    <3>2. Copying(h)' = {} /\ InParts(h)' = {p}
      BY <2>2, <2>4, <2>5, <3>1
    <3> QED
      BY <2>1, <3>1, <3>2 DEF CopiedOnce, One
  <2>6. CASE ~Within(j, h)
    <3>1. Copying(h)' = Copying(h) /\ InParts(h)' = InParts(h)
      BY <2>2, <2>3, <2>4, <2>6
    <3> QED
      BY <1>4, <2>1, <3>1 DEF CopiedOnce
  <2> QED
    BY <2>5, <2>6
<1>5. \A q \in parts' : q.rows = CopyOut(q.job, base')
  BY <1>1, <1>2 DEF CopyInv
<1> QED
  BY <1>1, <1>2, <1>3, <1>4, <1>5 DEF CopyInv

\* Every row of the snapshot is in one part, and no other row in any.
LEMMA BuildCopies ==
    ASSUME CopyInv, BuildShapes
    PROVE  CopyInv'
<1>1. /\ at = "build" /\ at' = "idle" /\ UNCHANGED <<base, jobs, workers>> /\ parts' = {}
      /\ loaded' = [h \in UNION {p.rows : p \in parts} |-> Cardinality({p \in parts : h \in p.rows})]
  BY DEF BuildShapes
<1>2. \A w \in Worker : workers[w].at = "done"
  BY <1>1 DEF CopyInv
<1>3. jobs = <<>>
  BY <1>1, <1>2, CopyAssumption DEF CopyInv
<1>4. \A h \in 1..base : \E p : InParts(h) = {p}
  <2> SUFFICES ASSUME NEW h \in 1..base PROVE \E p : InParts(h) = {p}
    OBVIOUS
  <2>1. CopiedOnce(h)
    BY <1>1 DEF CopyInv
  <2>2. Waiting(h) = {} /\ Copying(h) = {}
    BY <1>2, <1>3 DEF Waiting, ForRow, Copying
  <2> QED
    BY <2>1, <2>2 DEF CopiedOnce, One
<1>5. \A p \in parts : \A h : h \in p.rows <=> h \in 1..base /\ Within(p.job, h)
  BY <1>1 DEF CopyInv, CopyOut
<1>6. \A h \in 1..base : {p \in parts : h \in p.rows} = InParts(h)
  BY <1>5 DEF InParts
<1>7. UNION {p.rows : p \in parts} = 1..base
  <2>1. ASSUME NEW h \in 1..base PROVE h \in UNION {p.rows : p \in parts}
    <3>1. PICK p : p \in InParts(h)
      BY <1>4
    <3>2. p \in parts /\ h \in p.rows
      BY <1>6, <3>1
    <3> QED
      BY <3>2
  <2>2. ASSUME NEW p \in parts, NEW h \in p.rows PROVE h \in 1..base
    BY <1>5
  <2> QED
    BY <2>1, <2>2
<1>8. \A h \in 1..base : Cardinality({p \in parts : h \in p.rows}) = 1
  <2> SUFFICES ASSUME NEW h \in 1..base PROVE Cardinality({p \in parts : h \in p.rows}) = 1
    OBVIOUS
  <2>1. PICK p : {q \in parts : h \in q.rows} = {p}
    BY <1>4, <1>6
  <2> QED
    BY <2>1, FS_Singleton
<1>9. loaded' = [h \in 1..base |-> 1]
  BY <1>1, <1>7, <1>8
<1>10. /\ base' \in Nat /\ jobs' \in Seq(Job)
       /\ workers' \in [Worker -> [at : {"new", "idle", "copying", "done"}, job : Job \union {NoJob}]]
       /\ \A w \in Worker : workers'[w].at = "done"
  BY <1>1, <1>2 DEF CopyInv
<1> QED
  BY <1>1, <1>9, <1>10 DEF CopyInv

LEMMA CopyStep ==
    ASSUME AttachInv, CopyInv, RowsPlaced, [AttachNext]_allVars
    PROVE  CopyInv'
<1>1. CASE UNCHANGED allVars \/ Running \/ Attach \/ SlotIsActive \/ DropSlot \/ DropPublication
           \/ EnsurePublication \/ CreateLog \/ StartPump
  <2>1. UNCHANGED <<base, copyVars, loaded>>
    BY <1>1 DEF allVars, attachVars, Running, Attach, SlotIsActive, DropSlot, DropPublication,
                EnsurePublication, CreateLog, StartPump
  <2>2. at' = at \/ (at' \notin {"copy", "build"} /\ at # "copy" /\ (at' # "idle" => loaded = NoJob))
    BY <1>1 DEF allVars, attachVars, Running, Attach, SlotIsActive, DropSlot, DropPublication,
                EnsurePublication, CreateLog, StartPump, CopyInv
  <2>3. at' # "copy" => \A w \in Worker : workers[w].at = "done"
    BY <2>2 DEF CopyInv
  <2> QED
    BY <2>1, <2>2, <2>3, BesideCopies DEF CopyInv
<1>2. CASE AssembleManifest
  <2>1. /\ UNCHANGED <<base, copyVars, loaded>> /\ at = "copy" /\ at' = "build"
        /\ \A w \in Worker : workers[w].at = "done"
    BY <1>2 DEF AssembleManifest
  <2> QED
    BY <2>1, BesideCopies DEF CopyInv
<1>3. CASE CreateSlot
  <2>1. /\ at = "create" /\ at' = "log" /\ UNCHANGED <<jobs, workers, parts, loaded>>
        /\ base' = base + wal
    BY <1>3 DEF CreateSlot, copyVars
  <2>2. wal \in Nat /\ base' \in Nat
    BY <2>1, TypeParts DEF AttachInv, PumpInv, SessionType, CopyInv
  <2>3. /\ jobs' \in Seq(Job)
        /\ workers' \in [Worker -> [at : {"new", "idle", "copying", "done"}, job : Job \union {NoJob}]]
        /\ \A w \in Worker : workers'[w].at = "done"
        /\ loaded' = NoJob
    BY <2>1 DEF CopyInv
  <2> QED
    BY <2>1, <2>2, <2>3 DEF CopyInv
<1>4. CASE AttachFails
  <2>1. /\ at' = "idle" /\ jobs' = <<>> /\ workers' = All("done") /\ UNCHANGED <<base, loaded>>
    BY <1>4 DEF AttachFails
  <2>2. /\ workers' \in [Worker -> [at : {"new", "idle", "copying", "done"}, job : Job \union {NoJob}]]
        /\ \A w \in Worker : workers'[w].at = "done"
    BY <2>1 DEF All, Being
  <2>3. /\ base' \in Nat /\ loaded' # NoJob => loaded' = [h \in 1..base' |-> 1]
    BY <2>1 DEF CopyInv
  <2>4. jobs' \in Seq(Job)
    BY <2>1
  <2> QED
    BY <2>1, <2>2, <2>3, <2>4 DEF CopyInv
<1> QED
  BY <1>1, <1>2, <1>3, <1>4, PlanCopies, PinCopies, TakeCopies, StageCopies, BuildCopies
  DEF AttachNext, AttachStep

LEMMA InitCopy == AttachInit => CopyInv
<1> SUFFICES ASSUME AttachInit PROVE CopyInv
  OBVIOUS
<1>1. base = 1 /\ at = "idle" /\ jobs = <<>> /\ workers = All("done") /\ loaded = NoJob
  BY DEF AttachInit
<1>2. /\ workers \in [Worker -> [at : {"new", "idle", "copying", "done"}, job : Job \union {NoJob}]]
      /\ \A w \in Worker : workers[w].at = "done"
  BY <1>1 DEF All, Being
<1>3. base \in Nat /\ jobs \in Seq(Job)
  BY <1>1
<1> QED
  BY <1>1, <1>2, <1>3 DEF CopyInv

\* Every row of the snapshot is copied by one job and loaded once, for every
\* number of copy sessions, whatever the statistics say of the tables' sizes,
\* whichever session takes which job and whatever fails in between.
THEOREM CopyInductive == RowsPlaced => (AttachSpec => []CopyInv)
<1> SUFFICES ASSUME RowsPlaced PROVE AttachSpec => []CopyInv
  OBVIOUS
<1>1. AttachInv /\ CopyInv /\ [AttachNext]_allVars => CopyInv'
  BY CopyStep
<1> QED
  BY <1>1, InitCopy, AttachInductive, PTL DEF AttachSpec

\* The snapshot and the stream meet without a gap and without an overlap.
THEOREM AttachMeetsStream ==
    RowsPlaced /\ KillScope = "segment" => (AttachSpec => []SnapshotPlusStream)
<1> SUFFICES ASSUME RowsPlaced, KillScope = "segment" PROVE AttachSpec => []SnapshotPlusStream
  OBVIOUS
<1>1. CopyInv /\ AppliedIsPrefix /\ AttachInv => SnapshotPlusStream
  <2> SUFFICES ASSUME CopyInv, AppliedIsPrefix, AttachInv, loaded # NoJob, NEW h \in 1..(base + wal)
               PROVE  Times(h) = IF h <= base + applied_lsn THEN 1 ELSE 0
    BY DEF SnapshotPlusStream
  <2>1. loaded = [x \in 1..base |-> 1] /\ base \in Nat
    BY DEF CopyInv
  <2>2. wal \in Nat /\ Len(applied) \in Nat /\ DOMAIN applied = 1..Len(applied)
    BY TypeParts DEF AttachInv, PumpInv, SessionType, ApplyType
  <2>3. applied_lsn = Len(applied)
    BY DEF AppliedIsPrefix
  <2>4. h \in Nat /\ h >= 1
    BY <2>1, <2>2
  <2>5. h \in DOMAIN loaded <=> h <= base
    BY <2>1, <2>4
  <2>6. h - base \in DOMAIN applied <=> h > base /\ h <= base + applied_lsn
    BY <2>1, <2>2, <2>3, <2>4
  <2>7. h \in DOMAIN loaded => loaded[h] = 1
    BY <2>1
  <2>8. h <= base => h <= base + applied_lsn /\ ~(h > base)
    BY <2>1, <2>2, <2>3, <2>4
  <2> QED
    BY <2>1, <2>4, <2>5, <2>6, <2>7, <2>8 DEF Times
<1> QED
  BY <1>1, CopyInductive, AttachInductive, AttachAppliesPrefix, PTL
=============================================================================
