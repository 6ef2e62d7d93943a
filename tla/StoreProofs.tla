---------------------------- MODULE StoreProofs -----------------------------
(***************************************************************************)
(* Proofs about a keyed table's two shapes: the columnar store shows every *)
(* LSN it has applied as the source had it, whatever later transactions    *)
(* marked, moved or flushed, and so do its files.                          *)
(***************************************************************************)
EXTENDS Shapes, RunLemmas, FiniteSetTheorems, SequenceTheorems

SegmentRow == [row : Row, insert_lsn : Nat]

-----------------------------------------------------------------------------
(***************************************************************************)
(* Places.                                                                 *)
(***************************************************************************)
LEMMA PlaceTypes ==
    ASSUME NEW s, StoreShape(s), NEW n \in 0..Len(s.segments), NEW i \in DOMAIN RowsOf(s, n)
    PROVE  /\ RowsOf(s, n)[i].row \in Row
           /\ RowsOf(s, n)[i].insert_lsn \in Nat
           /\ DeletedAt(s, n, i) \in SUBSET Nat
           /\ i \in Nat \ {0} /\ i \in 1..Len(RowsOf(s, n))
<1>1. /\ s.open \in Seq(OpenRow) /\ s.segments \in Seq(Segment)
      /\ s.sidecars \in Seq(SUBSET (Nat \X Nat)) /\ Len(s.sidecars) = Len(s.segments)
  BY DEF StoreShape
<1>2. CASE n = OpenSegment
  <2>1. RowsOf(s, n) = s.open /\ i \in 1..Len(s.open)
    BY <1>1, <1>2 DEF RowsOf
  <2>2. s.open[i] \in OpenRow
    BY <1>1, <2>1
  <2> QED
    BY <1>1, <1>2, <2>1, <2>2 DEF OpenRow, DeletedAt
<1>3. CASE n # OpenSegment
  <2>1. n \in 1..Len(s.segments) /\ n \in 1..Len(s.sidecars)
    BY <1>1, <1>3 DEF OpenSegment
  <2>2. s.segments[n] \in Segment /\ s.sidecars[n] \in SUBSET (Nat \X Nat)
    BY <1>1, <2>1
  <2>3. RowsOf(s, n) = s.segments[n].rows /\ RowsOf(s, n) \in Seq(SegmentRow)
    BY <1>3, <2>2 DEF RowsOf, Segment, SegmentRow
  <2>4. RowsOf(s, n)[i] \in SegmentRow
    BY <2>3
  <2> QED
    BY <1>3, <2>2, <2>3, <2>4 DEF SegmentRow, DeletedAt
<1> QED
  BY <1>2, <1>3

LEMMA ShapeFrom ==
    ASSUME NEW t,
           t \in [open : {t.open}, segments : {t.segments}, sidecars : {t.sidecars},
                  index : {t.index}, live_rows : {t.live_rows}, applied_lsn : {t.applied_lsn}],
           t.open \in Seq(OpenRow), t.segments \in Seq(Segment),
           t.sidecars \in Seq(SUBSET (Nat \X Nat)), Len(t.sidecars) = Len(t.segments),
           t.live_rows \in Nat, t.applied_lsn \in Nat,
           t.index \in [DOMAIN t.index -> [seg : Nat, row : Nat]], DOMAIN t.index \subseteq Key
    PROVE  StoreShape(t)
<1>1. t \in [open : Seq(OpenRow), segments : Seq(Segment), sidecars : Seq(SUBSET (Nat \X Nat)),
             index : {t.index}, live_rows : Nat, applied_lsn : Nat]
  OBVIOUS
<1> QED
  BY <1>1 DEF StoreShape

\* What is done at an LSN: the segments stay, rows are added and marked at it.
Later(s, t, now) ==
    /\ t.segments = s.segments
    /\ \A n \in 0..Len(s.segments) : \A i \in DOMAIN RowsOf(s, n) :
          /\ i \in DOMAIN RowsOf(t, n)
          /\ RowsOf(t, n)[i].row = RowsOf(s, n)[i].row
          /\ RowsOf(t, n)[i].insert_lsn = RowsOf(s, n)[i].insert_lsn
          /\ \A d : d \in DeletedAt(s, n, i) => d \in DeletedAt(t, n, i)
          /\ \A d : d \in DeletedAt(t, n, i) => d \in DeletedAt(s, n, i) \/ d = now
    /\ \A n \in 0..Len(s.segments) : \A i \in DOMAIN RowsOf(t, n) :
          i \notin DOMAIN RowsOf(s, n) =>
              /\ n = OpenSegment
              /\ RowsOf(t, n)[i].insert_lsn = now
              /\ \A d : d \notin DeletedAt(t, n, i)
    /\ \A n \in 1..Len(s.segments) :
          /\ \A x : x \in s.sidecars[n] => x \in t.sidecars[n]
          /\ \A x : x \in t.sidecars[n] => x \in s.sidecars[n] \/ x[2] = now

\* Below the LSN, nothing of it is visible.
LEMMA LaterShows ==
    ASSUME NEW now \in Nat, NEW s, NEW t, StoreShape(s), Later(s, t, now), NEW lsn \in 0..(now - 1),
           NEW n \in 0..Len(s.segments), NEW i \in DOMAIN RowsOf(t, n), Visible(t, n, i, lsn)
    PROVE  /\ i \in DOMAIN RowsOf(s, n) /\ Visible(s, n, i, lsn)
           /\ RowsOf(s, n)[i].row = RowsOf(t, n)[i].row
<1>1. i \in DOMAIN RowsOf(s, n)
  BY DEF Later, Visible
<1>2. /\ RowsOf(t, n)[i].row = RowsOf(s, n)[i].row
      /\ RowsOf(t, n)[i].insert_lsn = RowsOf(s, n)[i].insert_lsn
      /\ \A d : d \in DeletedAt(s, n, i) => d \in DeletedAt(t, n, i)
  BY <1>1 DEF Later
<1> QED
  BY <1>1, <1>2 DEF Visible

LEMMA LaterHides ==
    ASSUME NEW now \in Nat, NEW s, NEW t, StoreShape(s), Later(s, t, now), NEW lsn \in 0..(now - 1),
           NEW n \in 0..Len(s.segments), NEW i \in DOMAIN RowsOf(s, n), Visible(s, n, i, lsn)
    PROVE  /\ i \in DOMAIN RowsOf(t, n) /\ Visible(t, n, i, lsn)
           /\ RowsOf(s, n)[i].row = RowsOf(t, n)[i].row
<1>1. /\ i \in DOMAIN RowsOf(t, n)
      /\ RowsOf(t, n)[i].row = RowsOf(s, n)[i].row
      /\ RowsOf(t, n)[i].insert_lsn = RowsOf(s, n)[i].insert_lsn
      /\ \A d : d \in DeletedAt(t, n, i) => d \in DeletedAt(s, n, i) \/ d = now
  BY DEF Later
<1>2. lsn < now
  OBVIOUS
<1> QED
  BY <1>1, <1>2 DEF Visible

LEMMA LaterKeeps ==
    ASSUME NEW past, Len(past) \in Nat, NEW s, NEW t,
           StoreShape(s), StoreShape(t), Later(s, t, Len(past)),
           Timed(s, Len(past)), ShowsHistory(s, past), ShownOnce(s, Len(past))
    PROVE  Timed(t, Len(past)) /\ ShowsHistory(t, past) /\ ShownOnce(t, Len(past))
<1> DEFINE now == Len(past)
<1>1. now \in Nat /\ t.segments = s.segments
  BY DEF Later
<1> HIDE DEF now
<1>2. Timed(t, now)
  <2> SUFFICES ASSUME NEW n \in 0..Len(s.segments), NEW i \in DOMAIN RowsOf(t, n)
               PROVE  /\ RowsOf(t, n)[i].insert_lsn <= now
                      /\ \A d \in DeletedAt(t, n, i) : d <= now
                      /\ n # OpenSegment => t.segments[n].lsn_min <= RowsOf(t, n)[i].insert_lsn
    BY <1>1 DEF Timed
  <2>1. CASE i \in DOMAIN RowsOf(s, n)
    <3>1. /\ RowsOf(s, n)[i].insert_lsn <= now
          /\ \A d \in DeletedAt(s, n, i) : d <= now
          /\ n # OpenSegment => s.segments[n].lsn_min <= RowsOf(s, n)[i].insert_lsn
      BY <2>1 DEF Timed, now
    <3>2. /\ RowsOf(t, n)[i].insert_lsn = RowsOf(s, n)[i].insert_lsn
          /\ \A d : d \in DeletedAt(t, n, i) => d \in DeletedAt(s, n, i) \/ d = now
      BY <2>1 DEF Later, now
    <3> QED
      BY <1>1, <3>1, <3>2
  <2>2. CASE i \notin DOMAIN RowsOf(s, n)
    BY <1>1, <2>2 DEF Later, now
  <2> QED
    BY <2>1, <2>2
<1>3. ShowsHistory(t, past)
  <2>1. \A lsn \in 0..(now - 1) : \A r \in Row : Shown(t, r, lsn) <=> Shown(s, r, lsn)
    BY <1>1, LaterShows, LaterHides DEF Shown, now
  <2> QED
    BY <2>1 DEF ShowsHistory, now
<1>4. ShownOnce(t, now)
  <2> SUFFICES ASSUME NEW lsn \in 0..(now - 1),
                      NEW n \in 0..Len(s.segments), NEW m \in 0..Len(s.segments),
                      NEW i \in DOMAIN RowsOf(t, n), NEW j \in DOMAIN RowsOf(t, m),
                      Visible(t, n, i, lsn), Visible(t, m, j, lsn),
                      RowsOf(t, n)[i].row = RowsOf(t, m)[j].row
               PROVE  n = m /\ i = j
    BY <1>1 DEF ShownOnce
  <2>1. /\ i \in DOMAIN RowsOf(s, n) /\ Visible(s, n, i, lsn)
        /\ RowsOf(s, n)[i].row = RowsOf(t, n)[i].row
    BY <1>1, LaterShows DEF now
  <2>2. /\ j \in DOMAIN RowsOf(s, m) /\ Visible(s, m, j, lsn)
        /\ RowsOf(s, m)[j].row = RowsOf(t, m)[j].row
    BY <1>1, LaterShows DEF now
  <2> QED
    BY <2>1, <2>2 DEF ShownOnce, now
<1> QED
  BY <1>2, <1>3, <1>4 DEF now

\* The files stay older than the store.
LEMMA LaterKeepsDisk ==
    ASSUME NEW now \in Nat, NEW s, NEW t, StoreShape(s), StoreShape(t), Later(s, t, now),
           NEW d \in [sidecars : Seq(SUBSET (Nat \X Nat)), segments : Seq(Segment), applied_lsn : Nat],
           DiskIsOlder(s, d), d.segments # <<>> => d.applied_lsn < now
    PROVE  DiskIsOlder(t, d)
<1>1. /\ Len(d.segments) \in Nat /\ Len(s.segments) \in Nat /\ t.segments = s.segments
      /\ s.segments \in Seq(Segment) /\ s.sidecars \in Seq(SUBSET (Nat \X Nat))
      /\ t.sidecars \in Seq(SUBSET (Nat \X Nat))
      /\ Len(s.sidecars) = Len(s.segments) /\ Len(t.sidecars) = Len(s.segments)
  BY DEF StoreShape, Later
<1>2. \A n \in 1..Len(d.segments) : \A x \in d.sidecars[n] \union t.sidecars[n] :
          x[2] <= d.applied_lsn => (x \in d.sidecars[n] <=> x \in t.sidecars[n])
  <2> SUFFICES ASSUME NEW n \in 1..Len(d.segments), NEW x \in d.sidecars[n] \union t.sidecars[n],
                      x[2] <= d.applied_lsn
               PROVE  x \in d.sidecars[n] <=> x \in t.sidecars[n]
    OBVIOUS
  <2>1. n \in 1..Len(s.segments) /\ n \in 0..Len(s.segments) /\ n # OpenSegment
        /\ n \in 1..Len(d.sidecars)
    BY <1>1 DEF DiskIsOlder, OpenSegment
  <2>2. d.sidecars[n] \in SUBSET (Nat \X Nat) /\ t.sidecars[n] \in SUBSET (Nat \X Nat)
        /\ s.sidecars[n] \in SUBSET (Nat \X Nat)
    BY <1>1, <2>1
  <2>3. d.segments # <<>>
    BY <1>1
  <2>4. d.applied_lsn \in Nat /\ d.applied_lsn < now
    BY <2>3
  <2>5. x \in t.sidecars[n] => x \in s.sidecars[n]
    BY <2>1, <2>4 DEF Later
  <2>6. x \in s.sidecars[n] => x \in t.sidecars[n]
    BY <2>1 DEF Later
  <2>7. x \in d.sidecars[n] \union s.sidecars[n]
    BY <2>5
  <2>8. x \in d.sidecars[n] <=> x \in s.sidecars[n]
    BY <2>7 DEF DiskIsOlder
  <2> QED
    BY <2>5, <2>6, <2>8
<1>3. ASSUME d.segments # <<>>, NEW n \in 0..Len(s.segments), n \notin 1..Len(d.segments),
             NEW i \in DOMAIN RowsOf(t, n)
      PROVE  d.applied_lsn < RowsOf(t, n)[i].insert_lsn
  <2>1. CASE i \in DOMAIN RowsOf(s, n)
    BY <1>3, <2>1 DEF DiskIsOlder, Later
  <2>2. CASE i \notin DOMAIN RowsOf(s, n)
    BY <1>3, <2>2 DEF Later
  <2> QED
    BY <2>1, <2>2
<1>4. \A n \in 1..Len(d.segments) : d.segments[n] = t.segments[n]
  BY <1>1 DEF DiskIsOlder
<1>5. Len(d.segments) <= Len(t.segments) /\ Len(d.sidecars) <= Len(t.segments)
      /\ Len(d.segments) <= Len(d.sidecars)
  BY <1>1 DEF DiskIsOlder
<1>6. d.segments # <<>> =>
          \A n \in 0..Len(t.segments) : n \notin 1..Len(d.segments) =>
              \A i \in DOMAIN RowsOf(t, n) : d.applied_lsn < RowsOf(t, n)[i].insert_lsn
  BY <1>1, <1>3
<1> QED
  BY <1>2, <1>4, <1>5, <1>6 DEF DiskIsOlder

-----------------------------------------------------------------------------
(***************************************************************************)
(* The store's methods, for a keyed table.                                 *)
(***************************************************************************)
Table == [Row -> {0, 1}]

\* insert_row of a row whose key the table has not.
LEMMA InsertKeeps ==
    ASSUME HasKey, NEW s, NEW table \in Table, NEW past, Len(past) \in Nat,
           StoreInv(s, table, past), NEW r \in Row, r.key \notin DOMAIN s.index
    PROVE  /\ StoreInv(InsertRow(s, r, Len(past)), [table EXCEPT ![r] = @ + 1], past)
           /\ Later(s, InsertRow(s, r, Len(past)), Len(past))
           /\ InsertRow(s, r, Len(past)).applied_lsn = s.applied_lsn
           /\ [table EXCEPT ![r] = @ + 1] \in Table
<1> DEFINE now == Len(past)
           t == InsertRow(s, r, now)
           new == [row |-> r, insert_lsn |-> now, delete_lsn |-> NoLsn]
           loc == [seg |-> OpenSegment, row |-> Len(s.open) + 1]
           last == Len(s.open) + 1
           index == [k \in DOMAIN s.index \union {r.key} |-> IF k = r.key THEN loc ELSE s.index[k]]
<1>1. /\ s.open \in Seq(OpenRow) /\ s.segments \in Seq(Segment) /\ s.live_rows \in Nat
      /\ s.applied_lsn \in Nat /\ Len(s.open) \in Nat /\ Len(s.segments) \in Nat
      /\ s.sidecars \in Seq(SUBSET (Nat \X Nat)) /\ Len(s.sidecars) = Len(s.segments)
      /\ s.index \in [DOMAIN s.index -> [seg : Nat, row : Nat]] /\ DOMAIN s.index \subseteq Key
      /\ now \in Nat /\ r.key \in Key /\ StoreShape(s)
  BY DEF StoreInv, StoreShape, Row
<1>2. new \in OpenRow /\ loc \in [seg : Nat, row : Nat]
  BY <1>1 DEF OpenRow, OpenSegment
<1> HIDE DEF new, index
<1>3. t = [s EXCEPT !.open = Append(s.open, new), !.index = index, !.live_rows = s.live_rows + 1]
  BY DEF InsertRow, new, index
<1>4. /\ t.open = Append(s.open, new) /\ t.segments = s.segments /\ t.sidecars = s.sidecars
      /\ t.index = index /\ t.live_rows = s.live_rows + 1 /\ t.applied_lsn = s.applied_lsn
      /\ t \in [open : {t.open}, segments : {t.segments}, sidecars : {t.sidecars},
                index : {t.index}, live_rows : {t.live_rows}, applied_lsn : {t.applied_lsn}]
  BY <1>3 DEF StoreInv, StoreShape
<1>5. /\ DOMAIN index = DOMAIN s.index \union {r.key} /\ index[r.key] = loc
      /\ \A k \in DOMAIN s.index : index[k] = s.index[k]
      /\ index \in [DOMAIN index -> [seg : Nat, row : Nat]]
  BY <1>1, <1>2 DEF index
<1> HIDE DEF t
<1>6. /\ DOMAIN RowsOf(t, OpenSegment) = DOMAIN RowsOf(s, OpenSegment) \union {last}
      /\ last \notin DOMAIN RowsOf(s, OpenSegment)
      /\ RowsOf(t, OpenSegment)[last] = new
      /\ \A i \in DOMAIN RowsOf(s, OpenSegment) : RowsOf(t, OpenSegment)[i] = RowsOf(s, OpenSegment)[i]
  BY <1>1, <1>2, <1>4 DEF RowsOf
<1>7. /\ DeletedAt(t, OpenSegment, last) = {}
      /\ \A i \in DOMAIN RowsOf(s, OpenSegment) :
            DeletedAt(t, OpenSegment, i) = DeletedAt(s, OpenSegment, i)
  <2>1. t.open[last] = new
    BY <1>6 DEF RowsOf
  <2>2. \A i \in DOMAIN RowsOf(s, OpenSegment) : t.open[i] = s.open[i]
    BY <1>6 DEF RowsOf
  <2> QED
    BY <2>1, <2>2 DEF DeletedAt, new
<1>8. \A n \in 1..Len(s.segments) :
          /\ RowsOf(t, n) = RowsOf(s, n)
          /\ \A i : DeletedAt(t, n, i) = DeletedAt(s, n, i)
  BY <1>4 DEF RowsOf, DeletedAt, OpenSegment
<1>9. \A n \in 0..Len(s.segments) : n = OpenSegment \/ n \in 1..Len(s.segments)
  BY DEF OpenSegment
<1>10. new.row = r /\ new.insert_lsn = now
  BY DEF new
<1>11. StoreShape(t)
  <2>1. t.open \in Seq(OpenRow)
    BY <1>1, <1>2, <1>4
  <2>2. /\ t.segments \in Seq(Segment) /\ t.sidecars \in Seq(SUBSET (Nat \X Nat))
        /\ t.live_rows \in Nat /\ t.applied_lsn \in Nat /\ Len(t.sidecars) = Len(t.segments)
        /\ t.index \in [DOMAIN t.index -> [seg : Nat, row : Nat]] /\ DOMAIN t.index \subseteq Key
    BY <1>1, <1>4, <1>5
  <2> QED
    BY <1>4, <2>1, <2>2, ShapeFrom
<1>12. Later(s, t, now)
  <2>1. \A n \in 0..Len(s.segments) : \A i \in DOMAIN RowsOf(s, n) :
            /\ i \in DOMAIN RowsOf(t, n)
            /\ RowsOf(t, n)[i] = RowsOf(s, n)[i] /\ DeletedAt(t, n, i) = DeletedAt(s, n, i)
    BY <1>6, <1>7, <1>8, <1>9
  <2>2. \A n \in 0..Len(s.segments) : \A i \in DOMAIN RowsOf(t, n) :
            i \notin DOMAIN RowsOf(s, n) =>
                n = OpenSegment /\ RowsOf(t, n)[i].insert_lsn = now /\ DeletedAt(t, n, i) = {}
    BY <1>6, <1>7, <1>8, <1>9, <1>10
  <2> QED
    BY <1>4, <2>1, <2>2 DEF Later
<1>13. Timed(t, now) /\ ShowsHistory(t, past) /\ ShownOnce(t, now)
  BY <1>1, <1>11, <1>12, LaterKeeps DEF StoreInv
<1> DEFINE after == [table EXCEPT ![r] = @ + 1]
<1>14. table[r] = 0 /\ after \in Table /\ after[r] = 1 /\ \A x \in Row : x # r => after[x] = table[x]
  BY DEF StoreInv, IndexIsLive, Table
<1> HIDE DEF after
<1>15. IndexIsLive(t, after)
  <2>1. IndexIsLive(s, table)
    BY DEF StoreInv
  <2>2. ASSUME NEW k \in DOMAIN t.index
        PROVE  LET l == t.index[k] IN
               /\ l.seg \in 0..Len(t.segments) /\ l.row \in DOMAIN RowsOf(t, l.seg)
               /\ RowsOf(t, l.seg)[l.row].row.key = k
               /\ DeletedAt(t, l.seg, l.row) = {}
    <3>1. CASE k = r.key
      <4>1. t.index[k] = loc /\ loc.seg = OpenSegment /\ loc.row = last
        BY <1>4, <1>5, <3>1
      <4>2. OpenSegment \in 0..Len(t.segments)
        BY <1>1, <1>4 DEF OpenSegment
      <4> QED
        BY <1>6, <1>7, <1>10, <3>1, <4>1, <4>2
    <3>2. CASE k # r.key
      <4> DEFINE l == s.index[k]
      <4>1. k \in DOMAIN s.index /\ t.index[k] = l
        BY <1>4, <1>5, <3>2
      <4>2. /\ l.seg \in 0..Len(s.segments) /\ l.row \in DOMAIN RowsOf(s, l.seg)
            /\ RowsOf(s, l.seg)[l.row].row.key = k /\ DeletedAt(s, l.seg, l.row) = {}
        BY <2>1, <4>1 DEF IndexIsLive
      <4> HIDE DEF l
      <4>3. /\ l.row \in DOMAIN RowsOf(t, l.seg)
            /\ RowsOf(t, l.seg)[l.row] = RowsOf(s, l.seg)[l.row]
            /\ DeletedAt(t, l.seg, l.row) = DeletedAt(s, l.seg, l.row)
        BY <1>6, <1>7, <1>8, <1>9, <4>2
      <4> QED
        BY <1>4, <4>1, <4>2, <4>3
    <3> QED
      BY <3>1, <3>2
  <2>3. ASSUME NEW n \in 0..Len(t.segments), NEW i \in DOMAIN RowsOf(t, n), DeletedAt(t, n, i) = {}
        PROVE  /\ RowsOf(t, n)[i].row.key \in DOMAIN t.index
               /\ t.index[RowsOf(t, n)[i].row.key] = [seg |-> n, row |-> i]
    <3>1. CASE i \in DOMAIN RowsOf(s, n)
      <4>1. RowsOf(t, n)[i] = RowsOf(s, n)[i] /\ DeletedAt(s, n, i) = {}
        BY <1>4, <1>6, <1>7, <1>8, <1>9, <2>3, <3>1
      <4>2. /\ RowsOf(s, n)[i].row.key \in DOMAIN s.index
            /\ s.index[RowsOf(s, n)[i].row.key] = [seg |-> n, row |-> i]
        BY <1>4, <2>1, <3>1, <4>1 DEF IndexIsLive
      <4> QED
        BY <1>4, <1>5, <4>1, <4>2
    <3>2. CASE i \notin DOMAIN RowsOf(s, n)
      <4>1. n = OpenSegment /\ i = last
        BY <1>4, <1>6, <1>8, <1>9, <3>2
      <4> QED
        BY <1>4, <1>5, <1>6, <1>10, <4>1
    <3> QED
      BY <3>1, <3>2
  <2>4. ASSUME NEW x \in Row
        PROVE  after[x] = IF /\ x.key \in DOMAIN t.index
                             /\ RowsOf(t, t.index[x.key].seg)[t.index[x.key].row].row = x
                          THEN 1 ELSE 0
    <3>1. CASE x.key = r.key
      <4>1. x.key \in DOMAIN t.index /\ t.index[x.key].seg = OpenSegment /\ t.index[x.key].row = last
        BY <1>4, <1>5, <3>1
      <4>2. RowsOf(t, t.index[x.key].seg)[t.index[x.key].row].row = r
        BY <1>6, <1>10, <4>1
      <4>3. x # r => after[x] = 0
        BY <1>14, <2>1, <3>1 DEF IndexIsLive
      <4> QED
        BY <1>14, <4>1, <4>2, <4>3
    <3>2. CASE x.key # r.key
      <4>1. after[x] = table[x]
        BY <1>14, <3>2
      <4>2. x.key \in DOMAIN t.index <=> x.key \in DOMAIN s.index
        BY <1>4, <1>5, <3>2
      <4>3. CASE x.key \in DOMAIN s.index
        <5> DEFINE l == s.index[x.key]
        <5>1. l.seg \in 0..Len(s.segments) /\ l.row \in DOMAIN RowsOf(s, l.seg)
          BY <2>1, <4>3 DEF IndexIsLive
        <5>2. t.index[x.key] = l
          BY <1>4, <1>5, <4>3
        <5>3. table[x] = IF RowsOf(s, l.seg)[l.row].row = x THEN 1 ELSE 0
          BY <2>1, <4>3 DEF IndexIsLive
        <5> HIDE DEF l
        <5>4. RowsOf(t, l.seg)[l.row] = RowsOf(s, l.seg)[l.row]
          BY <1>6, <1>8, <1>9, <5>1
        <5> QED
          BY <4>1, <4>2, <4>3, <5>2, <5>3, <5>4
      <4>4. CASE x.key \notin DOMAIN s.index
        BY <2>1, <4>1, <4>2, <4>4 DEF IndexIsLive
      <4> QED
        BY <4>3, <4>4
    <3> QED
      BY <3>1, <3>2
  <2>5. IsFiniteSet(DOMAIN t.index) /\ t.live_rows = Cardinality(DOMAIN t.index)
    <3>1. /\ IsFiniteSet(DOMAIN s.index \union {r.key})
          /\ Cardinality(DOMAIN s.index \union {r.key}) = Cardinality(DOMAIN s.index) + 1
      <4> DEFINE keys == DOMAIN s.index
      <4>1. IsFiniteSet(keys) /\ r.key \notin keys
        BY <2>1 DEF IndexIsLive
      <4> HIDE DEF keys
      <4>2. /\ IsFiniteSet(keys \union {r.key})
            /\ Cardinality(keys \union {r.key}) = Cardinality(keys) + 1
        BY <4>1, FS_AddElement
      <4> QED
        BY <4>2 DEF keys
    <3> QED
      BY <1>4, <1>5, <2>1, <3>1 DEF IndexIsLive
  <2> QED
    BY <2>2, <2>3, <2>4, <2>5 DEF IndexIsLive
<1>16. StoreInv(t, after, past)
  BY <1>11, <1>13, <1>15 DEF StoreInv, now
<1> QED
  BY <1>4, <1>12, <1>14, <1>16 DEF t, after

\* Rows of the index are marked at an LSN and leave it.
Marks(s, t, gone, now) ==
    /\ t.segments = s.segments
    /\ \A n \in 0..Len(s.segments) :
          /\ DOMAIN RowsOf(t, n) = DOMAIN RowsOf(s, n)
          /\ \A i \in DOMAIN RowsOf(s, n) :
                /\ RowsOf(t, n)[i].row = RowsOf(s, n)[i].row
                /\ RowsOf(t, n)[i].insert_lsn = RowsOf(s, n)[i].insert_lsn
                /\ \A d : d \in DeletedAt(t, n, i) <=>
                            \/ d \in DeletedAt(s, n, i)
                            \/ d = now /\ \E k \in gone : s.index[k] = [seg |-> n, row |-> i]
    /\ \A n \in 1..Len(s.segments) :
          /\ \A x : x \in s.sidecars[n] => x \in t.sidecars[n]
          /\ \A x : x \in t.sidecars[n] => x \in s.sidecars[n] \/ x[2] = now
    /\ t.index = [k \in DOMAIN s.index \ gone |-> s.index[k]]

Without(table, gone) == [r \in Row |-> IF r.key \in gone THEN 0 ELSE table[r]]

Minus(table, r) == [table EXCEPT ![r] = @ - 1]

LEMMA MarksKeep ==
    ASSUME NEW s, NEW t, NEW table \in Table, NEW past, Len(past) \in Nat, NEW gone,
           StoreInv(s, table, past), StoreShape(t), Marks(s, t, gone, Len(past)),
           gone \subseteq DOMAIN s.index, t.live_rows = Cardinality(DOMAIN t.index)
    PROVE  /\ StoreInv(t, Without(table, gone), past) /\ Later(s, t, Len(past))
           /\ Without(table, gone) \in Table
<1> DEFINE now == Len(past)
           after == Without(table, gone)
<1> USE DEF Without
<1>1. /\ IndexIsLive(s, table) /\ StoreShape(s) /\ t.segments = s.segments
      /\ s.index \in [DOMAIN s.index -> [seg : Nat, row : Nat]]
  BY DEF StoreInv, StoreShape, Marks
<1>2. /\ DOMAIN t.index = DOMAIN s.index \ gone
      /\ \A k \in DOMAIN s.index \ gone : t.index[k] = s.index[k]
  BY DEF Marks
<1>3. ASSUME NEW n \in 0..Len(s.segments), NEW i \in DOMAIN RowsOf(s, n)
      PROVE  /\ i \in DOMAIN RowsOf(t, n)
             /\ RowsOf(t, n)[i].row = RowsOf(s, n)[i].row
             /\ RowsOf(t, n)[i].insert_lsn = RowsOf(s, n)[i].insert_lsn
             /\ \A d : d \in DeletedAt(t, n, i) <=>
                         \/ d \in DeletedAt(s, n, i)
                         \/ d = now /\ \E k \in gone : s.index[k] = [seg |-> n, row |-> i]
  BY DEF Marks
<1>4. \A n \in 0..Len(s.segments) : DOMAIN RowsOf(t, n) = DOMAIN RowsOf(s, n)
  BY DEF Marks
<1>5. Later(s, t, now)
  <2>1. \A n \in 1..Len(s.segments) :
          /\ \A x : x \in s.sidecars[n] => x \in t.sidecars[n]
          /\ \A x : x \in t.sidecars[n] => x \in s.sidecars[n] \/ x[2] = now
    BY DEF Marks
  <2>2. \A n \in 0..Len(s.segments) : \A i \in DOMAIN RowsOf(s, n) :
          /\ i \in DOMAIN RowsOf(t, n)
          /\ RowsOf(t, n)[i].row = RowsOf(s, n)[i].row
          /\ RowsOf(t, n)[i].insert_lsn = RowsOf(s, n)[i].insert_lsn
          /\ \A d : d \in DeletedAt(s, n, i) => d \in DeletedAt(t, n, i)
          /\ \A d : d \in DeletedAt(t, n, i) => d \in DeletedAt(s, n, i) \/ d = now
    <3> TAKE n \in 0..Len(s.segments)
    <3> TAKE i \in DOMAIN RowsOf(s, n)
    <3>1. /\ i \in DOMAIN RowsOf(t, n)
          /\ RowsOf(t, n)[i].row = RowsOf(s, n)[i].row
          /\ RowsOf(t, n)[i].insert_lsn = RowsOf(s, n)[i].insert_lsn
      BY <1>3
    <3>2. \A d : d \in DeletedAt(s, n, i) => d \in DeletedAt(t, n, i)
      BY <1>3
    <3>3. \A d : d \in DeletedAt(t, n, i) => d \in DeletedAt(s, n, i) \/ d = now
      <4> SUFFICES ASSUME NEW d, d \in DeletedAt(t, n, i) PROVE d \in DeletedAt(s, n, i) \/ d = now
        OBVIOUS
      <4>1. \A x : x \in DeletedAt(t, n, i) <=>
                     \/ x \in DeletedAt(s, n, i)
                     \/ x = now /\ \E k \in gone : s.index[k] = [seg |-> n, row |-> i]
        BY <1>3
      <4> QED
        BY <4>1, Zenon
    <3> QED
      BY <3>1, <3>2, <3>3
  <2>3. \A n \in 0..Len(s.segments) : \A i \in DOMAIN RowsOf(t, n) : i \in DOMAIN RowsOf(s, n)
    BY <1>4
  <2> QED
    BY <1>1, <2>1, <2>2, <2>3, Zenon DEF Later
<1>6. Timed(t, now) /\ ShowsHistory(t, past) /\ ShownOnce(t, now)
  BY <1>1, <1>5, LaterKeeps DEF StoreInv
<1>7. IsFiniteSet(DOMAIN t.index)
  <2>1. IsFiniteSet(DOMAIN s.index) /\ DOMAIN t.index \subseteq DOMAIN s.index
    BY <1>1, <1>2 DEF IndexIsLive
  <2> QED
    BY <2>1, FS_Subset
<1>8. ASSUME NEW k \in DOMAIN t.index
      PROVE  LET l == t.index[k] IN
             /\ l.seg \in 0..Len(t.segments) /\ l.row \in DOMAIN RowsOf(t, l.seg)
             /\ RowsOf(t, l.seg)[l.row].row.key = k
             /\ DeletedAt(t, l.seg, l.row) = {}
  <2> DEFINE l == s.index[k]
  <2>1. k \in DOMAIN s.index /\ k \notin gone /\ t.index[k] = l
    BY <1>2
  <2>2. /\ l.seg \in 0..Len(s.segments) /\ l.row \in DOMAIN RowsOf(s, l.seg)
        /\ RowsOf(s, l.seg)[l.row].row.key = k /\ DeletedAt(s, l.seg, l.row) = {}
    BY <1>1, <2>1 DEF IndexIsLive
  <2>3. ~ \E j \in gone : s.index[j] = [seg |-> l.seg, row |-> l.row]
    <3> SUFFICES ASSUME NEW j \in gone, s.index[j] = [seg |-> l.seg, row |-> l.row] PROVE FALSE
      OBVIOUS
    <3>1. s.index[j].seg = l.seg /\ s.index[j].row = l.row
      OBVIOUS
    <3>2. RowsOf(s, s.index[j].seg)[s.index[j].row].row.key = j
      BY <1>1 DEF IndexIsLive
    <3>3. RowsOf(s, l.seg)[l.row].row.key = j
      BY <3>1, <3>2
    <3> QED
      BY <2>1, <2>2, <3>3
  <2> HIDE DEF l
  <2>4. DeletedAt(t, l.seg, l.row) = {}
    BY <1>3, <2>2, <2>3
  <2> QED
    BY <1>1, <1>3, <2>1, <2>2, <2>4
<1>9. ASSUME NEW n \in 0..Len(t.segments), NEW i \in DOMAIN RowsOf(t, n), DeletedAt(t, n, i) = {}
      PROVE  /\ RowsOf(t, n)[i].row.key \in DOMAIN t.index
             /\ t.index[RowsOf(t, n)[i].row.key] = [seg |-> n, row |-> i]
  <2>1. n \in 0..Len(s.segments) /\ i \in DOMAIN RowsOf(s, n)
    BY <1>1, <1>4
  <2>2. RowsOf(t, n)[i].row = RowsOf(s, n)[i].row /\ DeletedAt(s, n, i) = {}
    BY <1>3, <1>9, <2>1
  <2> DEFINE k == RowsOf(s, n)[i].row.key
  <2>3. k \in DOMAIN s.index /\ s.index[k] = [seg |-> n, row |-> i]
    BY <1>1, <2>1, <2>2 DEF IndexIsLive
  <2>4. k \notin gone
    BY <1>3, <1>9, <2>1, <2>3
  <2> QED
    BY <1>2, <2>2, <2>3, <2>4
<1>10. ASSUME NEW r \in Row
       PROVE  after[r] = IF /\ r.key \in DOMAIN t.index
                            /\ RowsOf(t, t.index[r.key].seg)[t.index[r.key].row].row = r
                         THEN 1 ELSE 0
  <2>1. CASE r.key \in gone
    BY <1>2, <2>1
  <2>2. CASE r.key \notin gone /\ r.key \in DOMAIN s.index
    <3> DEFINE l == s.index[r.key]
    <3>1. l.seg \in 0..Len(s.segments) /\ l.row \in DOMAIN RowsOf(s, l.seg)
      BY <1>1, <2>2 DEF IndexIsLive
    <3>2. t.index[r.key] = l /\ r.key \in DOMAIN t.index /\ after[r] = table[r]
      BY <1>2, <2>2
    <3>3. table[r] = IF RowsOf(s, l.seg)[l.row].row = r THEN 1 ELSE 0
      BY <1>1, <2>2 DEF IndexIsLive
    <3> HIDE DEF l
    <3>4. RowsOf(t, l.seg)[l.row].row = RowsOf(s, l.seg)[l.row].row
      BY <1>3, <3>1
    <3> QED
      BY <3>2, <3>3, <3>4
  <2>3. CASE r.key \notin gone /\ r.key \notin DOMAIN s.index
    BY <1>1, <1>2, <2>3 DEF IndexIsLive
  <2> QED
    BY <2>1, <2>2, <2>3
<1>11. after \in Table
  BY DEF Table
<1> HIDE DEF Without, after
<1>12. IndexIsLive(t, after)
  BY <1>7, <1>8, <1>9, <1>10 DEF IndexIsLive
<1> QED
  BY <1>5, <1>6, <1>11, <1>12 DEF StoreInv, after

\* One row of the index is marked and leaves it.
LEMMA RemoveMarks ==
    ASSUME NEW s, NEW table \in Table, NEW past, Len(past) \in Nat,
           StoreInv(s, table, past), NEW k \in DOMAIN s.index,
           NEW t, t = DeleteRow(s, k, Len(past)), NEW gone, \A j : j \in gone <=> j = k
    PROVE  /\ StoreShape(t) /\ Marks(s, t, gone, Len(past))
           /\ t.live_rows = Cardinality(DOMAIN t.index)
           /\ t.applied_lsn = s.applied_lsn
           /\ t = Unindex(MarkDeleted(s, s.index[k], Len(past)), k)
<1> DEFINE now == Len(past)
           loc == s.index[k]
           index == [j \in DOMAIN s.index \ {k} |-> s.index[j]]
           fewer == IF s.live_rows > 0 THEN s.live_rows - 1 ELSE 0
<1>1. /\ s.open \in Seq(OpenRow) /\ s.segments \in Seq(Segment) /\ s.live_rows \in Nat
      /\ s.applied_lsn \in Nat /\ Len(s.open) \in Nat /\ Len(s.segments) \in Nat
      /\ s.sidecars \in Seq(SUBSET (Nat \X Nat)) /\ Len(s.sidecars) = Len(s.segments)
      /\ s.index \in [DOMAIN s.index -> [seg : Nat, row : Nat]] /\ DOMAIN s.index \subseteq Key
      /\ now \in Nat /\ StoreShape(s) /\ IndexIsLive(s, table)
      /\ s \in [open : {s.open}, segments : {s.segments}, sidecars : {s.sidecars},
                index : {s.index}, live_rows : {s.live_rows}, applied_lsn : {s.applied_lsn}]
  BY DEF StoreInv, StoreShape
<1>2. /\ loc \in [seg : Nat, row : Nat]
      /\ loc.seg \in 0..Len(s.segments) /\ loc.row \in DOMAIN RowsOf(s, loc.seg)
      /\ DeletedAt(s, loc.seg, loc.row) = {}
  BY <1>1 DEF IndexIsLive
<1>3. fewer \in Nat /\ fewer = Cardinality(DOMAIN s.index \ {k})
  <2> DEFINE keys == DOMAIN s.index
  <2>1. IsFiniteSet(keys) /\ k \in keys /\ s.live_rows = Cardinality(keys)
    BY <1>1 DEF IndexIsLive
  <2> HIDE DEF keys
  <2>2. Cardinality(keys \ {k}) = Cardinality(keys) - 1
    BY <2>1, FS_RemoveElement
  <2>3. Cardinality(keys \ {k}) \in Nat
    BY <2>1, FS_RemoveElement, FS_CardinalityType
  <2> QED
    BY <1>1, <2>1, <2>2, <2>3 DEF keys
<1>4. /\ DOMAIN index = DOMAIN s.index \ {k}
      /\ index \in [DOMAIN index -> [seg : Nat, row : Nat]]
  BY <1>1
<1> HIDE DEF fewer, index
<1>5. \A n \in 0..Len(s.segments), i \in Nat :
          [seg |-> n, row |-> i] = loc <=> n = loc.seg /\ i = loc.row
  BY <1>2
<1>6. CASE loc.seg = OpenSegment
  <2> DEFINE e == [s.open[loc.row] EXCEPT !.delete_lsn = now]
             open == [s.open EXCEPT ![loc.row] = e]
  <2>1. /\ t.open = open /\ t.segments = s.segments /\ t.sidecars = s.sidecars /\ t.index = index
        /\ t.live_rows = fewer /\ t.applied_lsn = s.applied_lsn
        /\ t \in [open : {t.open}, segments : {t.segments}, sidecars : {t.sidecars},
                  index : {t.index}, live_rows : {t.live_rows}, applied_lsn : {t.applied_lsn}]
        /\ t = Unindex(MarkDeleted(s, loc, now), k)
    BY <1>1, <1>6 DEF DeleteRow, MarkDeleted, Unindex, fewer, index
  <2>2. loc.row \in DOMAIN s.open /\ RowsOf(s, OpenSegment) = s.open /\ RowsOf(t, OpenSegment) = open
    BY <1>2, <1>6, <2>1 DEF RowsOf
  <2>3. /\ s.open[loc.row] \in OpenRow /\ e \in OpenRow
        /\ e.row = s.open[loc.row].row /\ e.insert_lsn = s.open[loc.row].insert_lsn
        /\ e.delete_lsn = now
    <3>1. s.open[loc.row] \in OpenRow
      BY <1>1, <2>2
    <3> QED
      BY <1>1, <3>1 DEF OpenRow
  <2> HIDE DEF e
  <2>4. /\ DOMAIN open = DOMAIN s.open /\ open[loc.row] = e
        /\ \A i \in DOMAIN s.open : i # loc.row => open[i] = s.open[i]
    BY <2>2
  <2>5. open \in Seq(OpenRow)
    BY <1>1, <2>2, <2>3
  <2> HIDE DEF open
  <2>6. StoreShape(t)
    BY <1>1, <1>3, <1>4, <2>1, <2>5, ShapeFrom
  <2>7. \A i \in DOMAIN s.open : \A d :
            d \in DeletedAt(t, OpenSegment, i) <=>
                d \in DeletedAt(s, OpenSegment, i) \/ (d = now /\ i = loc.row)
    <3> SUFFICES ASSUME NEW i \in DOMAIN s.open, NEW d
                 PROVE  d \in DeletedAt(t, OpenSegment, i) <=>
                            d \in DeletedAt(s, OpenSegment, i) \/ (d = now /\ i = loc.row)
      OBVIOUS
    <3>1. CASE i = loc.row
      <4>1. DeletedAt(s, OpenSegment, i) = {} /\ now # NoLsn
        BY <1>1, <1>2, <1>6, <3>1, SentinelAssumption
      <4>2. DeletedAt(t, OpenSegment, i) = {now}
        BY <2>1, <2>3, <2>4, <3>1, <4>1 DEF DeletedAt
      <4> QED
        BY <3>1, <4>1, <4>2
    <3>2. CASE i # loc.row
      <4>1. t.open[i] = s.open[i]
        BY <2>1, <2>4, <3>2
      <4> QED
        BY <3>2, <4>1 DEF DeletedAt
    <3> QED
      BY <3>1, <3>2
  <2>8. \A n \in 1..Len(s.segments) :
            /\ RowsOf(t, n) = RowsOf(s, n) /\ n # loc.seg
            /\ \A i : DeletedAt(t, n, i) = DeletedAt(s, n, i)
    BY <1>6, <2>1 DEF RowsOf, DeletedAt, OpenSegment
  <2>9. Marks(s, t, gone, now)
    <3>1. ASSUME NEW n \in 0..Len(s.segments), NEW i \in DOMAIN RowsOf(s, n), NEW d
          PROVE  /\ RowsOf(t, n)[i].row = RowsOf(s, n)[i].row
                 /\ RowsOf(t, n)[i].insert_lsn = RowsOf(s, n)[i].insert_lsn
                 /\ d \in DeletedAt(t, n, i) <=>
                      \/ d \in DeletedAt(s, n, i)
                      \/ d = now /\ \E j \in gone : s.index[j] = [seg |-> n, row |-> i]
      <4>1. n = OpenSegment \/ n \in 1..Len(s.segments)
        BY DEF OpenSegment
      <4>2. (\E j \in gone : s.index[j] = [seg |-> n, row |-> i]) <=> n = loc.seg /\ i = loc.row
        BY <1>1, <1>5, PlaceTypes
      <4>3. CASE n = OpenSegment
        <5>1. i \in DOMAIN s.open
          BY <2>2, <4>3
        <5>2. d \in DeletedAt(t, n, i) <=> d \in DeletedAt(s, n, i) \/ (d = now /\ i = loc.row)
          BY <2>7, <4>3, <5>1
        <5>3. /\ RowsOf(t, n)[i].row = RowsOf(s, n)[i].row
              /\ RowsOf(t, n)[i].insert_lsn = RowsOf(s, n)[i].insert_lsn
          BY <2>2, <2>3, <2>4, <4>3, <5>1
        <5> QED
          BY <1>6, <4>2, <4>3, <5>2, <5>3
      <4>4. CASE n \in 1..Len(s.segments)
        BY <2>8, <4>2, <4>4
      <4> QED
        BY <4>1, <4>3, <4>4
    <3>2. \A n \in 0..Len(s.segments) : DOMAIN RowsOf(t, n) = DOMAIN RowsOf(s, n)
      <4>1. \A n \in 0..Len(s.segments) : n = OpenSegment \/ n \in 1..Len(s.segments)
        BY DEF OpenSegment
      <4> QED
        BY <2>2, <2>4, <2>8, <4>1
    <3>3. t.index = [j \in DOMAIN s.index \ gone |-> s.index[j]]
      <4>1. DOMAIN s.index \ gone = DOMAIN s.index \ {k}
        OBVIOUS
      <4> QED
        BY <2>1, <4>1 DEF index
    <3> QED
      BY <2>1, <3>1, <3>2, <3>3 DEF Marks
  <2> QED
    BY <1>3, <1>4, <2>1, <2>6, <2>9
<1>7. CASE loc.seg # OpenSegment
  <2> DEFINE marked == [s.sidecars EXCEPT ![loc.seg] = @ \union {<<loc.row, now>>}]
  <2>1. /\ t.open = s.open /\ t.segments = s.segments /\ t.sidecars = marked /\ t.index = index
        /\ t.live_rows = fewer /\ t.applied_lsn = s.applied_lsn
        /\ t \in [open : {t.open}, segments : {t.segments}, sidecars : {t.sidecars},
                  index : {t.index}, live_rows : {t.live_rows}, applied_lsn : {t.applied_lsn}]
        /\ t = Unindex(MarkDeleted(s, loc, now), k)
    BY <1>1, <1>7 DEF DeleteRow, MarkDeleted, Unindex, fewer, index
  <2>2. loc.seg \in 1..Len(s.segments)
    BY <1>2, <1>7 DEF OpenSegment
  <2>3. /\ DOMAIN marked = 1..Len(s.segments)
        /\ \A n \in 1..Len(s.segments) : \A x :
              x \in marked[n] <=> x \in s.sidecars[n] \/ (n = loc.seg /\ x = <<loc.row, now>>)
    <3>1. /\ DOMAIN marked = 1..Len(s.segments) /\ DOMAIN s.sidecars = 1..Len(s.segments)
          /\ marked[loc.seg] = s.sidecars[loc.seg] \union {<<loc.row, now>>}
          /\ \A n \in 1..Len(s.segments) : n # loc.seg => marked[n] = s.sidecars[n]
      BY <1>1, <2>2
    <3> HIDE DEF marked
    <3> QED
      BY <3>1
  <2>4. marked \in Seq(SUBSET (Nat \X Nat)) /\ Len(marked) = Len(s.segments)
    <3>1. <<loc.row, now>> \in Nat \X Nat
      BY <1>1, <1>2
    <3>2. s.sidecars[loc.seg] \union {<<loc.row, now>>} \in SUBSET (Nat \X Nat)
      BY <1>1, <2>2, <3>1
    <3> QED
      BY <1>1, <2>2, <3>2
  <2> HIDE DEF marked
  <2>5. StoreShape(t)
    BY <1>1, <1>3, <1>4, <2>1, <2>4, ShapeFrom
  <2>6. /\ \A n \in 0..Len(s.segments) : RowsOf(t, n) = RowsOf(s, n)
        /\ \A i : DeletedAt(t, OpenSegment, i) = DeletedAt(s, OpenSegment, i)
    BY <2>1 DEF RowsOf, DeletedAt
  <2>7. \A n \in 1..Len(s.segments) : \A i, d :
            d \in DeletedAt(t, n, i) <=>
                d \in DeletedAt(s, n, i) \/ (d = now /\ n = loc.seg /\ i = loc.row)
    <3> SUFFICES ASSUME NEW n \in 1..Len(s.segments), NEW i, NEW d
                 PROVE  d \in DeletedAt(t, n, i) <=>
                            d \in DeletedAt(s, n, i) \/ (d = now /\ n = loc.seg /\ i = loc.row)
      OBVIOUS
    <3>1. n # OpenSegment
      BY DEF OpenSegment
    <3>2. d \in DeletedAt(t, n, i) <=> \E x \in marked[n] : x[1] = i /\ x[2] = d
      BY <2>1, <3>1 DEF DeletedAt
    <3>3. d \in DeletedAt(s, n, i) <=> \E x \in s.sidecars[n] : x[1] = i /\ x[2] = d
      BY <3>1 DEF DeletedAt
    <3> DEFINE mark == <<loc.row, now>>
    <3>4. mark[1] = loc.row /\ mark[2] = now
      OBVIOUS
    <3>5. \A x : x \in marked[n] <=> x \in s.sidecars[n] \/ (n = loc.seg /\ x = mark)
      BY <2>3
    <3> HIDE DEF mark
    <3> QED
      BY <3>2, <3>3, <3>4, <3>5
  <2>8. Marks(s, t, gone, now)
    <3>1. ASSUME NEW n \in 0..Len(s.segments), NEW i \in DOMAIN RowsOf(s, n), NEW d
          PROVE  d \in DeletedAt(t, n, i) <=>
                   \/ d \in DeletedAt(s, n, i)
                   \/ d = now /\ \E j \in gone : s.index[j] = [seg |-> n, row |-> i]
      <4>1. n = OpenSegment \/ n \in 1..Len(s.segments)
        BY DEF OpenSegment
      <4>2. (\E j \in gone : s.index[j] = [seg |-> n, row |-> i]) <=> n = loc.seg /\ i = loc.row
        BY <1>1, <1>5, PlaceTypes
      <4>3. CASE n = OpenSegment
        BY <1>7, <2>6, <4>2, <4>3
      <4>4. CASE n \in 1..Len(s.segments)
        <5>1. d \in DeletedAt(t, n, i) <=>
                  d \in DeletedAt(s, n, i) \/ (d = now /\ n = loc.seg /\ i = loc.row)
          BY <2>7, <4>4
        <5> QED
          BY <4>2, <5>1
      <4> QED
        BY <4>1, <4>3, <4>4
    <3>2. \A n \in 1..Len(s.segments) :
            /\ \A x : x \in s.sidecars[n] => x \in t.sidecars[n]
            /\ \A x : x \in t.sidecars[n] => x \in s.sidecars[n] \/ x[2] = now
      <4> DEFINE mark == <<loc.row, now>>
      <4>1. mark[2] = now
        OBVIOUS
      <4>2. \A n \in 1..Len(s.segments) : \A x :
                x \in t.sidecars[n] <=> x \in s.sidecars[n] \/ (n = loc.seg /\ x = mark)
        BY <2>1, <2>3
      <4> HIDE DEF mark
      <4> QED
        BY <4>1, <4>2
    <3>3. t.index = [j \in DOMAIN s.index \ gone |-> s.index[j]]
      <4>1. DOMAIN s.index \ gone = DOMAIN s.index \ {k}
        OBVIOUS
      <4> QED
        BY <2>1, <4>1 DEF index
    <3> QED
      BY <2>1, <2>6, <3>1, <3>2, <3>3 DEF Marks
  <2> QED
    BY <1>3, <1>4, <2>1, <2>5, <2>8
<1> QED
  BY <1>6, <1>7

LEMMA RemoveKeeps ==
    ASSUME NEW s, NEW table \in Table, NEW past, Len(past) \in Nat,
           StoreInv(s, table, past), NEW r \in Row, table[r] > 0,
           NEW t, t = DeleteRow(s, r.key, Len(past))
    PROVE  /\ r.key \in DOMAIN s.index
           /\ StoreInv(t, Minus(table, r), past) /\ Minus(table, r) \in Table
           /\ Later(s, t, Len(past)) /\ t.applied_lsn = s.applied_lsn
           /\ DOMAIN t.index = DOMAIN s.index \ {r.key}
           /\ t = Unindex(MarkDeleted(s, s.index[r.key], Len(past)), r.key)
<1> DEFINE k == r.key
           gone == {k}
<1>1. k \in DOMAIN s.index /\ gone \subseteq DOMAIN s.index /\ \A j : j \in gone <=> j = k
  BY DEF StoreInv, IndexIsLive
<1>2. Without(table, gone) = Minus(table, r)
  <2>1. table[r] = 1
    BY DEF Table
  <2>2. ASSUME NEW x \in Row, x # r, x.key = k PROVE table[x] = 0
    <3> DEFINE l == s.index[k]
    <3>1. RowsOf(s, l.seg)[l.row].row = r
      BY <2>1 DEF StoreInv, IndexIsLive
    <3> QED
      BY <2>2, <3>1 DEF StoreInv, IndexIsLive
  <2>3. \A x \in Row : Without(table, gone)[x] = Minus(table, r)[x]
    BY <2>1, <2>2 DEF Table, Without, Minus
  <2>4. /\ DOMAIN Minus(table, r) = Row /\ DOMAIN Without(table, gone) = Row
        /\ Minus(table, r) = [x \in Row |-> Minus(table, r)[x]]
        /\ Without(table, gone) = [x \in Row |-> Without(table, gone)[x]]
    BY DEF Table, Without, Minus
  <2> QED
    BY <2>3, <2>4
<1> HIDE DEF k, gone
<1>3. t = DeleteRow(s, k, Len(past))
  BY DEF k
<1>4. /\ StoreShape(t) /\ Marks(s, t, gone, Len(past)) /\ t.live_rows = Cardinality(DOMAIN t.index)
      /\ t.applied_lsn = s.applied_lsn
      /\ t = Unindex(MarkDeleted(s, s.index[k], Len(past)), k)
  BY <1>1, <1>3, RemoveMarks
<1>5. /\ StoreInv(t, Without(table, gone), past) /\ Later(s, t, Len(past))
      /\ Without(table, gone) \in Table
  BY <1>1, <1>4, MarksKeep
<1>6. DOMAIN t.index = DOMAIN s.index \ gone
  BY <1>4 DEF Marks
<1> QED
  BY <1>1, <1>2, <1>4, <1>5, <1>6 DEF k, gone

\* TRUNCATE marks every row of the index.
LEMMA TruncateKeeps ==
    ASSUME NEW s, NEW table \in Table, NEW past, Len(past) \in Nat, StoreInv(s, table, past)
    PROVE  LET t == TruncateRows(s, Len(past)) IN
           /\ StoreInv(t, [r \in Row |-> 0], past) /\ [r \in Row |-> 0] \in Table
           /\ Later(s, t, Len(past)) /\ t.applied_lsn = s.applied_lsn
<1> DEFINE now == Len(past)
           t == TruncateRows(s, now)
           keys == DOMAIN s.index
           locs == {s.index[k] : k \in keys}
           open == [i \in DOMAIN s.open |->
                       IF [seg |-> OpenSegment, row |-> i] \in locs
                       THEN [s.open[i] EXCEPT !.delete_lsn = now] ELSE s.open[i]]
           marked == [n \in DOMAIN s.sidecars |->
                       s.sidecars[n] \union {<<loc.row, now>> : loc \in {m \in locs : m.seg = n}}]
           empty == [k \in {} |-> 0]
<1>1. /\ s.open \in Seq(OpenRow) /\ s.segments \in Seq(Segment) /\ s.live_rows \in Nat
      /\ s.applied_lsn \in Nat /\ Len(s.open) \in Nat /\ Len(s.segments) \in Nat
      /\ s.sidecars \in Seq(SUBSET (Nat \X Nat)) /\ Len(s.sidecars) = Len(s.segments)
      /\ s.index \in [DOMAIN s.index -> [seg : Nat, row : Nat]] /\ DOMAIN s.index \subseteq Key
      /\ now \in Nat /\ StoreShape(s) /\ IndexIsLive(s, table)
      /\ s \in [open : {s.open}, segments : {s.segments}, sidecars : {s.sidecars},
                index : {s.index}, live_rows : {s.live_rows}, applied_lsn : {s.applied_lsn}]
  BY DEF StoreInv, StoreShape
<1>2. \A n \in 0..Len(s.segments), i \in Nat :
          [seg |-> n, row |-> i] \in locs <=> \E k \in keys : s.index[k] = [seg |-> n, row |-> i]
  OBVIOUS
<1>3. \A n \in 0..Len(s.segments) : \A i \in DOMAIN RowsOf(s, n) :
          [seg |-> n, row |-> i] \in locs => DeletedAt(s, n, i) = {}
  <2> SUFFICES ASSUME NEW n \in 0..Len(s.segments), NEW i \in DOMAIN RowsOf(s, n), NEW k \in keys,
                      s.index[k] = [seg |-> n, row |-> i]
               PROVE  DeletedAt(s, n, i) = {}
    BY <1>2
  <2>1. s.index[k].seg = n /\ s.index[k].row = i
    OBVIOUS
  <2>2. DeletedAt(s, s.index[k].seg, s.index[k].row) = {}
    BY <1>1 DEF IndexIsLive
  <2> QED
    BY <2>1, <2>2
<1>4. locs \subseteq [seg : Nat, row : Nat]
  BY <1>1
<1>5. /\ DOMAIN open = DOMAIN s.open /\ open \in Seq(OpenRow)
      /\ \A i \in DOMAIN s.open :
            /\ open[i].row = s.open[i].row /\ open[i].insert_lsn = s.open[i].insert_lsn
            /\ [seg |-> OpenSegment, row |-> i] \in locs => open[i].delete_lsn = now
            /\ [seg |-> OpenSegment, row |-> i] \notin locs => open[i] = s.open[i]
  <2>1. \A i \in DOMAIN s.open : s.open[i] \in OpenRow
    BY <1>1
  <2>2. \A i \in DOMAIN s.open :
            LET e == [s.open[i] EXCEPT !.delete_lsn = now] IN
            /\ e \in OpenRow /\ e.row = s.open[i].row /\ e.insert_lsn = s.open[i].insert_lsn
            /\ e.delete_lsn = now
    BY <1>1, <2>1 DEF OpenRow
  <2>3. DOMAIN s.open = 1..Len(s.open)
    BY <1>1
  <2> HIDE DEF locs
  <2>4. \A i \in 1..Len(s.open) : open[i] \in OpenRow
    BY <2>1, <2>2, <2>3
  <2>5. open \in Seq(OpenRow)
    <3> DEFINE v(i) == IF [seg |-> OpenSegment, row |-> i] \in locs
                       THEN [s.open[i] EXCEPT !.delete_lsn = now] ELSE s.open[i]
    <3>1. open = [i \in 1..Len(s.open) |-> v(i)]
      BY <2>3
    <3>2. \A i \in 1..Len(s.open) : v(i) \in OpenRow
      BY <2>1, <2>2, <2>3
    <3> HIDE DEF open, v
    <3> QED
      BY <1>1, <3>1, <3>2, IsASeq
  <2> QED
    BY <2>2, <2>5
<1>6. /\ marked \in Seq(SUBSET (Nat \X Nat)) /\ Len(marked) = Len(s.segments)
      /\ \A n \in 1..Len(s.segments) : \A x :
            x \in marked[n] <=>
                \/ x \in s.sidecars[n]
                \/ \E loc \in locs : loc.seg = n /\ x = <<loc.row, now>>
  <2>1. DOMAIN s.sidecars = 1..Len(s.segments)
    BY <1>1
  <2>2. \A n \in 1..Len(s.segments) : s.sidecars[n] \in SUBSET (Nat \X Nat)
    BY <1>1, <2>1
  <2> HIDE DEF locs
  <2> DEFINE v(n) == s.sidecars[n] \union {<<loc.row, now>> : loc \in {m \in locs : m.seg = n}}
  <2>3. \A n \in 1..Len(s.segments) : v(n) \in SUBSET (Nat \X Nat)
    BY <1>1, <1>4, <2>2
  <2>4. marked = [n \in 1..Len(s.segments) |-> v(n)]
    BY <2>1
  <2>5. \A n \in 1..Len(s.segments) : \A x :
            x \in v(n) <=> \/ x \in s.sidecars[n]
                           \/ \E loc \in locs : loc.seg = n /\ x = <<loc.row, now>>
    OBVIOUS
  <2> HIDE DEF marked, v
  <2> QED
    BY <1>1, <2>3, <2>4, <2>5, IsASeq
<1>7. /\ empty = [k \in keys \ keys |-> s.index[k]] /\ DOMAIN empty = {}
      /\ empty \in [DOMAIN empty -> [seg : Nat, row : Nat]] /\ Cardinality(DOMAIN empty) = 0
  <2>1. DOMAIN empty = {} /\ empty = [k \in keys \ keys |-> s.index[k]]
    OBVIOUS
  <2> QED
    BY <2>1, FS_EmptySet
<1>8. /\ IF s.live_rows > Cardinality(keys) THEN s.live_rows - Cardinality(keys) = 0 ELSE TRUE
      /\ Cardinality(keys) \in Nat
  <2>1. IsFiniteSet(keys) /\ s.live_rows = Cardinality(keys)
    BY <1>1 DEF IndexIsLive
  <2> QED
    BY <1>1, <2>1
<1>9. /\ t.open = open /\ t.segments = s.segments /\ t.sidecars = marked /\ t.index = empty
      /\ t.live_rows = 0 /\ t.applied_lsn = s.applied_lsn
      /\ t \in [open : {t.open}, segments : {t.segments}, sidecars : {t.sidecars},
                index : {t.index}, live_rows : {t.live_rows}, applied_lsn : {t.applied_lsn}]
  <2>1. t = [s EXCEPT !.open = open, !.sidecars = marked,
                      !.live_rows = IF @ > Cardinality(keys) THEN @ - Cardinality(keys) ELSE 0,
                      !.index = empty]
    BY DEF TruncateRows
  <2> HIDE DEF t, open, marked, empty, keys
  <2> QED
    BY <1>1, <1>8, <2>1
<1> HIDE DEF t, open, marked, empty, locs
<1>10. StoreShape(t)
  <2>1. t.index \in [DOMAIN t.index -> [seg : Nat, row : Nat]] /\ DOMAIN t.index \subseteq Key
    BY <1>7, <1>9
  <2>2. t.open \in Seq(OpenRow) /\ t.sidecars \in Seq(SUBSET (Nat \X Nat))
        /\ t.segments \in Seq(Segment) /\ Len(t.sidecars) = Len(t.segments)
        /\ t.live_rows \in Nat /\ t.applied_lsn \in Nat
    BY <1>1, <1>5, <1>6, <1>9
  <2> QED
    BY <1>9, <2>1, <2>2, ShapeFrom
<1>11. \A i \in DOMAIN s.open : \A d :
          d \in DeletedAt(t, OpenSegment, i) <=>
              \/ d \in DeletedAt(s, OpenSegment, i)
              \/ d = now /\ [seg |-> OpenSegment, row |-> i] \in locs
  <2> SUFFICES ASSUME NEW i \in DOMAIN s.open, NEW d
               PROVE  d \in DeletedAt(t, OpenSegment, i) <=>
                          \/ d \in DeletedAt(s, OpenSegment, i)
                          \/ d = now /\ [seg |-> OpenSegment, row |-> i] \in locs
    OBVIOUS
  <2>1. CASE [seg |-> OpenSegment, row |-> i] \in locs
    <3>1. OpenSegment \in 0..Len(s.segments) /\ i \in DOMAIN RowsOf(s, OpenSegment) /\ now # NoLsn
      BY <1>1, SentinelAssumption DEF OpenSegment, RowsOf
    <3>2. DeletedAt(s, OpenSegment, i) = {}
      BY <1>3, <2>1, <3>1
    <3>3. t.open[i].delete_lsn = now
      BY <1>5, <1>9, <2>1
    <3>4. DeletedAt(t, OpenSegment, i) = {now}
      BY <3>1, <3>3 DEF DeletedAt
    <3> QED
      BY <2>1, <3>2, <3>4
  <2>2. CASE [seg |-> OpenSegment, row |-> i] \notin locs
    <3>1. t.open[i] = s.open[i]
      BY <1>5, <1>9, <2>2
    <3> QED
      BY <2>2, <3>1 DEF DeletedAt
  <2> QED
    BY <2>1, <2>2
<1>12. \A n \in 1..Len(s.segments) : \A i \in Nat : \A d :
          d \in DeletedAt(t, n, i) <=>
              \/ d \in DeletedAt(s, n, i)
              \/ d = now /\ [seg |-> n, row |-> i] \in locs
  <2> SUFFICES ASSUME NEW n \in 1..Len(s.segments), NEW i \in Nat, NEW d
               PROVE  d \in DeletedAt(t, n, i) <=>
                          \/ d \in DeletedAt(s, n, i)
                          \/ d = now /\ [seg |-> n, row |-> i] \in locs
    OBVIOUS
  <2>1. n # OpenSegment
    BY DEF OpenSegment
  <2>2. d \in DeletedAt(t, n, i) <=> \E x \in marked[n] : x[1] = i /\ x[2] = d
    BY <1>9, <2>1 DEF DeletedAt
  <2>3. d \in DeletedAt(s, n, i) <=> \E x \in s.sidecars[n] : x[1] = i /\ x[2] = d
    BY <2>1 DEF DeletedAt
  <2>4. \A loc \in locs : loc.seg = n /\ loc.row = i <=> loc = [seg |-> n, row |-> i]
    BY <1>4
  <2>5. \A loc \in locs : <<loc.row, now>>[1] = loc.row /\ <<loc.row, now>>[2] = now
    OBVIOUS
  <2>6. (\E x : /\ \E loc \in locs : loc.seg = n /\ x = <<loc.row, now>>
               /\ x[1] = i /\ x[2] = d)
        <=> d = now /\ [seg |-> n, row |-> i] \in locs
    <3>1. ASSUME NEW x, NEW loc \in locs, loc.seg = n, x = <<loc.row, now>>, x[1] = i, x[2] = d
          PROVE  d = now /\ [seg |-> n, row |-> i] \in locs
      BY <2>4, <2>5, <3>1
    <3>2. ASSUME d = now, [seg |-> n, row |-> i] \in locs
          PROVE  \E x : /\ \E loc \in locs : loc.seg = n /\ x = <<loc.row, now>>
                        /\ x[1] = i /\ x[2] = d
      <4> DEFINE l == [seg |-> n, row |-> i]
                 x == <<i, now>>
      <4>1. l \in locs /\ l.seg = n /\ l.row = i /\ x[1] = i /\ x[2] = d
        BY <3>2
      <4>2. x = <<l.row, now>>
        BY <4>1
      <4> HIDE DEF l, x
      <4> QED
        BY <4>1, <4>2
    <3> QED
      BY <3>1, <3>2
  <2> QED
    BY <1>6, <2>2, <2>3, <2>6
<1>13. Marks(s, t, keys, now)
  <2>1. /\ RowsOf(s, OpenSegment) = s.open /\ RowsOf(t, OpenSegment) = open
        /\ \A n \in 1..Len(s.segments) : RowsOf(t, n) = RowsOf(s, n)
        /\ \A n \in 0..Len(s.segments) : n = OpenSegment \/ n \in 1..Len(s.segments)
    BY <1>9 DEF RowsOf, OpenSegment
  <2>2. \A n \in 0..Len(s.segments) : DOMAIN RowsOf(t, n) = DOMAIN RowsOf(s, n)
    BY <1>5, <2>1
  <2>3. ASSUME NEW n \in 0..Len(s.segments), NEW i \in DOMAIN RowsOf(s, n), NEW d
        PROVE  /\ RowsOf(t, n)[i].row = RowsOf(s, n)[i].row
               /\ RowsOf(t, n)[i].insert_lsn = RowsOf(s, n)[i].insert_lsn
               /\ d \in DeletedAt(t, n, i) <=>
                    \/ d \in DeletedAt(s, n, i)
                    \/ d = now /\ \E k \in keys : s.index[k] = [seg |-> n, row |-> i]
    <3>1. i \in Nat
      BY <1>1, PlaceTypes
    <3>2. d \in DeletedAt(t, n, i) <=>
                \/ d \in DeletedAt(s, n, i)
                \/ d = now /\ [seg |-> n, row |-> i] \in locs
      <4>1. CASE n = OpenSegment
        <5>1. i \in DOMAIN s.open
          BY <2>1, <4>1
        <5> QED
          BY <1>11, <4>1, <5>1
      <4>2. CASE n \in 1..Len(s.segments)
        BY <1>12, <3>1, <4>2
      <4> QED
        BY <2>1, <4>1, <4>2
    <3>3. [seg |-> n, row |-> i] \in locs <=> \E k \in keys : s.index[k] = [seg |-> n, row |-> i]
      BY <1>2, <3>1
    <3>4. /\ RowsOf(t, n)[i].row = RowsOf(s, n)[i].row
          /\ RowsOf(t, n)[i].insert_lsn = RowsOf(s, n)[i].insert_lsn
      BY <1>5, <2>1
    <3> QED
      BY <3>2, <3>3, <3>4
  <2>4. \A n \in 1..Len(s.segments) :
            /\ \A x : x \in s.sidecars[n] => x \in t.sidecars[n]
            /\ \A x : x \in t.sidecars[n] => x \in s.sidecars[n] \/ x[2] = now
    <3>1. \A loc \in locs : <<loc.row, now>>[2] = now
      OBVIOUS
    <3> QED
      BY <1>6, <1>9, <3>1
  <2>5. t.index = [k \in DOMAIN s.index \ keys |-> s.index[k]]
    BY <1>7, <1>9
  <2> HIDE DEF keys
  <2> QED
    BY <1>9, <2>2, <2>3, <2>4, <2>5 DEF Marks
<1> DEFINE after == Without(table, keys)
<1>14. StoreInv(t, after, past) /\ Later(s, t, now) /\ after \in Table
  <2> HIDE DEF keys
  <2>1. /\ keys \subseteq DOMAIN s.index /\ t.live_rows = Cardinality(DOMAIN t.index)
    BY <1>7, <1>9 DEF keys
  <2> QED
    BY <1>10, <1>13, <2>1, MarksKeep
<1>15. after = [r \in Row |-> 0]
  BY <1>1 DEF IndexIsLive, Without
<1> QED
  BY <1>9, <1>14, <1>15 DEF t

-----------------------------------------------------------------------------
(***************************************************************************)
(* A flush gives the open rows' places another name, and changes nothing   *)
(* else.                                                                   *)
(***************************************************************************)
LEMMA GreatestExists ==
    ASSUME NEW S \in SUBSET Nat, S # {}, NEW b \in Nat, \A y \in S : y <= b
    PROVE  \E greatest \in S : \A y \in S : greatest >= y
<1> DEFINE D == {b - y : y \in S}
<1>1. D \in SUBSET Nat /\ D # {}
  <2>1. \A y \in S : y \in Nat /\ b - y \in Nat
    OBVIOUS
  <2> QED
    BY <2>1
<1>2. PICK least \in D : \A x \in D : least <= x
  BY <1>1, SmallestExists
<1>3. PICK greatest \in S : least = b - greatest
  BY <1>2
<1>4. \A y \in S : b - y \in D
  OBVIOUS
<1>5. \A y \in S : b - greatest <= b - y
  BY <1>2, <1>3, <1>4
<1> QED
  BY <1>5

Renamed(s, m) == IF m = Len(s.segments) + 1 THEN OpenSegment ELSE m

Renames(s, t) ==
    /\ Len(t.segments) = Len(s.segments) + 1
    /\ RowsOf(t, OpenSegment) = <<>>
    /\ \A m \in 1..(Len(s.segments) + 1) :
          /\ DOMAIN RowsOf(t, m) = DOMAIN RowsOf(s, Renamed(s, m))
          /\ \A i \in DOMAIN RowsOf(t, m) :
                /\ RowsOf(t, m)[i].row = RowsOf(s, Renamed(s, m))[i].row
                /\ RowsOf(t, m)[i].insert_lsn = RowsOf(s, Renamed(s, m))[i].insert_lsn
                /\ DeletedAt(t, m, i) = DeletedAt(s, Renamed(s, m), i)
                /\ m = Len(s.segments) + 1 => t.segments[m].lsn_min <= RowsOf(t, m)[i].insert_lsn
    /\ \A n \in 1..Len(s.segments) : t.segments[n] = s.segments[n] /\ t.sidecars[n] = s.sidecars[n]
    /\ DOMAIN t.index = DOMAIN s.index
    /\ \A k \in DOMAIN s.index :
          \E m \in 1..(Len(s.segments) + 1) :
              s.index[k].seg = Renamed(s, m) /\ t.index[k] = [seg |-> m, row |-> s.index[k].row]
    /\ t.live_rows = s.live_rows

LEMMA RenamesKeep ==
    ASSUME NEW s, NEW t, NEW table, NEW past, Len(past) \in Nat,
           StoreInv(s, table, past), StoreShape(t), Renames(s, t)
    PROVE  StoreInv(t, table, past)
<1> DEFINE N == Len(s.segments) + 1
           now == Len(past)
           Back(m) == Renamed(s, m)
<1>1. /\ Len(s.segments) \in Nat /\ N \in Nat /\ Len(t.segments) = N /\ now \in Nat
      /\ Timed(s, now) /\ ShowsHistory(s, past) /\ ShownOnce(s, now) /\ IndexIsLive(s, table)
      /\ s.index \in [DOMAIN s.index -> [seg : Nat, row : Nat]]
  BY DEF StoreInv, StoreShape, Renames
<1>2. /\ \A n \in 0..N : n \in 1..N \/ (n = OpenSegment /\ DOMAIN RowsOf(t, n) = {})
      /\ \A m \in 1..N : Back(m) \in 0..Len(s.segments) /\ m # OpenSegment
      /\ \A n \in 0..Len(s.segments) : \E m \in 1..N : Back(m) = n
      /\ \A m, n \in 1..N : Back(m) = Back(n) => m = n
  <2>1. DOMAIN RowsOf(t, OpenSegment) = {}
    BY DEF Renames
  <2>2. \A m \in 1..N : (m = N => Back(m) = 0) /\ (m # N => Back(m) = m)
    BY DEF Renamed, OpenSegment
  <2>3. \A n \in 0..Len(s.segments) : \E m \in 1..N : Back(m) = n
    <3> SUFFICES ASSUME NEW n \in 0..Len(s.segments) PROVE \E m \in 1..N : Back(m) = n
      OBVIOUS
    <3>1. CASE n = 0
      <4>1. N \in 1..N
        BY <1>1
      <4> QED
        BY <2>2, <3>1, <4>1
    <3>2. CASE n # 0
      <4>1. n \in 1..N /\ n # N
        BY <1>1, <3>2
      <4> QED
        BY <2>2, <4>1
    <3> QED
      BY <3>1, <3>2
  <2> HIDE DEF Back
  <2>4. \A m \in 1..N : Back(m) \in 0..Len(s.segments) /\ m # OpenSegment
    BY <1>1, <2>2 DEF OpenSegment
  <2>5. \A m, n \in 1..N : Back(m) = Back(n) => m = n
    BY <1>1, <2>2
  <2>6. \A n \in 0..N : n \in 1..N \/ (n = OpenSegment /\ DOMAIN RowsOf(t, n) = {})
    BY <1>1, <2>1 DEF OpenSegment
  <2> QED
    BY <2>3, <2>4, <2>5, <2>6
<1>3. ASSUME NEW m \in 1..N, NEW i \in DOMAIN RowsOf(t, m)
      PROVE  /\ i \in DOMAIN RowsOf(s, Back(m))
             /\ RowsOf(t, m)[i].row = RowsOf(s, Back(m))[i].row
             /\ RowsOf(t, m)[i].insert_lsn = RowsOf(s, Back(m))[i].insert_lsn
             /\ DeletedAt(t, m, i) = DeletedAt(s, Back(m), i)
             /\ m = N => t.segments[m].lsn_min <= RowsOf(t, m)[i].insert_lsn
  BY DEF Renames
<1>4. ASSUME NEW m \in 1..N, NEW i \in DOMAIN RowsOf(s, Back(m))
      PROVE  i \in DOMAIN RowsOf(t, m)
  BY DEF Renames
<1>5. ASSUME NEW m \in 1..N, NEW i \in DOMAIN RowsOf(t, m), NEW lsn
      PROVE  Visible(t, m, i, lsn) <=> Visible(s, Back(m), i, lsn)
  BY <1>3 DEF Visible
<1>6. \A n \in 1..Len(s.segments) : t.segments[n] = s.segments[n] /\ Back(n) = n
  BY <1>1 DEF Renames, Renamed
<1> HIDE DEF Back
<1>7. Timed(t, now)
  <2> SUFFICES ASSUME NEW m \in 0..N, NEW i \in DOMAIN RowsOf(t, m)
               PROVE  /\ RowsOf(t, m)[i].insert_lsn <= now
                      /\ \A d \in DeletedAt(t, m, i) : d <= now
                      /\ m # OpenSegment => t.segments[m].lsn_min <= RowsOf(t, m)[i].insert_lsn
    BY <1>1 DEF Timed
  <2>1. m \in 1..N
    BY <1>2
  <2>2. /\ RowsOf(s, Back(m))[i].insert_lsn <= now
        /\ \A d \in DeletedAt(s, Back(m), i) : d <= now
        /\ Back(m) # OpenSegment => s.segments[Back(m)].lsn_min <= RowsOf(s, Back(m))[i].insert_lsn
    BY <1>1, <1>2, <1>3, <2>1 DEF Timed
  <2>3. CASE m = N
    BY <1>3, <2>1, <2>2, <2>3
  <2>4. CASE m # N
    <3>1. m \in 1..Len(s.segments)
      BY <1>1, <2>1, <2>4
    <3> QED
      BY <1>2, <1>3, <1>6, <2>1, <2>2, <3>1
  <2> QED
    BY <2>3, <2>4
<1>8. \A r \in Row : \A lsn : Shown(t, r, lsn) <=> Shown(s, r, lsn)
  <2> SUFFICES ASSUME NEW r \in Row, NEW lsn PROVE Shown(t, r, lsn) <=> Shown(s, r, lsn)
    OBVIOUS
  <2>1. ASSUME Shown(t, r, lsn) PROVE Shown(s, r, lsn)
    <3>1. PICK m \in 0..N : \E i \in DOMAIN RowsOf(t, m) :
              RowsOf(t, m)[i].row = r /\ Visible(t, m, i, lsn)
      BY <1>1, <2>1 DEF Shown
    <3>a. PICK i \in DOMAIN RowsOf(t, m) :
              RowsOf(t, m)[i].row = r /\ Visible(t, m, i, lsn)
      BY <3>1
    <3>2. m \in 1..N
      BY <1>2, <3>a
    <3> QED
      BY <1>2, <1>3, <1>5, <3>a, <3>2 DEF Shown
  <2>2. ASSUME Shown(s, r, lsn) PROVE Shown(t, r, lsn)
    <3>a. PICK n \in 0..Len(s.segments) : \E i \in DOMAIN RowsOf(s, n) :
              RowsOf(s, n)[i].row = r /\ Visible(s, n, i, lsn)
      BY <2>2 DEF Shown
    <3>1. PICK i \in DOMAIN RowsOf(s, n) :
              RowsOf(s, n)[i].row = r /\ Visible(s, n, i, lsn)
      BY <3>a
    <3>2. PICK m \in 1..N : Back(m) = n
      BY <1>2
    <3>3. i \in DOMAIN RowsOf(t, m)
      BY <1>4, <3>1, <3>2
    <3>4. RowsOf(t, m)[i].row = r /\ Visible(t, m, i, lsn) /\ m \in 0..Len(t.segments)
      BY <1>1, <1>3, <1>5, <3>1, <3>2, <3>3
    <3> QED
      BY <3>3, <3>4 DEF Shown
  <2> QED
    BY <2>1, <2>2
<1>9. ShowsHistory(t, past)
  BY <1>1, <1>8 DEF ShowsHistory
<1>10. ShownOnce(t, now)
  <2> SUFFICES ASSUME NEW lsn \in 0..(now - 1), NEW n \in 0..N, NEW m \in 0..N,
                      NEW i \in DOMAIN RowsOf(t, n), NEW j \in DOMAIN RowsOf(t, m),
                      Visible(t, n, i, lsn), Visible(t, m, j, lsn),
                      RowsOf(t, n)[i].row = RowsOf(t, m)[j].row
               PROVE  n = m /\ i = j
    BY <1>1 DEF ShownOnce
  <2>1. n \in 1..N /\ m \in 1..N
    BY <1>2
  <2>2. /\ i \in DOMAIN RowsOf(s, Back(n)) /\ Visible(s, Back(n), i, lsn)
        /\ RowsOf(t, n)[i].row = RowsOf(s, Back(n))[i].row
        /\ j \in DOMAIN RowsOf(s, Back(m)) /\ Visible(s, Back(m), j, lsn)
        /\ RowsOf(t, m)[j].row = RowsOf(s, Back(m))[j].row
    BY <1>3, <1>5, <2>1
  <2>3. Back(n) = Back(m) /\ i = j
    BY <1>1, <1>2, <2>1, <2>2 DEF ShownOnce
  <2> QED
    BY <1>2, <2>1, <2>3
<1>11. DOMAIN t.index = DOMAIN s.index /\ t.live_rows = s.live_rows
  BY DEF Renames
<1>12. ASSUME NEW k \in DOMAIN s.index
       PROVE  \E m \in 1..N :
                 s.index[k].seg = Back(m) /\ t.index[k] = [seg |-> m, row |-> s.index[k].row]
  BY DEF Renames, Back
<1>13. ASSUME NEW k \in DOMAIN s.index
       PROVE  LET l == t.index[k] IN
              /\ l.seg \in 1..N /\ l.row \in DOMAIN RowsOf(t, l.seg)
              /\ RowsOf(t, l.seg)[l.row].row = RowsOf(s, s.index[k].seg)[s.index[k].row].row
              /\ RowsOf(t, l.seg)[l.row].row.key = k
              /\ DeletedAt(t, l.seg, l.row) = {}
  <2> DEFINE i == s.index[k].row
  <2>1. PICK m \in 1..N : s.index[k].seg = Back(m) /\ t.index[k] = [seg |-> m, row |-> i]
    BY <1>12
  <2>2. t.index[k].seg = m /\ t.index[k].row = i
    BY <2>1
  <2>3. /\ i \in DOMAIN RowsOf(s, Back(m)) /\ RowsOf(s, Back(m))[i].row.key = k
        /\ DeletedAt(s, Back(m), i) = {}
    BY <1>1, <2>1 DEF IndexIsLive
  <2> HIDE DEF i
  <2>4. i \in DOMAIN RowsOf(t, m)
    BY <1>4, <2>3
  <2> QED
    BY <1>3, <2>1, <2>2, <2>3, <2>4 DEF i
<1>14. IndexIsLive(t, table)
  <2>1. ASSUME NEW m \in 0..N, NEW i \in DOMAIN RowsOf(t, m), DeletedAt(t, m, i) = {}
        PROVE  /\ RowsOf(t, m)[i].row.key \in DOMAIN t.index
               /\ t.index[RowsOf(t, m)[i].row.key] = [seg |-> m, row |-> i]
    <3>1. m \in 1..N
      BY <1>2
    <3> DEFINE k == RowsOf(s, Back(m))[i].row.key
    <3>2. k \in DOMAIN s.index /\ s.index[k] = [seg |-> Back(m), row |-> i]
      BY <1>1, <1>2, <1>3, <2>1, <3>1 DEF IndexIsLive
    <3>3. RowsOf(t, m)[i].row.key = k
      BY <1>3, <3>1
    <3> HIDE DEF k
    <3>4. s.index[k].seg = Back(m) /\ s.index[k].row = i
      BY <3>2
    <3>5. PICK n \in 1..N : s.index[k].seg = Back(n) /\ t.index[k] = [seg |-> n, row |-> s.index[k].row]
      BY <1>12, <3>2
    <3>6. n = m
      BY <1>2, <3>1, <3>4, <3>5
    <3> QED
      BY <1>11, <3>2, <3>3, <3>4, <3>5, <3>6
  <2>2. ASSUME NEW r \in Row
        PROVE  table[r] = IF /\ r.key \in DOMAIN t.index
                             /\ RowsOf(t, t.index[r.key].seg)[t.index[r.key].row].row = r
                          THEN 1 ELSE 0
    <3>1. table[r] = IF /\ r.key \in DOMAIN s.index
                        /\ RowsOf(s, s.index[r.key].seg)[s.index[r.key].row].row = r
                     THEN 1 ELSE 0
      BY <1>1 DEF IndexIsLive
    <3> QED
      BY <1>11, <1>13, <3>1
  <2>3. \A k \in DOMAIN t.index :
          LET loc == t.index[k] IN
          /\ loc.seg \in 0..Len(t.segments) /\ loc.row \in DOMAIN RowsOf(t, loc.seg)
          /\ RowsOf(t, loc.seg)[loc.row].row.key = k
          /\ DeletedAt(t, loc.seg, loc.row) = {}
    <3>1. \A n \in 1..N : n \in 0..Len(t.segments)
      BY <1>1
    <3> QED
      BY <1>11, <1>13, <3>1
  <2>4. IsFiniteSet(DOMAIN t.index) /\ t.live_rows = Cardinality(DOMAIN t.index)
    BY <1>1, <1>11 DEF IndexIsLive
  <2> QED
    BY <1>1, <2>1, <2>2, <2>3, <2>4 DEF IndexIsLive
<1> QED
  BY <1>7, <1>9, <1>10, <1>14 DEF StoreInv

LEMMA RenamesKeepDisk ==
    ASSUME NEW s, NEW t, StoreShape(s), StoreShape(t), Renames(s, t), NEW d,
           d \in [sidecars : Seq(SUBSET (Nat \X Nat)), segments : Seq(Segment), applied_lsn : Nat],
           DiskIsOlder(s, d)
    PROVE  DiskIsOlder(t, d)
<1> DEFINE N == Len(s.segments) + 1
<1>1. /\ Len(s.segments) \in Nat /\ N \in Nat /\ Len(t.segments) = N
      /\ Len(d.segments) \in Nat /\ Len(d.sidecars) \in Nat
      /\ Len(d.segments) <= Len(s.segments) /\ Len(d.sidecars) <= Len(s.segments)
      /\ Len(d.segments) <= Len(d.sidecars)
  BY DEF StoreShape, Renames, DiskIsOlder
<1>2. \A n \in 1..Len(d.segments) :
          /\ d.segments[n] = t.segments[n]
          /\ \A x \in d.sidecars[n] \union t.sidecars[n] :
                x[2] <= d.applied_lsn => (x \in d.sidecars[n] <=> x \in t.sidecars[n])
  <2>1. \A n \in 1..Len(d.segments) :
            n \in 1..Len(s.segments) /\ t.segments[n] = s.segments[n] /\ t.sidecars[n] = s.sidecars[n]
    BY <1>1 DEF Renames
  <2> QED
    BY <2>1 DEF DiskIsOlder
<1>3. ASSUME d.segments # <<>>, NEW m \in 0..N, m \notin 1..Len(d.segments), NEW i \in DOMAIN RowsOf(t, m)
      PROVE  d.applied_lsn < RowsOf(t, m)[i].insert_lsn
  <2> DEFINE n == Renamed(s, m)
  <2>1. m \in 1..N
    <3>1. DOMAIN RowsOf(t, OpenSegment) = {}
      BY DEF Renames
    <3> QED
      BY <1>1, <3>1 DEF OpenSegment
  <2>2. i \in DOMAIN RowsOf(s, n) /\ RowsOf(t, m)[i].insert_lsn = RowsOf(s, n)[i].insert_lsn
    BY <2>1 DEF Renames
  <2>3. n \in 0..Len(s.segments) /\ n \notin 1..Len(d.segments)
    BY <1>1, <1>3, <2>1 DEF Renamed, OpenSegment
  <2> HIDE DEF n
  <2> QED
    BY <1>3, <2>2, <2>3 DEF DiskIsOlder
<1>4. d.segments # <<>> =>
          \A n \in 0..Len(t.segments) : n \notin 1..Len(d.segments) =>
              \A i \in DOMAIN RowsOf(t, n) : d.applied_lsn < RowsOf(t, n)[i].insert_lsn
  BY <1>1, <1>3
<1> QED
  BY <1>1, <1>2, <1>4 DEF DiskIsOlder

\* A flush with rows open.
LEMMA FlushRenames ==
    ASSUME HasKey, NEW s, NEW table, NEW past, Len(past) \in Nat,
           StoreInv(s, table, past), s.open # <<>>
    PROVE  /\ StoreShape(Flush(s)) /\ Renames(s, Flush(s))
           /\ Flush(s).applied_lsn = s.applied_lsn /\ Flush(s).open = <<>>
<1> DEFINE N == Len(s.segments) + 1
           lsns == {s.open[i].insert_lsn : i \in DOMAIN s.open}
           live == {i \in DOMAIN s.open : s.open[i].delete_lsn = NoLsn}
           at(k) == {i \in live : s.open[i].row.key = k}
           moved == {s.open[i].row.key : i \in live}
           rows == [i \in DOMAIN s.open |->
                      [row |-> s.open[i].row, insert_lsn |-> s.open[i].insert_lsn]]
           seg == [rows |-> rows, lsn_min |-> Min(lsns), lsn_max |-> Max(lsns)]
           index == [k \in DOMAIN s.index \union moved |->
                       IF k \in moved THEN [seg |-> N, row |-> Max(at(k))] ELSE s.index[k]]
           t == Flush(s)
<1>1. /\ s.open \in Seq(OpenRow) /\ s.segments \in Seq(Segment) /\ s.live_rows \in Nat
      /\ s.applied_lsn \in Nat /\ Len(s.open) \in Nat /\ Len(s.segments) \in Nat /\ N \in Nat
      /\ s.sidecars \in Seq(SUBSET (Nat \X Nat)) /\ Len(s.sidecars) = Len(s.segments)
      /\ s.index \in [DOMAIN s.index -> [seg : Nat, row : Nat]] /\ DOMAIN s.index \subseteq Key
      /\ StoreShape(s) /\ IndexIsLive(s, table) /\ Timed(s, Len(past))
      /\ s \in [open : {s.open}, segments : {s.segments}, sidecars : {s.sidecars},
                index : {s.index}, live_rows : {s.live_rows}, applied_lsn : {s.applied_lsn}]
  BY DEF StoreInv, StoreShape
<1>2. /\ DOMAIN s.open = 1..Len(s.open) /\ 1 \in DOMAIN s.open
      /\ \A i \in DOMAIN s.open : s.open[i] \in OpenRow
  BY <1>1
<1>3. /\ OpenSegment \in 0..Len(s.segments) /\ RowsOf(s, OpenSegment) = s.open
      /\ \A i \in DOMAIN s.open : DeletedAt(s, OpenSegment, i) = {s.open[i].delete_lsn} \ {NoLsn}
  BY <1>1 DEF OpenSegment, RowsOf, DeletedAt
<1>4. /\ Min(lsns) \in Nat /\ Max(lsns) \in Nat
      /\ \A i \in DOMAIN s.open : Min(lsns) <= s.open[i].insert_lsn
  <2>1. lsns \in SUBSET Nat /\ lsns # {}
    BY <1>2 DEF OpenRow
  <2>2. \A x \in lsns : x <= Len(past)
    BY <1>1, <1>3 DEF Timed
  <2>3. \A i \in DOMAIN s.open : s.open[i].insert_lsn \in lsns
    OBVIOUS
  <2> HIDE DEF lsns
  <2>4. \E x \in lsns : \A y \in lsns : x <= y
    BY <2>1, SmallestExists
  <2>5. \E x \in lsns : \A y \in lsns : x >= y
    BY <2>1, <2>2, GreatestExists
  <2>6. Min(lsns) \in lsns /\ \A y \in lsns : Min(lsns) <= y
    BY <2>4, Zenon DEF Min
  <2>7. Max(lsns) \in lsns
    BY <2>5, Zenon DEF Max
  <2> QED
    BY <2>1, <2>3, <2>6, <2>7
<1>5. \A i \in live :
          /\ s.open[i].row.key \in DOMAIN s.index
          /\ s.index[s.open[i].row.key] = [seg |-> OpenSegment, row |-> i]
  BY <1>1, <1>3 DEF IndexIsLive
<1>6. ASSUME NEW k \in DOMAIN s.index, s.index[k].seg = OpenSegment
      PROVE  /\ k \in moved /\ s.index[k].row \in live
             /\ s.open[s.index[k].row].row.key = k
  <2> DEFINE i == s.index[k].row
  <2>1. i \in DOMAIN s.open /\ s.open[i].row.key = k /\ DeletedAt(s, OpenSegment, i) = {}
    BY <1>1, <1>3, <1>6 DEF IndexIsLive
  <2>2. s.open[i].delete_lsn = NoLsn
    BY <1>3, <2>1
  <2> QED
    BY <2>1, <2>2
<1>7. ASSUME NEW k \in moved
      PROVE  k \in DOMAIN s.index /\ s.index[k].seg = OpenSegment /\ Max(at(k)) = s.index[k].row
  <2>1. PICK i \in live : s.open[i].row.key = k
    OBVIOUS
  <2>2. k \in DOMAIN s.index /\ s.index[k] = [seg |-> OpenSegment, row |-> i]
    BY <1>5, <2>1
  <2>3. s.index[k].seg = OpenSegment /\ s.index[k].row = i
    BY <2>2
  <2>4. at(k) = {i}
    <3>1. \A j \in at(k) : s.index[k] = [seg |-> OpenSegment, row |-> j]
      BY <1>5
    <3>2. \A j \in at(k) : j = i
      <4> SUFFICES ASSUME NEW j \in at(k) PROVE j = i
        OBVIOUS
      <4>1. s.index[k] = [seg |-> OpenSegment, row |-> j]
        BY <3>1
      <4> HIDE DEF at
      <4> QED
        BY <2>3, <4>1
    <3> QED
      BY <2>1, <3>2
  <2>5. i \in Nat
    BY <1>2
  <2>6. Max({i}) = i
    <3>1. \E x \in {i} : \A y \in {i} : x >= y
      BY <2>5
    <3>2. Max({i}) \in {i}
      BY <3>1, Zenon DEF Max
    <3> QED
      BY <3>2
  <2> QED
    BY <2>2, <2>3, <2>4, <2>6
<1>8. /\ DOMAIN index = DOMAIN s.index
      /\ \A k \in DOMAIN s.index :
            IF s.index[k].seg = OpenSegment
            THEN index[k] = [seg |-> N, row |-> s.index[k].row]
            ELSE index[k] = s.index[k]
  <2>1. DOMAIN s.index \union moved = DOMAIN s.index
    BY <1>7
  <2>2. \A k \in DOMAIN s.index : k \in moved <=> s.index[k].seg = OpenSegment
    BY <1>6, <1>7
  <2>3. \A k \in moved : Max(at(k)) = s.index[k].row
    BY <1>7
  <2> HIDE DEF moved, at
  <2> QED
    BY <2>1, <2>2, <2>3
<1>9. index \in [DOMAIN index -> [seg : Nat, row : Nat]]
  <2>1. \A k \in DOMAIN s.index : index[k] \in [seg : Nat, row : Nat]
    <3> HIDE DEF index
    <3> QED
      BY <1>1, <1>8
  <2>2. index = [k \in DOMAIN index |-> index[k]]
    OBVIOUS
  <2> HIDE DEF index
  <2> QED
    BY <1>8, <2>1, <2>2
<1>10. /\ DOMAIN rows = DOMAIN s.open /\ rows \in Seq(SegmentRow)
       /\ \A i \in DOMAIN s.open :
             rows[i].row = s.open[i].row /\ rows[i].insert_lsn = s.open[i].insert_lsn
  <2> DEFINE v(i) == [row |-> s.open[i].row, insert_lsn |-> s.open[i].insert_lsn]
  <2>1. \A i \in 1..Len(s.open) : v(i) \in SegmentRow
    BY <1>2 DEF OpenRow, SegmentRow
  <2>2. rows = [i \in 1..Len(s.open) |-> v(i)]
    BY <1>2
  <2>3. [i \in 1..Len(s.open) |-> v(i)] \in Seq(SegmentRow)
    <3> HIDE DEF v
    <3> QED
      BY <1>1, <2>1, IsASeq
  <2> QED
    BY <2>2, <2>3
<1> HIDE DEF rows, lsns, index, live
<1>11. seg \in Segment /\ seg.rows = rows /\ seg.lsn_min = Min(lsns)
  <2>1. \A a \in Seq(SegmentRow), b, c \in Nat :
            [rows |-> a, lsn_min |-> b, lsn_max |-> c] \in [rows : Seq(SegmentRow), lsn_min : Nat, lsn_max : Nat]
    OBVIOUS
  <2>2. Segment = [rows : Seq(SegmentRow), lsn_min : Nat, lsn_max : Nat]
    BY DEF Segment, SegmentRow
  <2> QED
    BY <1>4, <1>10, <2>1, <2>2
<1>12. OpenDeletes(s) \in SUBSET (Nat \X Nat)
  <2>1. \A i \in DOMAIN s.open : s.open[i].delete_lsn # NoLsn => s.open[i].delete_lsn \in Nat /\ i \in Nat
    BY <1>2 DEF OpenRow
  <2> QED
    BY <2>1 DEF OpenDeletes
<1> DEFINE dels == OpenDeletes(s)
<1>13. t = [s EXCEPT !.open = <<>>, !.segments = Append(@, seg), !.sidecars = Append(@, dels),
                     !.index = index]
  BY DEF Flush, seg, rows, lsns, index, live
<1> HIDE DEF t, seg, dels
<1>14. /\ t.open = <<>> /\ t.segments = Append(s.segments, seg) /\ t.sidecars = Append(s.sidecars, dels)
       /\ t.index = index /\ t.live_rows = s.live_rows /\ t.applied_lsn = s.applied_lsn
       /\ t \in [open : {t.open}, segments : {t.segments}, sidecars : {t.sidecars},
                 index : {t.index}, live_rows : {t.live_rows}, applied_lsn : {t.applied_lsn}]
  BY <1>1, <1>13
<1>15. /\ Len(t.segments) = N /\ t.segments[N] = seg /\ t.sidecars[N] = dels
       /\ \A n \in 1..Len(s.segments) :
             t.segments[n] = s.segments[n] /\ t.sidecars[n] = s.sidecars[n] /\ n # N
  BY <1>1, <1>11, <1>12, <1>14 DEF dels
<1>16. StoreShape(t)
  <2>1. t.segments \in Seq(Segment) /\ t.sidecars \in Seq(SUBSET (Nat \X Nat))
        /\ Len(t.sidecars) = Len(t.segments)
    BY <1>1, <1>11, <1>12, <1>14 DEF dels
  <2>2. t.open \in Seq(OpenRow)
    BY <1>14
  <2>3. t.index \in [DOMAIN t.index -> [seg : Nat, row : Nat]] /\ DOMAIN t.index \subseteq Key
    BY <1>1, <1>8, <1>9, <1>14
  <2> QED
    BY <1>1, <1>14, <2>1, <2>2, <2>3, ShapeFrom
<1>17. Renames(s, t)
  <2>1. RowsOf(t, OpenSegment) = <<>>
    BY <1>14 DEF RowsOf
  <2>2. \A n \in 1..Len(s.segments) :
            /\ RowsOf(t, n) = RowsOf(s, n) /\ Renamed(s, n) = n
            /\ \A i : DeletedAt(t, n, i) = DeletedAt(s, n, i)
    <3> SUFFICES ASSUME NEW n \in 1..Len(s.segments)
                 PROVE  /\ RowsOf(t, n) = RowsOf(s, n) /\ Renamed(s, n) = n
                        /\ \A i : DeletedAt(t, n, i) = DeletedAt(s, n, i)
      OBVIOUS
    <3>1. n # OpenSegment /\ t.segments[n] = s.segments[n] /\ t.sidecars[n] = s.sidecars[n] /\ n # N
      BY <1>15 DEF OpenSegment
    <3>2. RowsOf(t, n) = RowsOf(s, n)
      BY <3>1 DEF RowsOf
    <3>3. Renamed(s, n) = n
      BY <3>1 DEF Renamed
    <3>4. \A i : DeletedAt(t, n, i) = DeletedAt(s, n, i)
      BY <3>1 DEF DeletedAt
    <3> QED
      BY <3>2, <3>3, <3>4
  <2>3. /\ RowsOf(t, N) = rows /\ Renamed(s, N) = OpenSegment /\ N # OpenSegment
        /\ t.segments[N].lsn_min = Min(lsns)
    BY <1>1, <1>11, <1>15 DEF RowsOf, Renamed, OpenSegment
  <2>4. \A i \in DOMAIN s.open : DeletedAt(t, N, i) = DeletedAt(s, OpenSegment, i)
    <3> SUFFICES ASSUME NEW i \in DOMAIN s.open, NEW d
                 PROVE  d \in DeletedAt(t, N, i) <=> d \in DeletedAt(s, OpenSegment, i)
      OBVIOUS
    <3>1. d \in DeletedAt(t, N, i) <=> \E x \in dels : x[1] = i /\ x[2] = d
      BY <1>15, <2>3 DEF DeletedAt
    <3>2. \A x : x \in dels <=> \E j \in DOMAIN s.open :
                                  s.open[j].delete_lsn # NoLsn /\ x = <<j, s.open[j].delete_lsn>>
      BY DEF dels, OpenDeletes
    <3>3. \A j \in DOMAIN s.open :
              <<j, s.open[j].delete_lsn>>[1] = j /\ <<j, s.open[j].delete_lsn>>[2] = s.open[j].delete_lsn
      OBVIOUS
    <3>4. (\E x \in dels : x[1] = i /\ x[2] = d) <=> s.open[i].delete_lsn # NoLsn /\ d = s.open[i].delete_lsn
      <4>1. ASSUME NEW x \in dels, x[1] = i, x[2] = d
            PROVE  s.open[i].delete_lsn # NoLsn /\ d = s.open[i].delete_lsn
        <5>1. PICK j \in DOMAIN s.open : s.open[j].delete_lsn # NoLsn /\ x = <<j, s.open[j].delete_lsn>>
          BY <3>2
        <5>2. j = i /\ d = s.open[j].delete_lsn
          BY <3>3, <4>1, <5>1
        <5> QED
          BY <5>1, <5>2
      <4>2. ASSUME s.open[i].delete_lsn # NoLsn, d = s.open[i].delete_lsn
            PROVE  \E x \in dels : x[1] = i /\ x[2] = d
        <5> DEFINE x == <<i, s.open[i].delete_lsn>>
        <5>1. x \in dels
          BY <3>2, <4>2
        <5>2. x[1] = i /\ x[2] = d
          BY <4>2
        <5> HIDE DEF x
        <5> QED
          BY <5>1, <5>2
      <4> QED
        BY <4>1, <4>2
    <3> QED
      BY <1>3, <3>1, <3>4
  <2>5. ASSUME NEW m \in 1..N
        PROVE  /\ DOMAIN RowsOf(t, m) = DOMAIN RowsOf(s, Renamed(s, m))
               /\ \A i \in DOMAIN RowsOf(t, m) :
                     /\ RowsOf(t, m)[i].row = RowsOf(s, Renamed(s, m))[i].row
                     /\ RowsOf(t, m)[i].insert_lsn = RowsOf(s, Renamed(s, m))[i].insert_lsn
                     /\ DeletedAt(t, m, i) = DeletedAt(s, Renamed(s, m), i)
                     /\ m = N => t.segments[m].lsn_min <= RowsOf(t, m)[i].insert_lsn
    <3>1. CASE m = N
      BY <1>3, <1>4, <1>10, <2>3, <2>4, <3>1
    <3>2. CASE m # N
      <4>1. m \in 1..Len(s.segments)
        BY <1>1, <3>2
      <4> QED
        BY <2>2, <3>2, <4>1
    <3> QED
      BY <3>1, <3>2
  <2>6. ASSUME NEW k \in DOMAIN s.index
        PROVE  \E m \in 1..N :
                  s.index[k].seg = Renamed(s, m) /\ t.index[k] = [seg |-> m, row |-> s.index[k].row]
    <3>1. s.index[k].seg \in 0..Len(s.segments) /\ s.index[k] \in [seg : Nat, row : Nat]
      BY <1>1 DEF IndexIsLive
    <3>2. CASE s.index[k].seg = OpenSegment
      <4>1. N \in 1..N
        BY <1>1
      <4> QED
        BY <1>8, <1>14, <2>3, <3>2, <4>1
    <3>3. CASE s.index[k].seg # OpenSegment
      <4> DEFINE m == s.index[k].seg
      <4>1. m \in 1..Len(s.segments) /\ m \in 1..N
        BY <1>1, <3>1, <3>3 DEF OpenSegment
      <4>2. t.index[k] = [seg |-> m, row |-> s.index[k].row]
        BY <1>8, <1>14, <3>1, <3>3
      <4> HIDE DEF m
      <4> QED
        BY <2>2, <4>1, <4>2 DEF m
    <3> QED
      BY <3>2, <3>3
  <2> QED
    BY <1>8, <1>14, <1>15, <2>1, <2>5, <2>6 DEF Renames
<1> QED
  BY <1>14, <1>16, <1>17 DEF t

LEMMA FlushKeeps ==
    ASSUME HasKey, NEW s, NEW table, NEW past, Len(past) \in Nat, StoreInv(s, table, past)
    PROVE  /\ StoreInv(Flush(s), table, past)
           /\ Flush(s).applied_lsn = s.applied_lsn /\ Flush(s).open = <<>>
           /\ \A d \in [sidecars : Seq(SUBSET (Nat \X Nat)), segments : Seq(Segment), applied_lsn : Nat] :
                 DiskIsOlder(s, d) => DiskIsOlder(Flush(s), d)
<1>1. CASE s.open = <<>>
  BY <1>1 DEF Flush
<1>2. CASE s.open # <<>>
  <2>1. /\ StoreShape(Flush(s)) /\ Renames(s, Flush(s))
        /\ Flush(s).applied_lsn = s.applied_lsn /\ Flush(s).open = <<>>
    BY <1>2, FlushRenames
  <2>2. StoreInv(Flush(s), table, past)
    BY <2>1, RenamesKeep
  <2>3. StoreShape(s)
    BY DEF StoreInv
  <2> QED
    BY <2>1, <2>2, <2>3, RenamesKeepDisk
<1> QED
  BY <1>1, <1>2

\* At the LSN being applied, what has not been deleted is visible.
LEMMA HeadIsVisible ==
    ASSUME NEW s, NEW now \in Nat, StoreShape(s), Timed(s, now),
           NEW n \in 0..Len(s.segments), NEW i \in DOMAIN RowsOf(s, n)
    PROVE  Visible(s, n, i, now) <=> DeletedAt(s, n, i) = {}
<1>1. /\ RowsOf(s, n)[i].insert_lsn <= now /\ \A d \in DeletedAt(s, n, i) : d <= now
  BY DEF Timed
<1>2. DeletedAt(s, n, i) \in SUBSET Nat
  BY PlaceTypes
<1>3. \A d \in DeletedAt(s, n, i) : ~ (now < d)
  BY <1>1, <1>2
<1> QED
  BY <1>1, <1>3 DEF Visible

\* A transaction that ends makes the table its LSN's image.
LEMMA TransactionEnds ==
    ASSUME NEW s, NEW table \in Table, NEW past \in Seq(Table), StoreInv(s, table, past)
    PROVE  StoreInv(s, table, Append(past, table))
<1> DEFINE now == Len(past)
           new == Append(past, table)
<1>1. /\ now \in Nat /\ Len(new) = now + 1 /\ new[now + 1] = table
      /\ \A lsn \in 0..(now - 1) : new[lsn + 1] = past[lsn + 1]
      /\ StoreShape(s) /\ Timed(s, now) /\ ShowsHistory(s, past) /\ ShownOnce(s, now)
      /\ IndexIsLive(s, table)
  BY DEF StoreInv
<1> HIDE DEF new
<1>2. Timed(s, now + 1)
  <2> SUFFICES ASSUME NEW n \in 0..Len(s.segments), NEW i \in DOMAIN RowsOf(s, n)
               PROVE  /\ RowsOf(s, n)[i].insert_lsn <= now + 1
                      /\ \A d \in DeletedAt(s, n, i) : d <= now + 1
                      /\ n # OpenSegment => s.segments[n].lsn_min <= RowsOf(s, n)[i].insert_lsn
    BY DEF Timed
  <2>1. /\ RowsOf(s, n)[i].insert_lsn <= now
        /\ \A d \in DeletedAt(s, n, i) : d <= now
        /\ n # OpenSegment => s.segments[n].lsn_min <= RowsOf(s, n)[i].insert_lsn
    BY <1>1 DEF Timed
  <2>2. RowsOf(s, n)[i].insert_lsn \in Nat /\ DeletedAt(s, n, i) \in SUBSET Nat
    BY <1>1, PlaceTypes
  <2>3. \A x \in Nat : x <= now => x <= now + 1
    BY <1>1
  <2> QED
    BY <2>1, <2>2, <2>3
<1>3. ShowsHistory(s, new)
  <2>1. ASSUME NEW r \in Row
        PROVE  table[r] = IF Shown(s, r, now) THEN 1 ELSE 0
    <3> DEFINE l == s.index[r.key]
    <3>1. table[r] = IF r.key \in DOMAIN s.index /\ RowsOf(s, l.seg)[l.row].row = r THEN 1 ELSE 0
      BY <1>1 DEF IndexIsLive
    <3>2. ASSUME Shown(s, r, now)
          PROVE  r.key \in DOMAIN s.index /\ RowsOf(s, l.seg)[l.row].row = r
      <4>1. PICK n \in 0..Len(s.segments) : \E i \in DOMAIN RowsOf(s, n) :
                RowsOf(s, n)[i].row = r /\ Visible(s, n, i, now)
        BY <3>2 DEF Shown
      <4>2. PICK i \in DOMAIN RowsOf(s, n) : RowsOf(s, n)[i].row = r /\ Visible(s, n, i, now)
        BY <4>1
      <4>3. DeletedAt(s, n, i) = {}
        BY <1>1, <4>2, HeadIsVisible
      <4>4. r.key \in DOMAIN s.index /\ l = [seg |-> n, row |-> i]
        BY <1>1, <4>2, <4>3 DEF IndexIsLive
      <4>5. l.seg = n /\ l.row = i
        BY <4>4
      <4> QED
        BY <4>2, <4>4, <4>5
    <3>3. ASSUME r.key \in DOMAIN s.index, RowsOf(s, l.seg)[l.row].row = r
          PROVE  Shown(s, r, now)
      <4>1. /\ l.seg \in 0..Len(s.segments) /\ l.row \in DOMAIN RowsOf(s, l.seg)
            /\ DeletedAt(s, l.seg, l.row) = {}
        BY <1>1, <3>3 DEF IndexIsLive
      <4> HIDE DEF l
      <4>2. Visible(s, l.seg, l.row, now)
        BY <1>1, <4>1, HeadIsVisible
      <4> QED
        BY <3>3, <4>1, <4>2 DEF Shown
    <3> QED
      BY <3>1, <3>2, <3>3
  <2>2. ASSUME NEW lsn \in 0..now, NEW r \in Row
        PROVE  new[lsn + 1][r] = IF Shown(s, r, lsn) THEN 1 ELSE 0
    <3>1. CASE lsn = now
      BY <1>1, <2>1, <3>1
    <3>2. CASE lsn # now
      <4>1. lsn \in 0..(now - 1)
        BY <1>1, <3>2
      <4> QED
        BY <1>1, <4>1 DEF ShowsHistory
    <3> QED
      BY <3>1, <3>2
  <2>3. Len(new) - 1 = now
    BY <1>1
  <2> QED
    BY <2>2, <2>3 DEF ShowsHistory
<1>4. ShownOnce(s, now + 1)
  <2> SUFFICES ASSUME NEW lsn \in 0..now,
                      NEW n \in 0..Len(s.segments), NEW m \in 0..Len(s.segments),
                      NEW i \in DOMAIN RowsOf(s, n), NEW j \in DOMAIN RowsOf(s, m),
                      Visible(s, n, i, lsn), Visible(s, m, j, lsn),
                      RowsOf(s, n)[i].row = RowsOf(s, m)[j].row
               PROVE  n = m /\ i = j
    BY <1>1 DEF ShownOnce
  <2>1. CASE lsn = now
    <3>1. DeletedAt(s, n, i) = {} /\ DeletedAt(s, m, j) = {}
      BY <1>1, <2>1, HeadIsVisible
    <3> DEFINE k == RowsOf(s, n)[i].row.key
    <3>2. s.index[k] = [seg |-> n, row |-> i]
      BY <1>1, <3>1 DEF IndexIsLive
    <3>3. s.index[k] = [seg |-> m, row |-> j]
      BY <1>1, <3>1 DEF IndexIsLive
    <3> HIDE DEF k
    <3> QED
      BY <3>2, <3>3
  <2>2. CASE lsn # now
    <3>1. lsn \in 0..(now - 1)
      BY <1>1, <2>2
    <3> QED
      BY <1>1, <3>1 DEF ShownOnce
  <2> QED
    BY <2>1, <2>2
<1> QED
  BY <1>1, <1>2, <1>3, <1>4 DEF StoreInv, new

\* The end of apply.
LEMMA AppliedKeeps ==
    ASSUME HasKey, NEW s, NEW table \in Table, NEW past, Len(past) \in Nat,
           StoreInv(s, table, past), s.applied_lsn <= Len(past)
    PROVE  /\ StoreInv(Applied(s, Len(past)), table, past)
           /\ Applied(s, Len(past)).applied_lsn = Len(past)
           /\ \A d \in [sidecars : Seq(SUBSET (Nat \X Nat)), segments : Seq(Segment), applied_lsn : Nat] :
                 DiskIsOlder(s, d) => DiskIsOlder(Applied(s, Len(past)), d)
<1> DEFINE now == Len(past)
           u == [s EXCEPT !.applied_lsn = Max({@, now})]
<1>1. /\ s.applied_lsn \in Nat /\ StoreShape(s) /\ IndexIsLive(s, table)
      /\ s \in [open : {s.open}, segments : {s.segments}, sidecars : {s.sidecars},
                index : {s.index}, live_rows : {s.live_rows}, applied_lsn : {s.applied_lsn}]
  BY DEF StoreInv, StoreShape
<1>2. Max({s.applied_lsn, now}) = now
  <2> DEFINE S == {s.applied_lsn, now}
  <2>1. now \in S /\ \A y \in S : now >= y
    BY <1>1
  <2>2. S \subseteq Nat
    BY <1>1
  <2> HIDE DEF S
  <2>3. Max(S) \in S /\ \A y \in S : Max(S) >= y
    BY <2>1, Zenon DEF Max
  <2> QED
    BY <2>1, <2>2, <2>3 DEF S
<1>3. /\ u.open = s.open /\ u.segments = s.segments /\ u.sidecars = s.sidecars /\ u.index = s.index
      /\ u.live_rows = s.live_rows /\ u.applied_lsn = now
      /\ u \in [open : {u.open}, segments : {u.segments}, sidecars : {u.sidecars},
                index : {u.index}, live_rows : {u.live_rows}, applied_lsn : {u.applied_lsn}]
  BY <1>1, <1>2
<1> HIDE DEF u
<1>4. StoreShape(u)
  <2>1. /\ u.open \in Seq(OpenRow) /\ u.segments \in Seq(Segment)
        /\ u.sidecars \in Seq(SUBSET (Nat \X Nat)) /\ Len(u.sidecars) = Len(u.segments)
        /\ u.live_rows \in Nat /\ u.applied_lsn \in Nat
        /\ u.index \in [DOMAIN u.index -> [seg : Nat, row : Nat]] /\ DOMAIN u.index \subseteq Key
    BY <1>1, <1>3 DEF StoreShape
  <2> QED
    BY <1>3, <2>1, ShapeFrom
<1>5. /\ \A n : RowsOf(u, n) = RowsOf(s, n)
      /\ \A n, i : DeletedAt(u, n, i) = DeletedAt(s, n, i)
  BY <1>3 DEF RowsOf, DeletedAt
<1>6. StoreInv(u, table, past)
  <2>1. /\ \A n, i, lsn : Visible(u, n, i, lsn) <=> Visible(s, n, i, lsn)
        /\ \A r, lsn : Shown(u, r, lsn) <=> Shown(s, r, lsn)
    BY <1>3, <1>5 DEF Visible, Shown
  <2>2. Timed(u, now) <=> Timed(s, now)
    BY <1>3, <1>5 DEF Timed
  <2>3. ShowsHistory(u, past) <=> ShowsHistory(s, past)
    BY <2>1 DEF ShowsHistory
  <2>4. ShownOnce(u, now)
    <3> SUFFICES ASSUME NEW lsn \in 0..(now - 1),
                        NEW n \in 0..Len(s.segments), NEW m \in 0..Len(s.segments),
                        NEW i \in DOMAIN RowsOf(s, n), NEW j \in DOMAIN RowsOf(s, m),
                        Visible(s, n, i, lsn), Visible(s, m, j, lsn),
                        RowsOf(s, n)[i].row = RowsOf(s, m)[j].row
                 PROVE  n = m /\ i = j
      BY <1>3, <1>5, <2>1 DEF ShownOnce
    <3> QED
      BY DEF StoreInv, ShownOnce
  <2>5. IndexIsLive(u, table)
    <3>1. ASSUME NEW n \in 0..Len(s.segments), NEW i \in DOMAIN RowsOf(u, n), DeletedAt(u, n, i) = {}
          PROVE  /\ RowsOf(u, n)[i].row.key \in DOMAIN u.index
                 /\ u.index[RowsOf(u, n)[i].row.key] = [seg |-> n, row |-> i]
      BY <1>1, <1>3, <1>5, <3>1 DEF IndexIsLive
    <3>2. ASSUME NEW k \in DOMAIN u.index
          PROVE  LET loc == u.index[k] IN
                 /\ loc.seg \in 0..Len(s.segments) /\ loc.row \in DOMAIN RowsOf(u, loc.seg)
                 /\ RowsOf(u, loc.seg)[loc.row].row.key = k
                 /\ DeletedAt(u, loc.seg, loc.row) = {}
      BY <1>1, <1>3, <1>5 DEF IndexIsLive
    <3>3. ASSUME NEW r \in Row
          PROVE  table[r] = IF /\ r.key \in DOMAIN u.index
                               /\ RowsOf(u, u.index[r.key].seg)[u.index[r.key].row].row = r
                            THEN 1 ELSE 0
      BY <1>1, <1>3, <1>5 DEF IndexIsLive
    <3>4. IsFiniteSet(DOMAIN u.index) /\ u.live_rows = Cardinality(DOMAIN u.index)
      BY <1>1, <1>3 DEF IndexIsLive
    <3> QED
      BY <1>3, <3>1, <3>2, <3>3, <3>4 DEF IndexIsLive
  <2> QED
    BY <1>4, <2>2, <2>3, <2>4, <2>5 DEF StoreInv
<1>7. ASSUME NEW d, DiskIsOlder(s, d) PROVE DiskIsOlder(u, d)
  BY <1>3, <1>5, <1>7, Zenon DEF DiskIsOlder
<1>8. Applied(s, now) = IF Len(u.open) >= FlushRows THEN Flush(u) ELSE u
  BY DEF Applied, u
<1>9. /\ StoreInv(Flush(u), table, past) /\ Flush(u).applied_lsn = u.applied_lsn
      /\ \A d \in [sidecars : Seq(SUBSET (Nat \X Nat)), segments : Seq(Segment), applied_lsn : Nat] :
            DiskIsOlder(u, d) => DiskIsOlder(Flush(u), d)
  BY <1>6, FlushKeeps
<1> QED
  BY <1>3, <1>6, <1>7, <1>8, <1>9

-----------------------------------------------------------------------------
(***************************************************************************)
(* The steps.                                                              *)
(***************************************************************************)
Files == [sidecars : Seq(SUBSET (Nat \X Nat)), segments : Seq(Segment), applied_lsn : Nat]

NoFiles == [sidecars |-> <<>>, segments |-> <<>>, applied_lsn |-> 0]

LEMMA TableFacts ==
    TableInv =>
        /\ HasKey /\ ~error /\ changes \in Nat /\ finalizing \in Nat
        /\ image \in Table /\ history \in Seq(Table) /\ Lsn = Len(history) /\ Lsn \in Nat
        /\ disk \in Files /\ (disk.segments # <<>> => disk.applied_lsn < Lsn)
        /\ StoreInv(store, image, history) /\ StoreShape(store) /\ DiskIsOlder(store, disk)
        /\ store.applied_lsn \in Nat /\ store.applied_lsn <= Lsn
        /\ DOMAIN store.index = {k \in Key : Holds(k)}
<1> SUFFICES ASSUME TableInv
             PROVE  /\ HasKey /\ ~error /\ changes \in Nat /\ finalizing \in Nat
                    /\ image \in Table /\ history \in Seq(Table) /\ Lsn = Len(history) /\ Lsn \in Nat
                    /\ disk \in Files /\ (disk.segments # <<>> => disk.applied_lsn < Lsn)
                    /\ StoreInv(store, image, history) /\ StoreShape(store) /\ DiskIsOlder(store, disk)
                    /\ store.applied_lsn \in Nat /\ store.applied_lsn <= Lsn
                    /\ DOMAIN store.index = {k \in Key : Holds(k)}
  OBVIOUS
<1>1. /\ HasKey /\ ~error /\ changes \in Nat /\ finalizing \in Nat
      /\ image \in Table /\ history \in Seq(Table) /\ Lsn = Len(history)
      /\ StoreInv(store, image, history) /\ DiskIsOlder(store, disk) /\ disk \in Files
  BY DEF TableInv, Table, Lsn, Files
<1>2. Lsn \in Nat
  BY <1>1
<1>3. disk.segments # <<>> => disk.applied_lsn < Lsn
  <2>1. NoFiles.segments = <<>>
    BY DEF NoFiles
  <2>2. disk.applied_lsn < Lsn \/ disk = NoFiles
    BY DEF TableInv, Boundaries, NoFiles
  <2> QED
    BY <2>1, <2>2
<1>4. StoreShape(store) /\ IndexIsLive(store, image)
  BY <1>1 DEF StoreInv
<1>5. store.applied_lsn \in Nat
  BY <1>4 DEF StoreShape
<1>6. store.applied_lsn <= Lsn
  BY <1>2 DEF TableInv, Boundaries
<1>7. DOMAIN store.index = {k \in Key : Holds(k)}
  <2>1. DOMAIN store.index \subseteq Key
    BY <1>4 DEF StoreShape
  <2>2. ASSUME NEW k \in DOMAIN store.index PROVE Holds(k)
    <3> DEFINE l == store.index[k]
               r == RowsOf(store, l.seg)[l.row].row
    <3>1. l.seg \in 0..Len(store.segments) /\ l.row \in DOMAIN RowsOf(store, l.seg) /\ r.key = k
      BY <1>4 DEF IndexIsLive
    <3>2. r \in Row
      BY <1>4, <3>1, PlaceTypes
    <3>3. image[r] = 1
      BY <1>4, <3>1, <3>2 DEF IndexIsLive
    <3> QED
      BY <3>1, <3>2, <3>3 DEF Holds
  <2>3. ASSUME NEW k \in Key, Holds(k) PROVE k \in DOMAIN store.index
    <3>1. PICK r \in Row : r.key = k /\ image[r] > 0
      BY <2>3 DEF Holds
    <3> QED
      BY <1>4, <3>1 DEF IndexIsLive
  <2> QED
    BY <2>1, <2>2, <2>3
<1> QED
  BY <1>1, <1>2, <1>3, <1>4, <1>5, <1>6, <1>7

\* A change that is applied: the store it leaves, before the end of apply.
LEMMA ChangeStep ==
    ASSUME TableInv, Streaming, error' = error, NEW u, NEW table \in Table,
           StoreInv(u, table, history), u.applied_lsn = store.applied_lsn, DiskIsOlder(u, disk),
           store' = Applied(u, Lsn), image' = table
    PROVE  TableInv'
<1>1. /\ HasKey /\ ~error /\ changes \in Nat /\ Lsn = Len(history) /\ Lsn \in Nat /\ disk \in Files
      /\ history \in Seq(Table) /\ store.applied_lsn <= Lsn /\ finalizing \in Nat
  BY TableFacts
<1>2. /\ Lsn \in 1..MaxLsn /\ changes' = changes + 1 /\ finalizing = 0
      /\ disk' = disk /\ history' = history /\ finalizing' = finalizing
  BY DEF Streaming, Ready
<1>3. /\ StoreInv(store', table, history) /\ store'.applied_lsn = Lsn /\ DiskIsOlder(store', disk)
  BY <1>1, AppliedKeeps DEF Files
<1>4. Lsn' = Lsn /\ Lsn > 0
  BY <1>2 DEF Lsn
<1>5. Boundaries'
  <2>1. store'.applied_lsn = Lsn' /\ changes' > 0 /\ finalizing' = 0 /\ Lsn' # 0
    BY <1>1, <1>2, <1>3, <1>4
  <2>2. disk'.applied_lsn < Lsn' \/ disk' = NoFiles
    BY <1>2, <1>4 DEF TableInv, Boundaries, NoFiles
  <2> QED
    BY <2>1, <2>2 DEF Boundaries, NoFiles
<1>6. changes' \in Nat /\ finalizing' \in Nat /\ ~error'
  BY <1>1, <1>2
<1> QED
  BY <1>1, <1>2, <1>3, <1>5, <1>6 DEF TableInv, Table, Files, HasKey

LEMMA LoadStep ==
    ASSUME TableInv, NEW r \in Row, LoadCopyRow(r) PROVE TableInv'
<1> DEFINE u == InsertRow(store, r, Len(history))
           table == [image EXCEPT ![r] = @ + 1]
<1>1. /\ HasKey /\ ~error /\ changes \in Nat /\ Lsn = Len(history) /\ Lsn \in Nat /\ disk \in Files
      /\ history \in Seq(Table) /\ finalizing \in Nat /\ image \in Table /\ StoreShape(store)
      /\ StoreInv(store, image, history) /\ DiskIsOlder(store, disk)
      /\ (disk.segments # <<>> => disk.applied_lsn < Lsn)
      /\ DOMAIN store.index = {k \in Key : Holds(k)}
  BY TableFacts
<1>2. /\ Lsn = 0 /\ store' = u /\ image' = table /\ finalizing = 0
      /\ disk' = disk /\ history' = history /\ finalizing' = finalizing
      /\ changes' = changes /\ error' = error /\ r.key \notin DOMAIN store.index
  BY <1>1 DEF LoadCopyRow, Ready
<1>3. StoreInv(u, table, history) /\ Later(store, u, Lsn) /\ u.applied_lsn = store.applied_lsn
      /\ table \in Table
  <2>1. /\ HasKey /\ image \in Table /\ Len(history) \in Nat /\ StoreInv(store, image, history)
        /\ r.key \notin DOMAIN store.index
    BY <1>1, <1>2
  <2>2. StoreInv(u, table, history) /\ Later(store, u, Len(history))
        /\ u.applied_lsn = store.applied_lsn /\ table \in Table
    BY <2>1, InsertKeeps
  <2> QED
    BY <1>1, <2>2
<1> HIDE DEF u, table
<1>4. DiskIsOlder(u, disk)
  <2>1. StoreShape(u)
    BY <1>3 DEF StoreInv
  <2> QED
    BY <1>1, <1>3, <2>1, LaterKeepsDisk DEF Files
<1>5. Boundaries'
  BY <1>1, <1>2, <1>3 DEF TableInv, Boundaries, Lsn
<1> QED
  BY <1>1, <1>2, <1>3, <1>4, <1>5 DEF TableInv, Table, Files, HasKey

LEMMA InsertStep ==
    ASSUME TableInv, NEW r \in Row, ApplyInsert(r) PROVE TableInv'
<1> DEFINE u == InsertRow(store, r, Len(history))
           table == [image EXCEPT ![r] = @ + 1]
<1>1. /\ HasKey /\ Lsn = Len(history) /\ Lsn \in Nat /\ disk \in Files
      /\ image \in Table /\ StoreShape(store)
      /\ StoreInv(store, image, history) /\ DiskIsOlder(store, disk)
      /\ (disk.segments # <<>> => disk.applied_lsn < Lsn)
      /\ DOMAIN store.index = {k \in Key : Holds(k)}
  BY TableFacts
<1>2. /\ Streaming /\ store' = Applied(u, Lsn) /\ image' = table /\ error' = error
      /\ r.key \notin DOMAIN store.index
  BY <1>1 DEF ApplyInsert
<1>3. StoreInv(u, table, history) /\ Later(store, u, Lsn) /\ u.applied_lsn = store.applied_lsn
      /\ table \in Table
  <2>1. /\ HasKey /\ image \in Table /\ Len(history) \in Nat /\ StoreInv(store, image, history)
        /\ r.key \notin DOMAIN store.index
    BY <1>1, <1>2
  <2>2. StoreInv(u, table, history) /\ Later(store, u, Len(history))
        /\ u.applied_lsn = store.applied_lsn /\ table \in Table
    BY <2>1, InsertKeeps
  <2> QED
    BY <1>1, <2>2
<1> HIDE DEF u, table
<1>4. DiskIsOlder(u, disk)
  <2>1. StoreShape(u)
    BY <1>3 DEF StoreInv
  <2> QED
    BY <1>1, <1>3, <2>1, LaterKeepsDisk DEF Files
<1> QED
  BY <1>2, <1>3, <1>4, ChangeStep

LEMMA HeadRemoved ==
    ASSUME TableInv, NEW old \in Row, image[old] > 0
    PROVE  LET u == DeleteRow(store, old.key, Lsn) IN
           /\ old.key \in DOMAIN store.index
           /\ StoreInv(u, Minus(image, old), history) /\ Minus(image, old) \in Table
           /\ Later(store, u, Lsn) /\ u.applied_lsn = store.applied_lsn
           /\ DOMAIN u.index = DOMAIN store.index \ {old.key}
           /\ u = Unindex(MarkDeleted(store, store.index[old.key], Lsn), old.key)
<1> DEFINE u == DeleteRow(store, old.key, Len(history))
<1>1. /\ image \in Table /\ Len(history) \in Nat /\ StoreInv(store, image, history)
      /\ Lsn = Len(history)
  BY TableFacts
<1>2. /\ old.key \in DOMAIN store.index
      /\ StoreInv(u, Minus(image, old), history) /\ Minus(image, old) \in Table
      /\ Later(store, u, Len(history)) /\ u.applied_lsn = store.applied_lsn
      /\ DOMAIN u.index = DOMAIN store.index \ {old.key}
      /\ u = Unindex(MarkDeleted(store, store.index[old.key], Len(history)), old.key)
  BY <1>1, RemoveKeeps
<1> QED
  BY <1>1, <1>2

LEMMA DeleteStep ==
    ASSUME TableInv, NEW old \in Row, ApplyDelete(old) PROVE TableInv'
<1> DEFINE u == DeleteRow(store, old.key, Len(history))
           table == Minus(image, old)
<1>1. /\ HasKey /\ Lsn = Len(history) /\ Lsn \in Nat /\ disk \in Files
      /\ image \in Table /\ StoreShape(store)
      /\ StoreInv(store, image, history) /\ DiskIsOlder(store, disk)
      /\ (disk.segments # <<>> => disk.applied_lsn < Lsn)
  BY TableFacts
<1>2. Streaming /\ image[old] > 0 /\ image' = table
  BY DEF ApplyDelete, Minus
<1>3. /\ old.key \in DOMAIN store.index
      /\ StoreInv(u, table, history) /\ Later(store, u, Lsn) /\ u.applied_lsn = store.applied_lsn
      /\ table \in Table
  <2>1. u = DeleteRow(store, old.key, Lsn)
    BY <1>1
  <2> HIDE DEF u, table
  <2> QED
    BY <1>2, <2>1, HeadRemoved DEF table
<1>4. store' = Applied(u, Lsn) /\ error' = error
  BY <1>1, <1>3 DEF ApplyDelete
<1> HIDE DEF u, table
<1>5. DiskIsOlder(u, disk)
  <2>1. StoreShape(u)
    BY <1>3 DEF StoreInv
  <2> QED
    BY <1>1, <1>3, <2>1, LaterKeepsDisk DEF Files
<1> QED
  BY <1>2, <1>3, <1>4, <1>5, ChangeStep

LEMMA UpdateStep ==
    ASSUME TableInv, NEW old \in Row, NEW k \in Key, NEW v \in Val \union {Unchanged},
           NEW with_old \in BOOLEAN, ApplyUpdate(old, k, v, with_old)
    PROVE  TableInv'
<1> DEFINE new == [key |-> k, val |-> IF v = Unchanged THEN old.val ELSE v]
           mid == DeleteRow(store, old.key, Len(history))
           less == Minus(image, old)
           u == InsertRow(mid, new, Len(history))
           table == [less EXCEPT ![new] = @ + 1]
           loc == store.index[old.key]
<1>1. /\ HasKey /\ Lsn = Len(history) /\ Lsn \in Nat /\ disk \in Files
      /\ image \in Table /\ StoreShape(store)
      /\ StoreInv(store, image, history) /\ DiskIsOlder(store, disk)
      /\ (disk.segments # <<>> => disk.applied_lsn < Lsn)
      /\ DOMAIN store.index = {j \in Key : Holds(j)}
  BY TableFacts
<1>2. /\ Streaming /\ image[old] > 0 /\ image' = table
      /\ k = old.key \/ ~Holds(k)
      /\ OldKey(old, k, with_old) = old.key
  BY DEF ApplyUpdate, OldKey, Minus
<1>3. /\ old.key \in DOMAIN store.index
      /\ StoreInv(mid, less, history) /\ less \in Table
      /\ Later(store, mid, Lsn) /\ mid.applied_lsn = store.applied_lsn
      /\ DOMAIN mid.index = DOMAIN store.index \ {old.key}
      /\ mid = Unindex(MarkDeleted(store, loc, Lsn), old.key)
  <2>1. mid = DeleteRow(store, old.key, Lsn) /\ less = Minus(image, old)
    BY <1>1
  <2> HIDE DEF mid, less
  <2> QED
    BY <1>2, <2>1, HeadRemoved
<1>4. new \in Row /\ new.key = k
  BY DEF Row
<1>5. ToValues(store, k, v, loc) = new
  <2>1. RowsOf(store, loc.seg)[loc.row].row = old
    BY <1>1, <1>2 DEF StoreInv, IndexIsLive
  <2>2. FetchValue(store, loc) = old.val
    BY <2>1 DEF FetchValue, RowsOf
  <2> QED
    BY <2>2 DEF ToValues
<1>6. store' = Applied(u, Lsn) /\ error' = error
  <2>1. UpdateRow(store, old.key, k, v, Lsn) = u
    BY <1>1, <1>3, <1>5 DEF UpdateRow
  <2>2. store' = Applied(UpdateRow(store, old.key, k, v, Lsn), Lsn) /\ error' = error
    BY <1>2, <1>3 DEF ApplyUpdate
  <2> QED
    BY <2>1, <2>2
<1> HIDE DEF mid, less, new
<1>7. k \notin DOMAIN mid.index
  BY <1>1, <1>2, <1>3
<1>8. StoreInv(u, table, history) /\ Later(mid, u, Lsn) /\ u.applied_lsn = mid.applied_lsn
      /\ table \in Table
  <2>1. /\ HasKey /\ less \in Table /\ Len(history) \in Nat /\ StoreInv(mid, less, history)
        /\ new \in Row /\ new.key \notin DOMAIN mid.index
    BY <1>1, <1>3, <1>4, <1>7
  <2>2. StoreInv(u, table, history) /\ Later(mid, u, Len(history))
        /\ u.applied_lsn = mid.applied_lsn /\ table \in Table
    BY <2>1, InsertKeeps
  <2> QED
    BY <1>1, <2>2
<1> HIDE DEF u, table
<1>9. DiskIsOlder(u, disk)
  <2>1. StoreShape(u) /\ StoreShape(mid)
    BY <1>3, <1>8 DEF StoreInv
  <2>2. DiskIsOlder(mid, disk)
    BY <1>1, <1>3, <2>1, LaterKeepsDisk DEF Files
  <2> QED
    BY <1>1, <1>8, <2>1, <2>2, LaterKeepsDisk DEF Files
<1>10. u.applied_lsn = store.applied_lsn
  BY <1>3, <1>8
<1>11. image' = table
  BY <1>2 DEF table, less, new
<1> QED
  BY <1>2, <1>6, <1>8, <1>9, <1>10, <1>11, ChangeStep

LEMMA TruncateStep ==
    ASSUME TableInv, ApplyTruncate PROVE TableInv'
<1> DEFINE u == TruncateRows(store, Len(history))
           table == [r \in Row |-> 0]
<1>1. /\ Lsn = Len(history) /\ Lsn \in Nat /\ disk \in Files /\ image \in Table /\ StoreShape(store)
      /\ StoreInv(store, image, history) /\ DiskIsOlder(store, disk)
      /\ (disk.segments # <<>> => disk.applied_lsn < Lsn)
  BY TableFacts
<1>2. Streaming /\ store' = Applied(u, Lsn) /\ image' = table /\ error' = error
  BY <1>1 DEF ApplyTruncate
<1>3. StoreInv(u, table, history) /\ Later(store, u, Lsn) /\ u.applied_lsn = store.applied_lsn
      /\ table \in Table
  BY <1>1, TruncateKeeps
<1> HIDE DEF u, table
<1>4. DiskIsOlder(u, disk)
  <2>1. StoreShape(u)
    BY <1>3 DEF StoreInv
  <2> QED
    BY <1>1, <1>3, <2>1, LaterKeepsDisk DEF Files
<1> QED
  BY <1>2, <1>3, <1>4, ChangeStep

LEMMA EndStep ==
    ASSUME TableInv, EndTransaction PROVE TableInv'
<1>1. /\ HasKey /\ ~error /\ changes \in Nat /\ finalizing \in Nat
      /\ image \in Table /\ history \in Seq(Table) /\ Lsn = Len(history) /\ Lsn \in Nat
      /\ disk \in Files /\ StoreInv(store, image, history) /\ DiskIsOlder(store, disk)
  BY TableFacts
<1>2. /\ changes > 0 /\ history' = Append(history, image) /\ changes' = 0 /\ store' = store
      /\ disk' = disk /\ image' = image /\ finalizing' = finalizing /\ error' = error
  BY DEF EndTransaction
<1>3. StoreInv(store, image, history') /\ history' \in Seq(Table) /\ Lsn' = Lsn + 1
  BY <1>1, <1>2, TransactionEnds DEF Lsn
<1>4. Boundaries'
  <2>1. store.applied_lsn = Lsn /\ finalizing = 0
    BY <1>1, <1>2 DEF TableInv, Boundaries
  <2>2. disk.applied_lsn < Lsn \/ disk = NoFiles
    BY DEF TableInv, Boundaries, NoFiles
  <2>3. disk.applied_lsn \in Nat
    BY <1>1 DEF Files
  <2>4. store'.applied_lsn = Lsn' - 1 /\ Lsn' > 0 /\ changes' = 0 /\ finalizing' = 0
    BY <1>1, <1>2, <1>3, <2>1
  <2>5. disk'.applied_lsn < Lsn' \/ disk' = NoFiles
    BY <1>1, <1>2, <1>3, <2>2, <2>3
  <2> QED
    BY <2>4, <2>5 DEF Boundaries, NoFiles
<1> QED
  BY <1>1, <1>2, <1>3, <1>4 DEF TableInv, Table, Files, HasKey

LEMMA FinalizeStep ==
    ASSUME TableInv, FinalizeStart PROVE TableInv'
<1>1. /\ HasKey /\ ~error /\ changes \in Nat /\ finalizing \in Nat
      /\ image \in Table /\ history \in Seq(Table) /\ Lsn = Len(history) /\ Lsn \in Nat
      /\ disk \in Files /\ StoreInv(store, image, history) /\ DiskIsOlder(store, disk)
  BY TableFacts
<1>2. /\ changes = 0 /\ history' = (IF Lsn = 0 THEN <<image>> ELSE history)
      /\ store' = Flush(store) /\ finalizing' = Len(store'.segments) + 1 /\ changes' = changes
      /\ disk' = disk /\ image' = image /\ error' = error
  BY DEF FinalizeStart
<1>3. /\ StoreInv(store', image, history) /\ DiskIsOlder(store', disk)
      /\ store'.applied_lsn = store.applied_lsn /\ store'.open = <<>>
  BY <1>1, <1>2, FlushKeeps DEF Files
<1>4. Len(store'.segments) \in Nat
  BY <1>3 DEF StoreInv, StoreShape
<1>5. StoreInv(store', image, history') /\ history' \in Seq(Table)
      /\ Lsn' = (IF Lsn = 0 THEN 1 ELSE Lsn)
  <2>1. CASE Lsn = 0
    <3>1. history' = Append(history, image)
      <4>1. history = <<>>
        BY <1>1, <2>1, EmptySeq
      <4>2. Append(<<>>, image) = <<image>>
        OBVIOUS
      <4> QED
        BY <1>2, <2>1, <4>1, <4>2
    <3>2. StoreInv(store', image, Append(history, image))
      BY <1>1, <1>3, TransactionEnds
    <3> QED
      BY <1>1, <2>1, <3>1, <3>2 DEF Lsn
  <2>2. CASE Lsn # 0
    BY <1>1, <1>2, <1>3, <2>2 DEF Lsn
  <2> QED
    BY <2>1, <2>2
<1>6. Boundaries'
  <2>1. store.applied_lsn = IF Lsn > 0 THEN Lsn - 1 ELSE 0
    BY <1>2 DEF TableInv, Boundaries
  <2>2. disk.applied_lsn < Lsn \/ disk = NoFiles
    BY DEF TableInv, Boundaries, NoFiles
  <2>3. disk.applied_lsn \in Nat
    BY <1>1 DEF Files
  <2>4. store'.applied_lsn = Lsn' - 1 /\ Lsn' > 0 /\ changes' = 0 /\ store'.open = <<>>
        /\ finalizing' <= Len(store'.segments) + 1
    BY <1>1, <1>2, <1>3, <1>4, <1>5, <2>1
  <2>5. disk'.applied_lsn < Lsn' \/ disk' = NoFiles
    BY <1>1, <1>2, <1>5, <2>2, <2>3
  <2>6. \A n \in 1..(Len(store'.segments) + 1 - finalizing') : FALSE
    BY <1>2, <1>4
  <2> QED
    BY <2>4, <2>5, <2>6 DEF Boundaries, NoFiles
<1> QED
  BY <1>1, <1>2, <1>3, <1>4, <1>5, <1>6 DEF TableInv, Table, Files, HasKey

LEMMA SidecarStep ==
    ASSUME TableInv, WriteSidecar PROVE TableInv'
<1> DEFINE N == Len(store.segments)
           id == N + 2 - finalizing
           old == disk.sidecars
           new == IF id > Len(old) THEN Append(old, store.sidecars[id])
                  ELSE [old EXCEPT ![id] = store.sidecars[id]]
<1>1. /\ HasKey /\ ~error /\ changes \in Nat /\ finalizing \in Nat
      /\ image \in Table /\ history \in Seq(Table) /\ Lsn \in Nat
      /\ disk \in Files /\ StoreInv(store, image, history) /\ DiskIsOlder(store, disk)
      /\ StoreShape(store)
  BY TableFacts
<1>2. /\ finalizing > 1 /\ disk' = [disk EXCEPT !.sidecars = new] /\ finalizing' = finalizing - 1
      /\ store' = store /\ image' = image /\ history' = history /\ changes' = changes
      /\ error' = error
  BY DEF WriteSidecar
<1>3. /\ N \in Nat /\ store.sidecars \in Seq(SUBSET (Nat \X Nat)) /\ Len(store.sidecars) = N
      /\ old \in Seq(SUBSET (Nat \X Nat)) /\ Len(old) \in Nat
      /\ Len(disk.segments) \in Nat /\ disk.segments \in Seq(Segment) /\ disk.applied_lsn \in Nat
  BY <1>1 DEF StoreShape, Files
<1>4. /\ Lsn > 0 /\ changes = 0 /\ store.open = <<>> /\ finalizing <= N + 1
      /\ \A n \in 1..(N + 1 - finalizing) : n <= Len(old) /\ old[n] = store.sidecars[n]
  BY <1>1, <1>2 DEF TableInv, Boundaries
<1>5. id \in 1..N /\ id <= Len(old) + 1 /\ id = (N + 1 - finalizing) + 1
  <2> HIDE DEF N, old
  <2>1. id \in 1..N /\ id = (N + 1 - finalizing) + 1
    BY <1>1, <1>2, <1>3, <1>4
  <2> DEFINE place == Len(old)
  <2>2. CASE id = 1
    <3>1. place \in Nat
      BY <1>3
    <3> HIDE DEF place, id
    <3>2. id <= place + 1
      BY <2>2, <3>1
    <3> QED
      BY <2>1, <3>2 DEF place, id
  <2>3. CASE id # 1
    <3>1. (N + 1 - finalizing) \in 1..(N + 1 - finalizing)
      BY <1>1, <1>3, <2>1, <2>3
    <3>2. (N + 1 - finalizing) <= Len(old)
      BY <1>4, <3>1
    <3> QED
      BY <1>1, <1>3, <2>1, <3>2
  <2> QED
    BY <2>1, <2>2, <2>3
<1>6. store.sidecars[id] \in SUBSET (Nat \X Nat)
  BY <1>3, <1>5
<1> HIDE DEF id
<1>7. /\ new \in Seq(SUBSET (Nat \X Nat)) /\ new[id] = store.sidecars[id]
      /\ Len(new) = (IF id > Len(old) THEN Len(old) + 1 ELSE Len(old)) /\ id <= Len(new)
      /\ \A n \in 1..Len(old) : n # id => new[n] = old[n]
  <2>1. CASE id > Len(old)
    <3>1. id = Len(old) + 1 /\ new = Append(old, store.sidecars[id])
      BY <1>3, <1>5, <2>1
    <3> QED
      BY <1>3, <1>5, <1>6, <2>1, <3>1
  <2>2. CASE ~ (id > Len(old))
    <3> DEFINE x == store.sidecars[id]
               rest == [old EXCEPT ![id] = x]
    <3>1. new = rest /\ id \in 1..Len(old)
      BY <1>3, <1>5, <2>2
    <3> HIDE DEF old, new, x
    <3>2. /\ rest \in Seq(SUBSET (Nat \X Nat)) /\ rest[id] = x /\ Len(rest) = Len(old)
          /\ \A n \in 1..Len(old) : n # id => rest[n] = old[n]
      BY <1>3, <1>6, <3>1 DEF x
    <3> HIDE DEF rest
    <3> QED
      BY <1>3, <2>2, <3>1, <3>2 DEF x
  <2> QED
    BY <2>1, <2>2
<1> HIDE DEF new
<1>8. /\ disk'.sidecars = new /\ disk'.segments = disk.segments
      /\ disk'.applied_lsn = disk.applied_lsn /\ disk' \in Files
  BY <1>1, <1>2, <1>7 DEF Files
<1>9. DiskIsOlder(store, disk')
  <2>1. Len(new) <= N /\ Len(disk.segments) <= Len(new) /\ Len(disk.segments) <= N
    <3> DEFINE held == Len(disk.segments)
               before == Len(old)
               after == Len(new)
    <3>1. held <= N /\ before <= N /\ held <= before
      BY <1>1 DEF DiskIsOlder
    <3>2. /\ held \in Nat /\ before \in Nat /\ N \in Nat /\ id \in 1..N
          /\ after = IF id > before THEN before + 1 ELSE before
      BY <1>3, <1>5, <1>7
    <3>3. id <= before + 1
      BY <1>5
    <3> HIDE DEF held, before, after, N
    <3>4. after <= N /\ held <= after /\ held <= N
      BY <3>1, <3>2, <3>3
    <3> QED
      BY <3>4 DEF held, after
  <2>2. ASSUME NEW n \in 1..Len(disk.segments)
        PROVE  /\ disk.segments[n] = store.segments[n]
               /\ \A x \in new[n] \union store.sidecars[n] :
                     x[2] <= disk.applied_lsn => (x \in new[n] <=> x \in store.sidecars[n])
    <3>1. disk.segments[n] = store.segments[n]
      BY <1>1 DEF DiskIsOlder
    <3>2. CASE n = id
      BY <1>7, <3>1, <3>2
    <3>3. CASE n # id
      <4>1. n \in 1..Len(old)
        BY <1>1, <1>3 DEF DiskIsOlder
      <4>2. new[n] = old[n]
        BY <1>7, <3>3, <4>1
      <4> QED
        BY <1>1, <3>1, <4>2 DEF DiskIsOlder
    <3> QED
      BY <3>2, <3>3
  <2> QED
    BY <1>1, <1>8, <2>1, <2>2 DEF DiskIsOlder
<1>10. \A n \in 1..(N + 1 - finalizing') : n <= Len(new) /\ new[n] = store.sidecars[n]
  <2> SUFFICES ASSUME NEW n \in 1..(N + 1 - finalizing')
               PROVE  n <= Len(new) /\ new[n] = store.sidecars[n]
    OBVIOUS
  <2>1. CASE n = id
    BY <1>7, <2>1
  <2>2. CASE n # id
    <3>1. n \in 1..(N + 1 - finalizing)
      BY <1>1, <1>2, <1>3, <1>5, <2>2
    <3>2. n <= Len(old) /\ old[n] = store.sidecars[n] /\ n \in 1..Len(old)
      BY <1>3, <1>4, <3>1
    <3> QED
      BY <1>3, <1>7, <2>2, <3>2
  <2> QED
    BY <2>1, <2>2
<1>11. Boundaries'
  <2>1. store'.applied_lsn = IF changes' > 0 THEN Lsn' ELSE IF Lsn' > 0 THEN Lsn' - 1 ELSE 0
    BY <1>2 DEF TableInv, Boundaries, Lsn
  <2>2. disk.applied_lsn < Lsn \/ disk = NoFiles
    BY DEF TableInv, Boundaries, NoFiles
  <2>3. disk'.applied_lsn < Lsn'
    <3>1. NoFiles.applied_lsn = 0
      BY DEF NoFiles
    <3> QED
      BY <1>2, <1>4, <1>8, <2>2, <3>1 DEF Lsn
  <2>4. /\ Lsn' > 0 /\ changes' = 0 /\ store'.open = <<>> /\ finalizing' <= Len(store'.segments) + 1
        /\ \A n \in 1..(Len(store'.segments) + 1 - finalizing') :
              n <= Len(disk'.sidecars) /\ disk'.sidecars[n] = store'.sidecars[n]
    BY <1>1, <1>2, <1>3, <1>4, <1>8, <1>10 DEF Lsn
  <2> QED
    BY <1>1, <2>1, <2>3, <2>4 DEF Boundaries
<1> QED
  BY <1>1, <1>2, <1>8, <1>9, <1>11 DEF TableInv, Table, Files, HasKey

LEMMA ManifestStep ==
    ASSUME TableInv, WriteManifest PROVE TableInv'
<1> DEFINE N == Len(store.segments)
<1>1. /\ HasKey /\ ~error /\ changes \in Nat /\ finalizing \in Nat
      /\ image \in Table /\ history \in Seq(Table) /\ Lsn \in Nat
      /\ disk \in Files /\ StoreInv(store, image, history) /\ DiskIsOlder(store, disk)
      /\ StoreShape(store) /\ store.applied_lsn \in Nat
  BY TableFacts
<1>2. /\ finalizing = 1 /\ finalizing' = 0
      /\ disk' = [disk EXCEPT !.segments = store.segments, !.applied_lsn = store.applied_lsn]
      /\ store' = store /\ image' = image /\ history' = history /\ changes' = changes
      /\ error' = error
  BY DEF WriteManifest
<1>3. N \in Nat /\ store.segments \in Seq(Segment) /\ Len(disk.sidecars) \in Nat
  BY <1>1 DEF StoreShape, Files
<1>4. /\ Lsn > 0 /\ changes = 0 /\ store.open = <<>>
      /\ store.applied_lsn = Lsn - 1
      /\ \A n \in 1..N : n <= Len(disk.sidecars) /\ disk.sidecars[n] = store.sidecars[n]
  <2>1. N + 1 - finalizing = N
    BY <1>2, <1>3
  <2> QED
    BY <1>1, <1>2, <2>1 DEF TableInv, Boundaries
<1>5. /\ disk'.sidecars = disk.sidecars /\ disk'.segments = store.segments
      /\ disk'.applied_lsn = store.applied_lsn /\ disk' \in Files
  BY <1>1, <1>2, <1>3 DEF Files
<1>6. DiskIsOlder(store, disk')
  <2>1. Len(disk.sidecars) <= N /\ N <= Len(disk.sidecars)
    <3>1. Len(disk.sidecars) <= N
      BY <1>1 DEF DiskIsOlder
    <3>2. N > 0 => N \in 1..N
      BY <1>3
    <3> QED
      BY <1>3, <1>4, <3>1, <3>2
  <2>2. ASSUME NEW n \in 0..N, n \notin 1..N PROVE DOMAIN RowsOf(store, n) = {}
    <3>1. n = OpenSegment
      BY <1>3, <2>2 DEF OpenSegment
    <3> QED
      BY <1>4, <3>1 DEF RowsOf
  <2> QED
    BY <1>3, <1>4, <1>5, <2>1, <2>2 DEF DiskIsOlder
<1>7. Boundaries'
  <2>1. store'.applied_lsn = Lsn' - 1 /\ Lsn' > 0 /\ changes' = 0 /\ finalizing' = 0
        /\ disk'.applied_lsn < Lsn'
    BY <1>1, <1>2, <1>4, <1>5 DEF Lsn
  <2> QED
    BY <2>1 DEF Boundaries
<1> QED
  BY <1>1, <1>2, <1>5, <1>6, <1>7 DEF TableInv, Table, Files, HasKey

LEMMA EmptyTable ==
    HasKey /\ Init => TableInv
<1> SUFFICES ASSUME HasKey, Init PROVE TableInv
  OBVIOUS
<1> DEFINE empty == [k \in {} |-> 0]
<1>1. /\ store.open = <<>> /\ store.segments = <<>> /\ store.sidecars = <<>> /\ store.index = empty
      /\ store.live_rows = 0 /\ store.applied_lsn = 0
      /\ store \in [open : {store.open}, segments : {store.segments}, sidecars : {store.sidecars},
                    index : {store.index}, live_rows : {store.live_rows},
                    applied_lsn : {store.applied_lsn}]
      /\ disk = NoFiles /\ finalizing = 0 /\ image = [r \in Row |-> 0] /\ history = <<>>
      /\ changes = 0 /\ ~error /\ Lsn = 0
  BY DEF Init, EmptyStore, Lsn, NoFiles
<1>2. DOMAIN empty = {} /\ empty \in [DOMAIN empty -> [seg : Nat, row : Nat]]
  OBVIOUS
<1> HIDE DEF empty
<1>3. StoreShape(store)
  <2>1. /\ store.open \in Seq(OpenRow) /\ store.segments \in Seq(Segment)
        /\ store.sidecars \in Seq(SUBSET (Nat \X Nat)) /\ Len(store.sidecars) = Len(store.segments)
        /\ store.live_rows \in Nat /\ store.applied_lsn \in Nat
        /\ store.index \in [DOMAIN store.index -> [seg : Nat, row : Nat]]
        /\ DOMAIN store.index \subseteq Key
    BY <1>1, <1>2
  <2> QED
    BY <1>1, <2>1, ShapeFrom
<1>4. \A n \in 0..Len(store.segments) : DOMAIN RowsOf(store, n) = {} /\ n = 0
  <2>1. Len(store.segments) = 0
    BY <1>1
  <2>2. RowsOf(store, 0) = <<>>
    BY <1>1 DEF RowsOf, OpenSegment
  <2> QED
    BY <2>1, <2>2
<1>5. Len(history) = 0
  BY <1>1
<1>6. Timed(store, 0) /\ ShowsHistory(store, history) /\ ShownOnce(store, 0)
  BY <1>4, <1>5 DEF Timed, ShowsHistory, ShownOnce
<1>7. IndexIsLive(store, image)
  <2>1. IsFiniteSet({}) /\ Cardinality({}) = 0
    BY FS_EmptySet
  <2> QED
    BY <1>1, <1>2, <1>4, <2>1 DEF IndexIsLive
<1>8. disk \in Files /\ disk.segments = <<>> /\ disk.sidecars = <<>> /\ disk.applied_lsn = 0
  <2>1. \A a \in Seq(SUBSET (Nat \X Nat)), b \in Seq(Segment) :
            [sidecars |-> a, segments |-> b, applied_lsn |-> 0] \in Files
    BY DEF Files
  <2>2. <<>> \in Seq(SUBSET (Nat \X Nat)) /\ <<>> \in Seq(Segment)
    OBVIOUS
  <2>3. NoFiles \in Files
    BY <2>1, <2>2, Zenon DEF NoFiles
  <2> QED
    BY <1>1, <2>3 DEF NoFiles
<1>9. DiskIsOlder(store, disk)
  <2>1. Len(store.segments) = 0 /\ Len(disk.segments) = 0 /\ Len(disk.sidecars) = 0
    BY <1>1, <1>8
  <2> QED
    BY <1>8, <2>1 DEF DiskIsOlder
<1>10. Boundaries
  BY <1>1 DEF Boundaries, NoFiles
<1>11. image \in Table /\ history \in Seq(Table)
  BY <1>1 DEF Table
<1> QED
  BY <1>1, <1>3, <1>5, <1>6, <1>7, <1>8, <1>9, <1>10, <1>11
     DEF TableInv, StoreInv, Table, Files

LEMMA TableSteps ==
    TableInv /\ [Next]_storeVars => TableInv'
<1> SUFFICES ASSUME TableInv, [Next]_storeVars PROVE TableInv'
  OBVIOUS
<1>1. CASE UNCHANGED storeVars
  BY <1>1 DEF storeVars, TableInv, Boundaries, Lsn, HasKey
<1>2. CASE Next
  BY <1>2, LoadStep, InsertStep, DeleteStep, UpdateStep, TruncateStep, EndStep, FinalizeStep,
     SidecarStep, ManifestStep DEF Next
<1> QED
  BY <1>1, <1>2

\* Whatever happens to the search index, the store takes one of its own steps.
LEMMA ShapesSteps ==
    [ShapesNext]_shapeVars => [Next]_storeVars
  BY DEF ShapesNext, shapeVars, searchVars, storeVars, Next, Backfill, Insert, Update, Delete, Truncate,
     EndOfTransaction, EndBackfill, CommitBatch, WriteMeta, OpenSearch, Search

-----------------------------------------------------------------------------
(***************************************************************************)
(* What a scan counts.                                                     *)
(***************************************************************************)
\* The segments of the store, or as many of them as the files have, with
\* sidecars that agree with the store's up to an LSN.
Agree(s, segs, sidecars, lsn) ==
    /\ Len(segs) <= Len(s.segments) /\ Len(segs) <= Len(sidecars)
    /\ \A n \in 1..Len(segs) :
          /\ segs[n] = s.segments[n]
          /\ \A x \in sidecars[n] \union s.sidecars[n] :
                x[2] <= lsn => (x \in sidecars[n] <=> x \in s.sidecars[n])

InSegments(s, segs, p, r, lsn) ==
    \E n \in 1..Len(segs) : \E i \in DOMAIN RowsOf(s, n) :
        p = <<n, i>> /\ RowsOf(s, n)[i].row = r /\ Visible(s, n, i, lsn)

RowInSegments(segs, sidecars, r, lsn) ==
    {p \in SegmentVisible(segs, sidecars, lsn) : segs[p[1]].rows[p[2]].row = r}

LEMMA SegmentScan ==
    ASSUME NEW s, NEW now \in Nat, StoreShape(s), Timed(s, now), NEW lsn \in Nat,
           NEW segs \in Seq(Segment), NEW sidecars \in Seq(SUBSET (Nat \X Nat)),
           Agree(s, segs, sidecars, lsn), NEW r, NEW p
    PROVE  p \in RowInSegments(segs, sidecars, r, lsn) <=> InSegments(s, segs, p, r, lsn)
<1>1. /\ Len(segs) \in Nat /\ Len(s.segments) \in Nat /\ Len(sidecars) \in Nat
      /\ s.segments \in Seq(Segment) /\ s.sidecars \in Seq(SUBSET (Nat \X Nat))
      /\ Len(s.sidecars) = Len(s.segments) /\ DOMAIN segs = 1..Len(segs)
      /\ Len(segs) <= Len(s.segments) /\ Len(segs) <= Len(sidecars)
  BY DEF StoreShape, Agree
<1>2. ASSUME NEW n \in 1..Len(segs)
      PROVE  /\ n \in 0..Len(s.segments) /\ n \in 1..Len(s.segments) /\ n # OpenSegment
             /\ RowsOf(s, n) = segs[n].rows /\ segs[n] = s.segments[n]
             /\ Deletes(sidecars, n) = sidecars[n] /\ sidecars[n] \in SUBSET (Nat \X Nat)
             /\ s.sidecars[n] \in SUBSET (Nat \X Nat)
  <2>1. n \in 0..Len(s.segments) /\ n \in 1..Len(s.segments) /\ n # OpenSegment /\ n \in DOMAIN sidecars
    BY <1>1 DEF OpenSegment
  <2>2. segs[n] = s.segments[n]
    BY DEF Agree
  <2> QED
    BY <1>1, <2>1, <2>2 DEF RowsOf, Deletes
<1>3. ASSUME NEW n \in 1..Len(segs), NEW i \in DOMAIN segs[n].rows
      PROVE  (~ \E d \in sidecars[n] : d[1] = i /\ d[2] <= lsn)
             <=> \A d \in DeletedAt(s, n, i) : lsn < d
  <2>1. \A d : d \in DeletedAt(s, n, i) <=> \E x \in s.sidecars[n] : x[1] = i /\ x[2] = d
    BY <1>2 DEF DeletedAt
  <2>2. \A x \in sidecars[n] \union s.sidecars[n] : x[2] \in Nat
    BY <1>2
  <2>3. \A x \in sidecars[n] \union s.sidecars[n] :
            x[2] <= lsn => (x \in sidecars[n] <=> x \in s.sidecars[n])
    BY DEF Agree
  <2>4. (\A d \in DeletedAt(s, n, i) : lsn < d) <=> \A x \in s.sidecars[n] : x[1] = i => lsn < x[2]
    BY <2>1
  <2>5. (~ \E d \in sidecars[n] : d[1] = i /\ d[2] <= lsn)
        <=> \A x \in s.sidecars[n] : x[1] = i => ~ (x[2] <= lsn)
    BY <2>3
  <2>6. \A x \in s.sidecars[n] : lsn < x[2] <=> ~ (x[2] <= lsn)
    BY <2>2
  <2> QED
    BY <2>4, <2>5, <2>6
<1>4. ASSUME NEW n \in 1..Len(segs), NEW i \in DOMAIN segs[n].rows
      PROVE  /\ segs[n].lsn_min \in Nat /\ segs[n].rows[i].insert_lsn \in Nat
             /\ segs[n].lsn_min <= segs[n].rows[i].insert_lsn
  <2>1. n \in 0..Len(s.segments) /\ i \in DOMAIN RowsOf(s, n) /\ n # OpenSegment
        /\ RowsOf(s, n) = segs[n].rows /\ segs[n] = s.segments[n]
    BY <1>2
  <2>2. s.segments[n].lsn_min <= RowsOf(s, n)[i].insert_lsn
    BY <2>1 DEF Timed
  <2>3. RowsOf(s, n)[i].insert_lsn \in Nat
    BY <2>1, PlaceTypes
  <2>4. segs[n] \in Segment
    BY <1>1
  <2> QED
    BY <2>1, <2>2, <2>3, <2>4 DEF Segment
<1> DEFINE Within(n, i) ==
               /\ segs[n].lsn_min <= lsn /\ segs[n].rows[i].insert_lsn <= lsn
               /\ ~ \E d \in sidecars[n] : d[1] = i /\ d[2] <= lsn
<1>5. ASSUME NEW n \in 1..Len(segs), NEW i \in DOMAIN segs[n].rows
      PROVE  Within(n, i) <=> Visible(s, n, i, lsn)
  <2>1. Visible(s, n, i, lsn) <=>
            segs[n].rows[i].insert_lsn <= lsn /\ \A d \in DeletedAt(s, n, i) : lsn < d
    BY <1>2 DEF Visible
  <2>2. segs[n].rows[i].insert_lsn <= lsn => segs[n].lsn_min <= lsn
    BY <1>4
  <2> QED
    BY <1>3, <2>1, <2>2
<1>6. p \in SegmentVisible(segs, sidecars, lsn) <=>
          \E n \in 1..Len(segs) : \E i \in DOMAIN segs[n].rows : p = <<n, i>> /\ Within(n, i)
  <2>1. \A n \in 1..Len(segs) : Deletes(sidecars, n) = sidecars[n]
    BY <1>2
  <2> QED
    BY <1>1, <2>1 DEF SegmentVisible
<1> HIDE DEF Within
<1>7. p \in SegmentVisible(segs, sidecars, lsn) <=>
          \E n \in 1..Len(segs) : \E i \in DOMAIN RowsOf(s, n) : p = <<n, i>> /\ Visible(s, n, i, lsn)
  BY <1>2, <1>5, <1>6
<1>8. \A n, i : p = <<n, i>> => p[1] = n /\ p[2] = i
  OBVIOUS
<1>9. p \in RowInSegments(segs, sidecars, r, lsn) <=>
          p \in SegmentVisible(segs, sidecars, lsn) /\ segs[p[1]].rows[p[2]].row = r
  BY DEF RowInSegments
<1>10. ASSUME p \in RowInSegments(segs, sidecars, r, lsn) PROVE InSegments(s, segs, p, r, lsn)
  <2>1. PICK n \in 1..Len(segs) :
            \E i \in DOMAIN RowsOf(s, n) : p = <<n, i>> /\ Visible(s, n, i, lsn)
    BY <1>7, <1>9, <1>10
  <2>2. PICK i \in DOMAIN RowsOf(s, n) : p = <<n, i>> /\ Visible(s, n, i, lsn)
    BY <2>1
  <2>3. RowsOf(s, n)[i].row = r
    BY <1>2, <1>8, <1>9, <1>10, <2>2
  <2> QED
    BY <2>2, <2>3 DEF InSegments
<1>11. ASSUME InSegments(s, segs, p, r, lsn) PROVE p \in RowInSegments(segs, sidecars, r, lsn)
  <2>1. PICK n \in 1..Len(segs) : \E i \in DOMAIN RowsOf(s, n) :
            p = <<n, i>> /\ RowsOf(s, n)[i].row = r /\ Visible(s, n, i, lsn)
    BY <1>11 DEF InSegments
  <2>2. PICK i \in DOMAIN RowsOf(s, n) :
            p = <<n, i>> /\ RowsOf(s, n)[i].row = r /\ Visible(s, n, i, lsn)
    BY <2>1
  <2> QED
    BY <1>2, <1>7, <1>8, <1>9, <2>2
<1> QED
  BY <1>10, <1>11

\* A row is counted once if a segment shows it, and not at all otherwise.
LEMMA SegmentCount ==
    ASSUME NEW s, NEW now \in Nat, StoreShape(s), Timed(s, now), ShownOnce(s, now),
           NEW lsn \in 0..(now - 1),
           NEW segs \in Seq(Segment), NEW sidecars \in Seq(SUBSET (Nat \X Nat)),
           Agree(s, segs, sidecars, lsn), NEW r \in Row
    PROVE  Cardinality(RowInSegments(segs, sidecars, r, lsn)) =
               IF \E p : InSegments(s, segs, p, r, lsn) THEN 1 ELSE 0
<1> DEFINE P == RowInSegments(segs, sidecars, r, lsn)
<1>1. lsn \in Nat
  OBVIOUS
<1>2. \A p : p \in P <=> InSegments(s, segs, p, r, lsn)
  BY <1>1, SegmentScan
<1> HIDE DEF P
<1>3. ASSUME NEW p, NEW q, InSegments(s, segs, p, r, lsn), InSegments(s, segs, q, r, lsn)
      PROVE  p = q
  <2>1. \A n \in 1..Len(segs) : n \in 0..Len(s.segments)
    BY DEF Agree, StoreShape
  <2>2. PICK n \in 1..Len(segs) : \E i \in DOMAIN RowsOf(s, n) :
            p = <<n, i>> /\ RowsOf(s, n)[i].row = r /\ Visible(s, n, i, lsn)
    BY <1>3 DEF InSegments
  <2>3. PICK i \in DOMAIN RowsOf(s, n) :
            p = <<n, i>> /\ RowsOf(s, n)[i].row = r /\ Visible(s, n, i, lsn)
    BY <2>2
  <2>4. PICK m \in 1..Len(segs) : \E j \in DOMAIN RowsOf(s, m) :
            q = <<m, j>> /\ RowsOf(s, m)[j].row = r /\ Visible(s, m, j, lsn)
    BY <1>3 DEF InSegments
  <2>5. PICK j \in DOMAIN RowsOf(s, m) :
            q = <<m, j>> /\ RowsOf(s, m)[j].row = r /\ Visible(s, m, j, lsn)
    BY <2>4
  <2>6. n = m /\ i = j
    BY <2>1, <2>3, <2>5 DEF ShownOnce
  <2> QED
    BY <2>3, <2>5, <2>6
<1>4. CASE \E p : InSegments(s, segs, p, r, lsn)
  <2>1. PICK p : InSegments(s, segs, p, r, lsn)
    BY <1>4
  <2>2. P = {p}
    BY <1>2, <1>3, <2>1
  <2> QED
    BY <1>4, <2>2, FS_Singleton DEF P
<1>5. CASE ~ \E p : InSegments(s, segs, p, r, lsn)
  <2>1. P = {}
    BY <1>2, <1>5
  <2> QED
    BY <1>5, <2>1, FS_EmptySet DEF P
<1> QED
  BY <1>4, <1>5

InOpen(s, i, r, lsn) ==
    i \in DOMAIN RowsOf(s, OpenSegment) /\ RowsOf(s, OpenSegment)[i].row = r /\ Visible(s, OpenSegment, i, lsn)

RowInOpen(s, r, lsn) == {i \in OpenVisible(s, lsn) : s.open[i].row = r}

LEMMA OpenCount ==
    ASSUME NEW s, NEW now \in Nat, StoreShape(s), ShownOnce(s, now), NEW lsn \in 0..(now - 1), NEW r \in Row
    PROVE  Cardinality(RowInOpen(s, r, lsn)) = IF \E i : InOpen(s, i, r, lsn) THEN 1 ELSE 0
<1> DEFINE P == RowInOpen(s, r, lsn)
<1>1. /\ s.open \in Seq(OpenRow) /\ RowsOf(s, OpenSegment) = s.open
      /\ OpenSegment \in 0..Len(s.segments) /\ lsn \in Nat
  BY DEF StoreShape, RowsOf, OpenSegment
<1>2. \A i \in DOMAIN s.open :
          (~ (s.open[i].delete_lsn # NoLsn /\ s.open[i].delete_lsn <= lsn))
          <=> \A d \in DeletedAt(s, OpenSegment, i) : lsn < d
  <2> SUFFICES ASSUME NEW i \in DOMAIN s.open
               PROVE  (~ (s.open[i].delete_lsn # NoLsn /\ s.open[i].delete_lsn <= lsn))
                      <=> \A d \in DeletedAt(s, OpenSegment, i) : lsn < d
    OBVIOUS
  <2>1. s.open[i].delete_lsn \in Nat \union {NoLsn}
    <3>1. s.open[i] \in OpenRow
      BY <1>1
    <3> QED
      BY <3>1 DEF OpenRow
  <2>2. DeletedAt(s, OpenSegment, i) = {s.open[i].delete_lsn} \ {NoLsn}
    BY DEF DeletedAt
  <2> QED
    BY <1>1, <2>1, <2>2
<1>3. \A i : i \in P <=> InOpen(s, i, r, lsn)
  BY <1>1, <1>2 DEF RowInOpen, OpenVisible, InOpen, Visible
<1> HIDE DEF P
<1>4. ASSUME NEW i, NEW j, InOpen(s, i, r, lsn), InOpen(s, j, r, lsn) PROVE i = j
  BY <1>1, <1>4 DEF InOpen, ShownOnce
<1>5. CASE \E i : InOpen(s, i, r, lsn)
  <2>1. PICK i : InOpen(s, i, r, lsn)
    BY <1>5
  <2>2. P = {i}
    BY <1>3, <1>4, <2>1
  <2> QED
    BY <1>5, <2>2, FS_Singleton DEF P
<1>6. CASE ~ \E i : InOpen(s, i, r, lsn)
  <2>1. P = {}
    BY <1>3, <1>6
  <2> QED
    BY <1>6, <2>1, FS_EmptySet DEF P
<1> QED
  BY <1>5, <1>6

-----------------------------------------------------------------------------
(***************************************************************************)
(* The properties.                                                         *)
(***************************************************************************)
LEMMA ScanIsHistory ==
    ASSUME TableInv, NEW lsn \in 0..(Len(history) - 1), NEW r \in Row
    PROVE  ScanAt(store, lsn)[r] = history[lsn + 1][r]
<1> DEFINE segments == Cardinality(RowInSegments(store.segments, store.sidecars, r, lsn))
           tail == Cardinality(RowInOpen(store, r, lsn))
           inSegments == \E p : InSegments(store, store.segments, p, r, lsn)
           inTail == \E i : InOpen(store, i, r, lsn)
<1>1. /\ StoreShape(store) /\ Len(history) \in Nat /\ Timed(store, Len(history))
      /\ ShownOnce(store, Len(history)) /\ ShowsHistory(store, history) /\ lsn \in Nat
  BY TableFacts DEF StoreInv
<1>2. /\ store.segments \in Seq(Segment) /\ store.sidecars \in Seq(SUBSET (Nat \X Nat))
      /\ Len(store.sidecars) = Len(store.segments) /\ Len(store.segments) \in Nat
  BY <1>1 DEF StoreShape
<1>3. Agree(store, store.segments, store.sidecars, lsn)
  BY <1>2 DEF Agree
<1>4. segments = IF inSegments THEN 1 ELSE 0
  BY <1>1, <1>2, <1>3, SegmentCount
<1>5. tail = IF inTail THEN 1 ELSE 0
  BY <1>1, OpenCount
<1>6. ScanAt(store, lsn)[r] = segments + tail
  BY DEF ScanAt, RowInSegments, RowInOpen
<1> HIDE DEF segments, tail
<1>7. inSegments \/ inTail <=> Shown(store, r, lsn)
  <2>1. ASSUME inSegments PROVE Shown(store, r, lsn)
    <3>1. PICK p : InSegments(store, store.segments, p, r, lsn)
      BY <2>1
    <3>2. PICK n \in 1..Len(store.segments) : \E i \in DOMAIN RowsOf(store, n) :
              p = <<n, i>> /\ RowsOf(store, n)[i].row = r /\ Visible(store, n, i, lsn)
      BY <3>1 DEF InSegments
    <3>3. n \in 0..Len(store.segments)
      BY <1>2
    <3> QED
      BY <3>2, <3>3 DEF Shown
  <2>2. ASSUME inTail PROVE Shown(store, r, lsn)
    <3>1. OpenSegment \in 0..Len(store.segments)
      BY <1>2 DEF OpenSegment
    <3> QED
      BY <2>2, <3>1 DEF InOpen, Shown
  <2>3. ASSUME Shown(store, r, lsn) PROVE inSegments \/ inTail
    <3>1. PICK n \in 0..Len(store.segments) : \E i \in DOMAIN RowsOf(store, n) :
              RowsOf(store, n)[i].row = r /\ Visible(store, n, i, lsn)
      BY <2>3 DEF Shown
    <3>2. PICK i \in DOMAIN RowsOf(store, n) :
              RowsOf(store, n)[i].row = r /\ Visible(store, n, i, lsn)
      BY <3>1
    <3>3. CASE n = OpenSegment
      <4>1. InOpen(store, i, r, lsn)
        BY <3>2, <3>3 DEF InOpen
      <4> QED
        BY <4>1
    <3>4. CASE n # OpenSegment
      <4>1. n \in 1..Len(store.segments)
        BY <1>2, <3>4 DEF OpenSegment
      <4>2. InSegments(store, store.segments, <<n, i>>, r, lsn)
        BY <3>2, <4>1 DEF InSegments
      <4> QED
        BY <4>2
    <3> QED
      BY <3>3, <3>4
  <2> QED
    BY <2>1, <2>2, <2>3
<1>8. ~ (inSegments /\ inTail)
  <2> SUFFICES ASSUME inSegments, inTail PROVE FALSE
    OBVIOUS
  <2>1. PICK p : InSegments(store, store.segments, p, r, lsn)
    OBVIOUS
  <2>2. PICK n \in 1..Len(store.segments) : \E i \in DOMAIN RowsOf(store, n) :
            p = <<n, i>> /\ RowsOf(store, n)[i].row = r /\ Visible(store, n, i, lsn)
    BY <2>1 DEF InSegments
  <2>3. PICK i \in DOMAIN RowsOf(store, n) :
            p = <<n, i>> /\ RowsOf(store, n)[i].row = r /\ Visible(store, n, i, lsn)
    BY <2>2
  <2>4. PICK j : InOpen(store, j, r, lsn)
    OBVIOUS
  <2>5. n \in 0..Len(store.segments) /\ OpenSegment \in 0..Len(store.segments) /\ n # OpenSegment
    BY <1>2 DEF OpenSegment
  <2> QED
    BY <1>1, <2>3, <2>4, <2>5 DEF InOpen, ShownOnce
<1>9. history[lsn + 1][r] = IF Shown(store, r, lsn) THEN 1 ELSE 0
  BY <1>1 DEF ShowsHistory
<1> HIDE DEF inSegments, inTail
<1> QED
  BY <1>4, <1>5, <1>6, <1>7, <1>8, <1>9

\* The files have no row of a later transaction in them, and none that is
\* missing from them is visible at their LSN.
LEMMA FilesAreHistory ==
    ASSUME TableInv, disk.segments # <<>>, NEW lsn \in 0..disk.applied_lsn, NEW r \in Row
    PROVE  lsn \in 0..(Len(history) - 1) /\ DiskScan(lsn)[r] = history[lsn + 1][r]
<1> DEFINE count == Cardinality(RowInSegments(disk.segments, disk.sidecars, r, lsn))
           inFiles == \E p : InSegments(store, disk.segments, p, r, lsn)
<1>1. /\ StoreShape(store) /\ Len(history) \in Nat /\ Timed(store, Len(history))
      /\ ShownOnce(store, Len(history)) /\ ShowsHistory(store, history)
      /\ disk \in Files /\ DiskIsOlder(store, disk) /\ disk.applied_lsn < Len(history)
  BY TableFacts DEF StoreInv
<1>2. /\ disk.segments \in Seq(Segment) /\ disk.sidecars \in Seq(SUBSET (Nat \X Nat))
      /\ disk.applied_lsn \in Nat
  BY <1>1 DEF Files
<1>3. lsn \in 0..(Len(history) - 1) /\ lsn \in Nat /\ lsn <= disk.applied_lsn
  BY <1>1, <1>2
<1>4. Len(store.segments) \in Nat /\ Len(disk.segments) <= Len(store.segments)
  BY <1>1 DEF StoreShape, DiskIsOlder
<1>5. Agree(store, disk.segments, disk.sidecars, lsn)
  <2>1. ASSUME NEW n \in 1..Len(disk.segments), NEW x \in disk.sidecars[n] \union store.sidecars[n],
               x[2] <= lsn
        PROVE  x \in disk.sidecars[n] <=> x \in store.sidecars[n]
    <3>1. n \in 1..Len(disk.sidecars) /\ n \in 1..Len(store.sidecars)
      BY <1>1, <1>2 DEF DiskIsOlder, StoreShape
    <3>2. disk.sidecars[n] \in SUBSET (Nat \X Nat) /\ store.sidecars[n] \in SUBSET (Nat \X Nat)
      BY <1>1, <1>2, <3>1 DEF StoreShape
    <3>3. x[2] \in Nat
      BY <3>2
    <3>4. x[2] <= disk.applied_lsn
      BY <1>2, <1>3, <2>1, <3>3
    <3> QED
      BY <1>1, <3>4 DEF DiskIsOlder
  <2> QED
    BY <1>1, <2>1 DEF DiskIsOlder, Agree
<1>6. count = IF inFiles THEN 1 ELSE 0
  BY <1>1, <1>2, <1>3, <1>5, SegmentCount
<1>7. DiskScan(lsn)[r] = count
  BY DEF DiskScan, RowInSegments
<1> HIDE DEF count
<1>8. inFiles <=> Shown(store, r, lsn)
  <2>1. ASSUME inFiles PROVE Shown(store, r, lsn)
    <3>1. PICK p : InSegments(store, disk.segments, p, r, lsn)
      BY <2>1
    <3>2. PICK n \in 1..Len(disk.segments) : \E i \in DOMAIN RowsOf(store, n) :
              p = <<n, i>> /\ RowsOf(store, n)[i].row = r /\ Visible(store, n, i, lsn)
      BY <3>1 DEF InSegments
    <3>3. n \in 0..Len(store.segments)
      BY <1>4
    <3> QED
      BY <3>2, <3>3 DEF Shown
  <2>2. ASSUME Shown(store, r, lsn) PROVE inFiles
    <3>1. PICK n \in 0..Len(store.segments) : \E i \in DOMAIN RowsOf(store, n) :
              RowsOf(store, n)[i].row = r /\ Visible(store, n, i, lsn)
      BY <2>2 DEF Shown
    <3>2. PICK i \in DOMAIN RowsOf(store, n) :
              RowsOf(store, n)[i].row = r /\ Visible(store, n, i, lsn)
      BY <3>1
    <3>3. RowsOf(store, n)[i].insert_lsn <= lsn /\ RowsOf(store, n)[i].insert_lsn \in Nat
      BY <1>1, <3>2, PlaceTypes DEF Visible
    <3>4. n \in 1..Len(disk.segments)
      <4>1. n \notin 1..Len(disk.segments) => disk.applied_lsn < RowsOf(store, n)[i].insert_lsn
        BY <1>1 DEF DiskIsOlder
      <4> QED
        BY <1>2, <1>3, <3>3, <4>1
    <3>5. InSegments(store, disk.segments, <<n, i>>, r, lsn)
      BY <3>2, <3>4 DEF InSegments
    <3> QED
      BY <3>5
  <2> QED
    BY <2>1, <2>2
<1>9. history[lsn + 1][r] = IF Shown(store, r, lsn) THEN 1 ELSE 0
  BY <1>1, <1>3 DEF ShowsHistory
<1> QED
  BY <1>3, <1>6, <1>7, <1>8, <1>9

\* Each key of the index stands for one row of the source's table.
LEMMA IndexCounts ==
    ASSUME TableInv
    PROVE  Cardinality({r \in Row : image[r] > 0}) = Cardinality(DOMAIN store.index)
<1> DEFINE Indexed(k) == RowsOf(store, store.index[k].seg)[store.index[k].row].row
           f == [k \in DOMAIN store.index |-> Indexed(k)]
           T == {r \in Row : image[r] > 0}
<1>1. /\ StoreShape(store) /\ IndexIsLive(store, image) /\ image \in Table
  BY TableFacts DEF StoreInv
<1>2. \A k \in DOMAIN store.index : Indexed(k) \in Row /\ Indexed(k).key = k
  BY <1>1, PlaceTypes DEF IndexIsLive
<1>3. \A r \in Row : image[r] > 0 <=> r.key \in DOMAIN store.index /\ Indexed(r.key) = r
  BY <1>1 DEF IndexIsLive
<1>4. f \in [DOMAIN store.index -> T]
  BY <1>2, <1>3
<1>5. \A a, b \in DOMAIN store.index : f[a] = f[b] => a = b
  BY <1>2
<1>6. \A r \in T : \E k \in DOMAIN store.index : f[k] = r
  BY <1>3
<1> HIDE DEF f, T
<1>7. f \in Bijection(DOMAIN store.index, T)
  BY <1>4, <1>5, <1>6 DEF Bijection, Injection, Surjection, IsInjective
<1>8. ExistsBijection(DOMAIN store.index, T)
  BY <1>7 DEF ExistsBijection
<1>9. IsFiniteSet(DOMAIN store.index)
  BY <1>1 DEF IndexIsLive
<1>10. Cardinality(T) = Cardinality(DOMAIN store.index)
  BY <1>8, <1>9, FS_Bijection
<1> QED
  BY <1>10 DEF T

LEMMA TablePromises ==
    TableInv => ApplySucceeds /\ TimeTravel /\ HeadIsIndexed /\ DiskTimeTravel
<1> SUFFICES ASSUME TableInv PROVE ApplySucceeds /\ TimeTravel /\ HeadIsIndexed /\ DiskTimeTravel
  OBVIOUS
<1>1. /\ ~error /\ history \in Seq(Table) /\ Lsn = Len(history) /\ Lsn \in Nat
      /\ DOMAIN store.index = {k \in Key : Holds(k)} /\ StoreShape(store)
      /\ IndexIsLive(store, image)
  BY TableFacts DEF StoreInv
<1>2. ASSUME NEW lsn \in 0..(Len(history) - 1)
      PROVE  history[lsn + 1] = [r \in Row |-> history[lsn + 1][r]]
  <2>1. lsn + 1 \in 1..Len(history)
    BY <1>1
  <2>2. history[lsn + 1] \in Table
    BY <1>1, <2>1
  <2> QED
    BY <2>2 DEF Table
<1>3. TimeTravel
  <2> SUFFICES ASSUME NEW lsn \in 0..(Len(history) - 1) PROVE ScanAt(store, lsn) = history[lsn + 1]
    BY <1>1 DEF TimeTravel
  <2>1. \A r \in Row : ScanAt(store, lsn)[r] = history[lsn + 1][r]
    BY ScanIsHistory
  <2>2. ScanAt(store, lsn) = [r \in Row |-> ScanAt(store, lsn)[r]]
    BY DEF ScanAt
  <2> QED
    BY <1>2, <2>1, <2>2
<1>4. DiskTimeTravel
  <2> SUFFICES ASSUME disk.segments # <<>>, NEW lsn \in 0..disk.applied_lsn
               PROVE  DiskScan(lsn) = history[lsn + 1]
    BY DEF DiskTimeTravel
  <2>1. \A r \in Row : DiskScan(lsn)[r] = history[lsn + 1][r]
    BY FilesAreHistory
  <2>2. DiskScan(lsn) = [r \in Row |-> DiskScan(lsn)[r]]
    BY DEF DiskScan
  <2>3. lsn \in 0..(Len(history) - 1)
    <3>1. disk.applied_lsn \in Nat /\ disk.applied_lsn < Len(history)
      BY TableFacts DEF Files
    <3> QED
      BY <1>1, <3>1
  <2> QED
    BY <1>2, <2>1, <2>2, <2>3
<1>5. HeadIsIndexed
  <2>1. store.live_rows = Cardinality({r \in Row : image[r] > 0})
    BY <1>1, IndexCounts DEF IndexIsLive
  <2>2. ASSUME NEW k \in DOMAIN store.index
        PROVE  LET loc == store.index[k] IN
               IF loc.seg = OpenSegment
               THEN store.open[loc.row].row.key = k /\ store.open[loc.row].delete_lsn = NoLsn
               ELSE /\ store.segments[loc.seg].rows[loc.row].row.key = k
                    /\ \A d \in store.sidecars[loc.seg] : d[1] # loc.row
    <3> DEFINE n == store.index[k].seg
               i == store.index[k].row
    <3>1. RowsOf(store, n)[i].row.key = k /\ DeletedAt(store, n, i) = {}
      BY <1>1 DEF IndexIsLive
    <3> HIDE DEF n, i
    <3>2. CASE n = OpenSegment
      <4>1. store.open[i].row.key = k /\ store.open[i].delete_lsn = NoLsn
        BY <3>1, <3>2 DEF RowsOf, DeletedAt
      <4> QED
        BY <3>2, <4>1 DEF n, i
    <3>3. CASE n # OpenSegment
      <4>1. store.segments[n].rows[i].row.key = k /\ \A d \in store.sidecars[n] : d[1] # i
        BY <3>1, <3>3 DEF RowsOf, DeletedAt
      <4> QED
        BY <3>3, <4>1 DEF n, i
    <3> QED
      BY <3>2, <3>3
  <2>3. DOMAIN store.index = {k \in Key : Holds(k)}
    BY <1>1
  <2> QED
    BY <2>1, <2>2, <2>3 DEF HeadIsIndexed
<1> QED
  BY <1>1, <1>3, <1>4, <1>5 DEF ApplySucceeds

\* Below the LSN being applied, each place of the store is visible where the
\* source had its row, and at it where the index finds it: after every insert,
\* update, delete, truncate, flush and file of a finalize (store.rs).
THEOREM StoreInductive == HasKey /\ ShapesSpec => []TableInv
<1>1. HasKey /\ ShapesInit => TableInv
  BY EmptyTable DEF ShapesInit
<1>2. TableInv /\ [ShapesNext]_shapeVars => TableInv'
  BY TableSteps, ShapesSteps
<1> QED
  BY <1>1, <1>2, PTL DEF ShapesSpec

\* "update for unknown key" and "delete for unknown key" (store.rs, apply) are
\* never returned, whatever the source may send for a table with a key.
THEOREM ApplyCorrect == HasKey /\ ShapesSpec => []ApplySucceeds
  BY StoreInductive, TablePromises, PTL

\* scan_at at any applied LSN is the source's table at that LSN.
THEOREM TimeTravelCorrect == HasKey /\ ShapesSpec => []TimeTravel
  BY StoreInductive, TablePromises, PTL

\* visible_rows counts the source's rows, and the key index finds exactly them.
THEOREM IndexCorrect == HasKey /\ ShapesSpec => []HeadIsIndexed
  BY StoreInductive, TablePromises, PTL

\* read_visible_batches over finalize's files, also while a later finalize is
\* replacing them one by one, is the source's table at every LSN they cover.
THEOREM DiskCorrect == HasKey /\ ShapesSpec => []DiskTimeTravel
  BY StoreInductive, TablePromises, PTL

-----------------------------------------------------------------------------
(***************************************************************************)
(* The search index.                                                       *)
(***************************************************************************)
\* Deleting the document of a key no row has.
LEMMA MirrorKeyless ==
    ASSUME NEW view, NEW table, Mirrors(view, table), NEW k,
           \A r \in Row : r.key = k => table[r] = 0
    PROVE  Mirrors(DeleteKey(view, k), table)
<1> DEFINE w == DeleteKey(view, k)
<1>1. view \in [Doc -> Nat] /\ (\A d \in Doc : d.key = k => view[d] = 0)
  BY DEF Mirrors
<1>2. w = view
  BY <1>1 DEF DeleteKey
<1> QED
  BY <1>2

\* Adding the document of a row that is new with its key.
LEMMA MirrorAdds ==
    ASSUME NEW view, NEW table \in Table, Mirrors(view, table), NEW r \in Row,
           \A q \in Row : q.key = r.key => table[q] = 0, NEW text \in {r.val, NoText}
    PROVE  Mirrors(AddDoc(view, r.key, text), [table EXCEPT ![r] = @ + 1])
<1> DEFINE new == [key |-> r.key, text |-> text]
           w == AddDoc(view, r.key, text)
           u == [table EXCEPT ![r] = @ + 1]
<1>1. view \in [Doc -> Nat] /\ table \in [Row -> {0, 1}]
  BY DEF Mirrors, Table
<1>2. new \in Doc /\ new.key = r.key /\ new.text = text /\ r.key \in Key
  BY DEF Doc, Row
<1>3. w \in [Doc -> Nat] /\ w[new] = view[new] + 1 /\ \A d \in Doc : d # new => w[d] = view[d]
  BY <1>1, <1>2 DEF AddDoc
<1>4. u[r] = table[r] + 1 /\ \A q \in Row : q # r => u[q] = table[q]
  BY <1>1
<1>5. \A d \in Doc : d.key = r.key => view[d] = 0
  BY DEF Mirrors
<1> HIDE DEF new, w, u
<1>6. \A p, q \in Row : u[p] > 0 /\ u[q] > 0 /\ p.key = q.key => p = q
  <2> SUFFICES ASSUME NEW p \in Row, NEW q \in Row, u[p] > 0, u[q] > 0, p.key = q.key PROVE p = q
    OBVIOUS
  <2>1. \A x \in Row : x # r /\ u[x] > 0 => table[x] > 0 /\ x.key # r.key
    BY <1>1, <1>4
  <2> QED
    BY <2>1 DEF Mirrors
<1>7. ASSUME NEW q \in Row, u[q] > 0
      PROVE  \E d \in Doc : /\ d.key = q.key /\ d.text \in {q.val, NoText} /\ w[d] = 1
                            /\ \A e \in Doc : e.key = q.key /\ e # d => w[e] = 0
  <2>1. CASE q = r
    BY <1>2, <1>3, <1>5, <2>1
  <2>2. CASE q # r
    <3>1. table[q] > 0 /\ q.key # r.key
      BY <1>1, <1>4, <1>7, <2>2
    <3>2. PICK d \in Doc : /\ d.key = q.key /\ d.text \in {q.val, NoText} /\ view[d] = 1
                           /\ \A e \in Doc : e.key = q.key /\ e # d => view[e] = 0
      BY <3>1 DEF Mirrors
    <3> QED
      BY <1>2, <1>3, <3>1, <3>2
  <2> QED
    BY <2>1, <2>2
<1>8. ASSUME NEW d \in Doc, \A q \in Row : q.key = d.key => u[q] = 0 PROVE w[d] = 0
  <2>1. d # new
    BY <1>1, <1>2, <1>4, <1>8
  <2>2. \A q \in Row : q.key = d.key => table[q] = 0
    BY <1>1, <1>4, <1>8
  <2> QED
    BY <1>3, <2>1, <2>2 DEF Mirrors
<1>9. Mirrors(w, u)
  BY <1>3, <1>6, <1>7, <1>8 DEF Mirrors
<1> QED
  BY <1>9 DEF w, u

\* Deleting the document of a row, and with it every row of its key.
LEMMA MirrorRemoves ==
    ASSUME NEW view, NEW table \in Table, Mirrors(view, table), NEW old \in Row, table[old] > 0
    PROVE  /\ Mirrors(DeleteKey(view, old.key), Minus(table, old))
           /\ \A q \in Row : q.key = old.key => Minus(table, old)[q] = 0
<1> DEFINE w == DeleteKey(view, old.key)
           u == Minus(table, old)
<1>1. view \in [Doc -> Nat] /\ table \in [Row -> {0, 1}]
  BY DEF Mirrors, Table
<1>2. w \in [Doc -> Nat] /\ \A d \in Doc : w[d] = IF d.key = old.key THEN 0 ELSE view[d]
  BY <1>1 DEF DeleteKey
<1>3. u[old] = 0 /\ \A q \in Row : q # old => u[q] = table[q]
  BY <1>1 DEF Minus
<1> HIDE DEF w, u
<1>4. \A q \in Row : q.key = old.key => u[q] = 0
  BY <1>1, <1>3 DEF Mirrors
<1>5. \A q \in Row : u[q] > 0 => table[q] > 0 /\ q.key # old.key
  BY <1>3, <1>4
<1>6. \A p, q \in Row : u[p] > 0 /\ u[q] > 0 /\ p.key = q.key => p = q
  BY <1>5 DEF Mirrors
<1>7. ASSUME NEW q \in Row, u[q] > 0
      PROVE  \E d \in Doc : /\ d.key = q.key /\ d.text \in {q.val, NoText} /\ w[d] = 1
                            /\ \A e \in Doc : e.key = q.key /\ e # d => w[e] = 0
  <2>1. table[q] > 0 /\ q.key # old.key
    BY <1>5, <1>7
  <2>2. PICK d \in Doc : /\ d.key = q.key /\ d.text \in {q.val, NoText} /\ view[d] = 1
                         /\ \A e \in Doc : e.key = q.key /\ e # d => view[e] = 0
    BY <2>1 DEF Mirrors
  <2> QED
    BY <1>2, <2>1, <2>2
<1>8. ASSUME NEW d \in Doc, \A q \in Row : q.key = d.key => u[q] = 0 PROVE w[d] = 0
  <2>1. CASE d.key = old.key
    BY <1>2, <2>1
  <2>2. CASE d.key # old.key
    <3>1. \A q \in Row : q.key = d.key => table[q] = 0
      BY <1>3, <1>8, <2>2
    <3> QED
      BY <1>2, <2>2, <3>1 DEF Mirrors
  <2> QED
    BY <2>1, <2>2
<1>9. Mirrors(w, u)
  BY <1>2, <1>6, <1>7, <1>8 DEF Mirrors
<1> QED
  BY <1>4, <1>9 DEF w, u

\* An index of nothing, of an empty table.
LEMMA MirrorEmpty ==
    ASSUME NEW view, NEW table, view \in [Doc -> {0}], table \in [Row -> {0}]
    PROVE  Mirrors(view, table)
<1>1. \A d \in Doc : view[d] = 0
  OBVIOUS
<1>2. \A r \in Row : table[r] = 0
  OBVIOUS
<1>3. view \in [Doc -> Nat]
  OBVIOUS
<1> QED
  BY <1>1, <1>2, <1>3 DEF Mirrors

\* Each change of the columnar store's table is the index's change too.
LEMMA InsertMirrored ==
    ASSUME SearchInv, NEW r \in Row, ~Holds(r.key), indexed
    PROVE  Mirrors(IndexRow(docs, r.key, r.val), [image EXCEPT ![r] = @ + 1])
<1>1. Mirrors(docs, image) /\ image \in Table
  BY TableFacts DEF SearchInv
<1>2. \A q \in Row : q.key = r.key => image[q] = 0
  BY <1>1 DEF Holds, Table
<1> DEFINE w == DeleteKey(docs, r.key)
<1>3. Mirrors(w, image)
  BY <1>1, <1>2, MirrorKeyless
<1> HIDE DEF w
<1>4. Mirrors(AddDoc(w, r.key, r.val), [image EXCEPT ![r] = @ + 1])
  BY <1>1, <1>2, <1>3, MirrorAdds
<1> QED
  BY <1>4 DEF w, IndexRow

LEMMA DeleteMirrored ==
    ASSUME SearchInv, NEW old \in Row, image[old] > 0, indexed
    PROVE  Mirrors(DeleteKey(docs, old.key), Minus(image, old))
BY MirrorRemoves, TableFacts DEF SearchInv

LEMMA UpdateMirrored ==
    ASSUME SearchInv, NEW old \in Row, image[old] > 0, NEW k \in Key, k = old.key \/ ~Holds(k),
           NEW v \in Val \union {Unchanged}, NEW new \in Row, new.key = k,
           new.val = IF v = Unchanged THEN old.val ELSE v, indexed
    PROVE  Mirrors(ReindexRow(docs, old.key, k, Project(v, Unchanged)),
                   [Minus(image, old) EXCEPT ![new] = @ + 1])
<1> DEFINE w == DeleteKey(docs, old.key)
           less == Minus(image, old)
           text == Project(v, Unchanged)
<1>1. Mirrors(docs, image) /\ image \in Table
  BY TableFacts DEF SearchInv
<1>2. Mirrors(w, less) /\ \A q \in Row : q.key = old.key => less[q] = 0
  BY <1>1, MirrorRemoves
<1>3. less \in Table /\ \A q \in Row : less[q] # 0 => image[q] > 0
  BY <1>1 DEF Minus, Table
<1>4. text \in {new.val, NoText}
  BY DEF Project
<1>5. \A q \in Row : q.key = new.key => less[q] = 0
  BY <1>2, <1>3 DEF Holds
<1> HIDE DEF w, less, text
<1>6. Mirrors(AddDoc(w, new.key, text), [less EXCEPT ![new] = @ + 1])
  BY <1>2, <1>3, <1>4, <1>5, MirrorAdds
<1> QED
  BY <1>6 DEF w, less, text, ReindexRow

\* SearchInv without the columnar store's part.
SearchParts ==
    /\ Lsn > 0 /\ changes = 0 => image = history[Lsn]
    /\ indexed => Mirrors(docs, image)
    /\ writing => indexed /\ Lsn > 0 /\ changes = 0 /\ finalizing = 0 /\ Mirrors(committed, image)
    /\ meta \in Nat \union {NoLsn}
    /\ meta # NoLsn => indexed /\ MirrorsPage(committed, meta)
    /\ query.at \in {"idle", "opened", "answered"} /\ query.lsn \in Nat
    /\ query.at = "opened" => indexed /\ MirrorsPage(committed, query.lsn)
    /\ query.at = "answered" => MirrorsPage(query.docs, query.lsn)

\* What a change does to the table, it does to the index; the rest waits.
LEMMA ChangeMirrored ==
    ASSUME SearchInv, BothShapes, history' = history, Lsn > 0 => changes' # 0,
           indexed => Mirrors(docs', image')
    PROVE  SearchParts'
<1>1. /\ ~writing /\ committed' = committed /\ meta' = meta /\ indexed' = indexed
      /\ writing' = writing /\ query' = query
  BY DEF BothShapes
<1>2. \A view, from : MirrorsPage(view, from)' <=> MirrorsPage(view, from)
  BY DEF MirrorsPage, Lsn
<1>3. Lsn' = Lsn
  BY DEF Lsn
<1> QED
  BY <1>1, <1>2, <1>3 DEF SearchInv, SearchParts

\* A page of history stays one when the next is written.
LEMMA PagesStay ==
    ASSUME Lsn \in Nat, Lsn' \in Nat, Lsn <= Lsn', \A n \in 1..Lsn : history'[n] = history[n],
           NEW view, NEW from \in Nat, MirrorsPage(view, from)
    PROVE  \E lsn \in from..(Lsn' - 1) : Mirrors(view, history'[lsn + 1])
<1>1. PICK lsn \in from..(Lsn - 1) : Mirrors(view, history[lsn + 1])
  BY DEF MirrorsPage
<1>2. lsn \in from..(Lsn' - 1) /\ lsn + 1 \in 1..Lsn
  OBVIOUS
<1> QED
  BY <1>1, <1>2

LEMMA SearchChange ==
    ASSUME SearchInv, SearchInv => TableInv',
           \/ \E r \in Row : Backfill(r) \/ Insert(r) \/ Delete(r)
           \/ \E r \in Row, k \in Key, v \in Val \union {Unchanged}, with_old \in BOOLEAN :
                Update(r, k, v, with_old)
           \/ Truncate
    PROVE  SearchParts'
<1>1. TableInv /\ TableInv' /\ HasKey /\ ~error' /\ changes \in Nat /\ Lsn \in Nat /\ image \in Table
  BY TableFacts DEF SearchInv, TableInv
<1>2. ASSUME NEW r \in Row, Backfill(r) \/ Insert(r) PROVE SearchParts'
  <2>1. /\ BothShapes /\ history' = history /\ (Lsn > 0 => changes' # 0) /\ ~Holds(r.key)
        /\ image' = [image EXCEPT ![r] = @ + 1]
        /\ docs' = IF indexed THEN IndexRow(docs, r.key, r.val) ELSE docs
    BY <1>1, <1>2 DEF Backfill, Insert, LoadCopyRow, ApplyInsert, Streaming, Ready, Reindex
  <2>2. indexed => Mirrors(docs', image')
    BY <2>1, InsertMirrored
  <2> QED
    BY <2>1, <2>2, ChangeMirrored
<1>3. ASSUME NEW r \in Row, Delete(r) PROVE SearchParts'
  <2>1. /\ BothShapes /\ history' = history /\ (Lsn > 0 => changes' # 0) /\ image[r] > 0
        /\ image' = Minus(image, r)
        /\ docs' = IF indexed THEN DeleteKey(docs, r.key) ELSE docs
    BY <1>1, <1>3 DEF Delete, ApplyDelete, Streaming, Ready, Reindex, Minus
  <2>2. indexed => Mirrors(docs', image')
    BY <2>1, DeleteMirrored
  <2> QED
    BY <2>1, <2>2, ChangeMirrored
<1>4. ASSUME NEW r \in Row, NEW k \in Key, NEW v \in Val \union {Unchanged},
             NEW with_old \in BOOLEAN, Update(r, k, v, with_old)
      PROVE  SearchParts'
  <2> DEFINE new == [key |-> k, val |-> IF v = Unchanged THEN r.val ELSE v]
  <2>1. /\ BothShapes /\ history' = history /\ (Lsn > 0 => changes' # 0) /\ image[r] > 0
        /\ k = r.key \/ ~Holds(k)
        /\ OldKey(r, k, with_old) = r.key
        /\ image' = [Minus(image, r) EXCEPT ![new] = @ + 1]
    BY <1>1, <1>4 DEF Update, ApplyUpdate, Streaming, Ready, Minus, OldKey
  <2>2. docs' = IF indexed THEN ReindexRow(docs, r.key, k, Project(v, Unchanged)) ELSE docs
    BY <1>1, <1>4, <2>1 DEF Update, Reindex
  <2>3. new \in Row /\ new.key = k /\ new.val = IF v = Unchanged THEN r.val ELSE v
    BY DEF Row
  <2> HIDE DEF new
  <2>4. indexed => Mirrors(docs', image')
    BY <2>1, <2>2, <2>3, UpdateMirrored
  <2> QED
    BY <2>1, <2>4, ChangeMirrored
<1>5. ASSUME Truncate PROVE SearchParts'
  <2>1. /\ BothShapes /\ history' = history /\ (Lsn > 0 => changes' # 0)
        /\ image' = [r \in Row |-> 0]
        /\ docs' = IF indexed THEN DeleteAll(docs) ELSE docs
    BY <1>1, <1>5 DEF Truncate, ApplyTruncate, Streaming, Ready, Reindex
  <2>2. ASSUME indexed PROVE Mirrors(docs', image')
    <3>1. docs \in [Doc -> Nat]
      BY <2>2 DEF SearchInv, Mirrors
    <3>2. docs' \in [Doc -> {0}] /\ image' \in [Row -> {0}]
      BY <2>1, <2>2, <3>1 DEF DeleteAll
    <3> QED
      BY <3>2, MirrorEmpty
  <2> QED
    BY <2>1, <2>2, ChangeMirrored
<1> QED
  BY <1>2, <1>3, <1>4, <1>5

LEMMA SearchBoundary ==
    ASSUME SearchInv, EndOfTransaction \/ EndBackfill PROVE SearchParts'
<1>1. /\ changes \in Nat /\ Lsn \in Nat /\ history \in Seq(Table) /\ Lsn = Len(history)
  BY TableFacts DEF SearchInv
<1>2. /\ docs' = docs /\ committed' = committed /\ meta' = meta /\ indexed' = indexed
      /\ writing' = writing /\ query' = query /\ image' = image
  BY DEF EndOfTransaction, EndBackfill, searchVars, EndTransaction, FinalizeStart, WriteSidecar,
     WriteManifest
<1>3. history' = history \/ history' = Append(history, image)
  <2>1. CASE EndOfTransaction
    BY <2>1 DEF EndOfTransaction, EndTransaction
  <2>2. CASE FinalizeStart
    <3>1. Lsn = 0 => history = <<>>
      BY <1>1, EmptySeq
    <3>2. Lsn = 0 => Append(history, image) = <<image>>
      BY <3>1
    <3> QED
      BY <2>2, <3>2 DEF FinalizeStart
  <2>3. CASE WriteSidecar \/ WriteManifest
    BY <2>3 DEF WriteSidecar, WriteManifest
  <2> QED
    BY <2>1, <2>2, <2>3 DEF EndBackfill
<1>4. Lsn' \in Nat /\ Lsn <= Lsn' /\ \A n \in 1..Lsn : history'[n] = history[n]
  <2>1. Lsn' = Len(history')
    BY DEF Lsn
  <2>2. CASE history' = history
    BY <1>1, <2>1, <2>2
  <2>3. CASE history' = Append(history, image)
    BY <1>1, <2>1, <2>3
  <2> QED
    BY <1>3, <2>2, <2>3
<1>5. ASSUME NEW view, NEW from \in Nat, MirrorsPage(view, from)
      PROVE  \E lsn \in from..(Lsn' - 1) : Mirrors(view, history'[lsn + 1])
  BY <1>1, <1>4, <1>5, PagesStay
<1>6. Lsn' > 0 /\ changes' = 0 => image' = history'[Lsn']
  <2>1. Lsn' = Len(history')
    BY DEF Lsn
  <2>2. CASE history' = Append(history, image)
    BY <1>1, <1>2, <2>1, <2>2
  <2>3. CASE history' = history /\ changes' = 0
    <3>1. CASE changes = 0
      BY <1>1, <1>2, <2>1, <2>3, <3>1 DEF SearchInv
    <3>2. CASE changes # 0
      <4>1. ~ EndOfTransaction
        <5> SUFFICES ASSUME EndOfTransaction PROVE FALSE
          OBVIOUS
        <5>1. history' = Append(history, image)
          BY DEF EndOfTransaction, EndTransaction
        <5>2. Len(history') = Len(history) + 1
          BY <1>1, <5>1
        <5> QED
          BY <1>1, <2>3, <5>2
      <4> QED
        BY <2>3, <3>2, <4>1 DEF EndBackfill, FinalizeStart, WriteSidecar, WriteManifest
    <3> QED
      BY <3>1, <3>2
  <2> QED
    BY <1>3, <2>2, <2>3
<1>7. writing' => indexed' /\ Lsn' > 0 /\ changes' = 0 /\ finalizing' = 0 /\ Mirrors(committed', image')
  <2> SUFFICES ASSUME writing PROVE Lsn' > 0 /\ changes' = 0 /\ finalizing' = 0
    BY <1>2 DEF SearchInv
  <2>1. indexed /\ Lsn > 0 /\ changes = 0 /\ finalizing = 0
    BY DEF SearchInv
  <2> QED
    BY <1>1, <1>4, <2>1 DEF EndOfTransaction, EndTransaction, EndBackfill, FinalizeStart, WriteSidecar,
       WriteManifest
<1>8. meta \in Nat \union {NoLsn} /\ query.lsn \in Nat
  BY DEF SearchInv
<1> QED
  BY <1>2, <1>5, <1>6, <1>7, <1>8 DEF SearchInv, SearchParts, MirrorsPage

LEMMA SearchCommits ==
    ASSUME SearchInv, CommitBatch \/ WriteMeta PROVE SearchParts'
<1>1. /\ changes \in Nat /\ Lsn \in Nat /\ store.applied_lsn \in Nat /\ SearchParts
      /\ (changes = 0 /\ Lsn > 0 => store.applied_lsn = Lsn - 1)
  BY TableFacts DEF SearchInv, SearchParts, TableInv, Boundaries
<1>2. /\ docs' = docs /\ indexed' = indexed /\ query' = query /\ image' = image
      /\ history' = history /\ changes' = changes /\ finalizing' = finalizing /\ Lsn' = Lsn
  BY DEF CommitBatch, WriteMeta, storeVars, Lsn
<1>3. CASE CommitBatch
  <2>1. /\ indexed /\ changes = 0 /\ Lsn > 0 /\ finalizing = 0 /\ committed' = docs
        /\ writing' = TRUE /\ meta' = meta /\ image = history[Lsn] /\ Mirrors(docs, image)
    BY <1>1, <1>3 DEF CommitBatch, SearchParts
  <2>2. \A from \in Nat : from <= Lsn - 1 => MirrorsPage(docs, from)
    <3> SUFFICES ASSUME NEW from \in Nat, from <= Lsn - 1 PROVE MirrorsPage(docs, from)
      OBVIOUS
    <3>1. Lsn - 1 \in from..(Lsn - 1) /\ (Lsn - 1) + 1 = Lsn
      BY <1>1, <2>1
    <3>2. Mirrors(docs, history[(Lsn - 1) + 1])
      BY <2>1, <3>1
    <3> QED
      BY <3>1, <3>2 DEF MirrorsPage
  <2>3. \A from \in Nat : MirrorsPage(committed, from) => from <= Lsn - 1
    BY <1>1 DEF MirrorsPage
  <2>4. \A view, from : MirrorsPage(view, from) <=>
            \E lsn \in from..(Lsn' - 1) : Mirrors(view, history'[lsn + 1])
    BY <1>2 DEF MirrorsPage
  <2>5. meta # NoLsn => MirrorsPage(docs, meta)
    BY <1>1, <2>2, <2>3 DEF SearchParts
  <2>6. query.at = "opened" => MirrorsPage(docs, query.lsn)
    BY <1>1, <2>2, <2>3 DEF SearchParts
  <2> QED
    BY <1>1, <1>2, <2>1, <2>4, <2>5, <2>6 DEF SearchParts, MirrorsPage
<1>4. CASE WriteMeta
  <2>1. /\ writing /\ meta' = store.applied_lsn /\ writing' = FALSE /\ committed' = committed
    BY <1>4 DEF WriteMeta
  <2>2. /\ indexed /\ Lsn > 0 /\ changes = 0 /\ Mirrors(committed, image) /\ image = history[Lsn]
        /\ store.applied_lsn = Lsn - 1
    BY <1>1, <2>1 DEF SearchParts
  <2>3. MirrorsPage(committed, store.applied_lsn)
    <3>1. Lsn - 1 \in store.applied_lsn..(Lsn - 1) /\ (Lsn - 1) + 1 = Lsn
      BY <1>1, <2>2
    <3>2. Mirrors(committed, history[(Lsn - 1) + 1])
      BY <2>2, <3>1
    <3> QED
      BY <3>1, <3>2 DEF MirrorsPage
  <2>4. \A view, from : MirrorsPage(view, from) <=>
            \E lsn \in from..(Lsn' - 1) : Mirrors(view, history'[lsn + 1])
    BY <1>2 DEF MirrorsPage
  <2> QED
    BY <1>1, <1>2, <2>1, <2>2, <2>3, <2>4 DEF SearchParts, MirrorsPage
<1> QED
  BY <1>3, <1>4

LEMMA SearchReads ==
    ASSUME SearchInv, OpenSearch \/ Search PROVE SearchParts'
<1>1. SearchParts
  BY DEF SearchInv, SearchParts
<1>2. /\ docs' = docs /\ indexed' = indexed /\ committed' = committed /\ meta' = meta /\ writing' = writing
      /\ image' = image /\ history' = history /\ changes' = changes /\ finalizing' = finalizing
      /\ Lsn' = Lsn
  BY DEF OpenSearch, Search, storeVars, Lsn
<1>3. CASE OpenSearch
  <2>1. meta # NoLsn /\ query'.at = "opened" /\ query'.lsn = meta
    BY <1>3 DEF OpenSearch, NoQuery
  <2> QED
    BY <1>1, <1>2, <2>1 DEF SearchParts, MirrorsPage
<1>4. CASE Search
  <2>1. query.at = "opened" /\ query' = [query EXCEPT !.at = "answered", !.docs = committed]
    BY <1>4 DEF Search
  <2> QED
    BY <1>1, <1>2, <2>1 DEF SearchParts, MirrorsPage
<1> QED
  BY <1>3, <1>4

LEMMA SearchSteps ==
    SearchInv /\ [ShapesNext]_shapeVars => SearchInv'
<1> SUFFICES ASSUME SearchInv, [ShapesNext]_shapeVars PROVE SearchInv'
  OBVIOUS
<1>1. TableInv'
  BY TableSteps, ShapesSteps DEF SearchInv
<1>2. SearchParts'
  <2>1. CASE UNCHANGED shapeVars
    BY <2>1 DEF shapeVars, storeVars, searchVars, SearchInv, SearchParts, MirrorsPage, Lsn
  <2>2. CASE ShapesNext
    BY <1>1, <2>2, SearchChange, SearchBoundary, SearchCommits, SearchReads DEF ShapesNext
  <2> QED
    BY <2>1, <2>2
<1> QED
  BY <1>1, <1>2 DEF SearchInv, SearchParts

LEMMA SearchStart ==
    HasKey /\ ShapesInit => SearchInv
<1> SUFFICES ASSUME HasKey, ShapesInit PROVE SearchInv
  OBVIOUS
<1>1. TableInv /\ Lsn = 0
  BY EmptyTable DEF ShapesInit, Init, Lsn
<1>2. docs \in [Doc -> {0}] /\ image \in [Row -> {0}]
  BY DEF ShapesInit, Init
<1>3. Mirrors(docs, image)
  BY <1>2, MirrorEmpty
<1>4. query.at = "idle" /\ query.lsn = 0 /\ meta = NoLsn /\ writing = FALSE
  BY DEF ShapesInit, NoQuery
<1> QED
  BY <1>1, <1>3, <1>4 DEF SearchInv

\* What mirrors a table answers as the table.
LEMMA MirrorAnswers ==
    ASSUME NEW view, NEW table \in Table, Mirrors(view, table), NEW k \in Key
    PROVE  LET rows == {r \in Row : r.key = k /\ table[r] > 0} IN
           /\ Cardinality(Copies(k, view)) = Cardinality(rows)
           /\ \A d \in Copies(k, view) :
                view[d] = 1 /\ \A r \in rows : d.text \in {r.val, NoText}
<1> DEFINE rows == {r \in Row : r.key = k /\ table[r] > 0}
           C == Copies(k, view)
<1>1. view \in [Doc -> Nat] /\ table \in [Row -> {0, 1}]
  BY DEF Mirrors, Table
<1>2. C = {d \in Doc : d.key = k /\ view[d] > 0}
  BY DEF Copies
<1>3. CASE rows = {}
  <2>1. \A r \in Row : r.key = k => table[r] = 0
    BY <1>1, <1>3
  <2>2. C = {}
    BY <1>2, <2>1 DEF Mirrors
  <2> QED
    BY <1>3, <2>2
<1>4. CASE rows # {}
  <2>1. PICK r \in Row : r.key = k /\ table[r] > 0
    BY <1>4
  <2>2. rows = {r}
    BY <2>1 DEF Mirrors
  <2>3. PICK d \in Doc : /\ d.key = k /\ d.text \in {r.val, NoText} /\ view[d] = 1
                         /\ \A e \in Doc : e.key = k /\ e # d => view[e] = 0
    BY <2>1 DEF Mirrors
  <2>4. C = {d}
    BY <1>2, <2>3
  <2> HIDE DEF rows, C
  <2>5. Cardinality(C) = 1 /\ Cardinality(rows) = 1
    BY <2>2, <2>4, FS_Singleton
  <2>6. view[d] = 1 /\ \A q \in rows : d.text \in {q.val, NoText}
    BY <2>2, <2>3
  <2> QED
    BY <2>4, <2>5, <2>6 DEF rows, C
<1> QED
  BY <1>3, <1>4

LEMMA SearchPromise ==
    SearchInv => SearchAtBoundary
<1> SUFFICES ASSUME SearchInv, query.at = "answered" PROVE SearchAtBoundary
  BY DEF SearchAtBoundary
<1>1. PICK lsn \in query.lsn..(Lsn - 1) : Mirrors(query.docs, history[lsn + 1])
  BY DEF SearchInv, MirrorsPage
<1>2. history[lsn + 1] \in Table
  <2>1. Lsn \in Nat /\ Lsn = Len(history) /\ history \in Seq(Table) /\ query.lsn \in Nat
    BY TableFacts DEF SearchInv
  <2>2. lsn + 1 \in 1..Len(history)
    BY <2>1
  <2> QED
    BY <2>1, <2>2
<1>3. \A k \in Key :
         LET rows == {r \in Row : r.key = k /\ history[lsn + 1][r] > 0} IN
         /\ Cardinality(Copies(k, query.docs)) = Cardinality(rows)
         /\ \A d \in Copies(k, query.docs) :
              query.docs[d] = 1 /\ \A r \in rows : d.text \in {r.val, NoText}
  BY <1>1, <1>2, MirrorAnswers
<1> QED
  BY <1>3 DEF SearchAtBoundary

\* Through every insert, update, delete and truncate the index holds one document
\* for each row, and what is committed and what a search has read is one page of
\* the source's history (graydb-search lib.rs, apply and commit_batch).
THEOREM SearchInductive == HasKey /\ ShapesSpec => []SearchInv
<1>1. HasKey /\ ShapesInit => SearchInv
  BY SearchStart
<1>2. SearchInv /\ [ShapesNext]_shapeVars => SearchInv'
  BY SearchSteps
<1> QED
  BY <1>1, <1>2, PTL DEF ShapesSpec

\* A search answers the table at one commit, not before the LSN it reports,
\* although it reads the metadata and the index at two moments without a lock.
THEOREM SearchCorrect == HasKey /\ ShapesSpec => []SearchAtBoundary
  BY SearchInductive, SearchPromise, PTL
=============================================================================
