----------------------------- MODULE TableStore -----------------------------
(***************************************************************************)
(* graydb-columnar's TableStore: one table as immutable segments, delete   *)
(* sidecars and an open (unflushed) tail, with a key index into them and   *)
(* visibility by LSN.  An update marks the old row deleted and inserts the *)
(* new one; nothing is changed in place, so that every earlier LSN stays   *)
(* readable.                                                               *)
(*                                                                         *)
(* A row is a key and a value; LSNs count from the backfill's LSN0 = 0, one *)
(* per transaction.  Segments and rows are numbered from 1, and segment 0  *)
(* is OPEN_SEGMENT.  The source's table is kept beside the store, as what  *)
(* the store has to show.                                                  *)
(***************************************************************************)
EXTENDS Integers, Sequences, FiniteSetsExt

CONSTANTS
    Key, Val,
    Unchanged,   \* TupleValue::UnchangedToast
    Identity,    \* "key": primary key or replica identity index, "none": append-only
    FlushRows,   \* flush_rows
    NoLsn,       \* delete_lsn = None
    MaxLsn,      \* bound: transactions after the backfill
    MaxChanges   \* bound: rows loaded and changes applied

ASSUME IdentityAssumption == Identity \in {"key", "none"}
ASSUME FlushRowsAssumption == FlushRows \in Nat \ {0}
ASSUME SentinelAssumption == Unchanged \notin Val /\ NoLsn \notin Nat

VARIABLES
    store,     \* the TableStore: [open, segments, sidecars, index, live_rows, applied_lsn]
    disk,      \* finalize's files: [sidecars, segments, applied_lsn]
    finalizing,\* sidecars still to be written + 1 by a running finalize, or 0
    image,     \* the source's table: how many copies of each row it holds
    history,   \* its image at LSN 0, 1, ...
    changes,   \* changes applied of the transaction being applied
    total,     \* rows loaded and changes applied so far
    error      \* apply has returned an error

storeVars == <<store, disk, finalizing, image, history, changes, total, error>>

Row == [key : Key, val : Val]

OpenSegment == 0

HasKey == Identity = "key"

EmptyStore ==
    [open |-> <<>>, segments |-> <<>>, sidecars |-> <<>>, index |-> [k \in {} |-> 0],
     live_rows |-> 0, applied_lsn |-> 0]

-----------------------------------------------------------------------------
(***************************************************************************)
(* The store's methods.                                                    *)
(***************************************************************************)
InsertRow(s, r, lsn) ==
    LET loc == [seg |-> OpenSegment, row |-> Len(s.open) + 1] IN
    [s EXCEPT !.open = Append(@, [row |-> r, insert_lsn |-> lsn, delete_lsn |-> NoLsn]),
              !.index = IF HasKey
                        THEN [k \in DOMAIN s.index \union {r.key} |->
                                IF k = r.key THEN loc ELSE s.index[k]]
                        ELSE s.index,
              !.live_rows = @ + 1]

MarkDeleted(s, loc, lsn) ==
    LET t == [s EXCEPT !.live_rows = IF @ > 0 THEN @ - 1 ELSE 0] IN
    IF loc.seg = OpenSegment
    THEN [t EXCEPT !.open[loc.row].delete_lsn = lsn]
    ELSE [t EXCEPT !.sidecars[loc.seg] = @ \union {<<loc.row, lsn>>}]

Unindex(s, k) ==
    [s EXCEPT !.index = [j \in DOMAIN s.index \ {k} |-> s.index[j]]]

FetchValue(s, loc) ==
    IF loc.seg = OpenSegment
    THEN s.open[loc.row].row.val
    ELSE s.segments[loc.seg].rows[loc.row].row.val

\* Mutant of OpenDeletes: forgotten at the flush.
ForgottenDeletes(s) == {}

\* The deletes seen while the rows were open.
OpenDeletes(s) ==
    {<<i, s.open[i].delete_lsn>> : i \in {i \in DOMAIN s.open : s.open[i].delete_lsn # NoLsn}}

\* flush: the open rows become the next segment, their deletes its sidecar,
\* and the index follows the rows that are still live.
Flush(s) ==
    LET id     == Len(s.segments) + 1
        lsns   == {s.open[i].insert_lsn : i \in DOMAIN s.open}
        live   == {i \in DOMAIN s.open : s.open[i].delete_lsn = NoLsn}
        at(k)  == {i \in live : s.open[i].row.key = k}
        moved  == {s.open[i].row.key : i \in live}
    IN  IF s.open = <<>> THEN s
        ELSE [s EXCEPT
               !.open = <<>>,
               !.segments = Append(@,
                   [rows |-> [i \in DOMAIN s.open |->
                                [row |-> s.open[i].row, insert_lsn |-> s.open[i].insert_lsn]],
                    lsn_min |-> Min(lsns), lsn_max |-> Max(lsns)]),
               !.sidecars = Append(@, OpenDeletes(s)),
               !.index = IF HasKey
                         THEN [k \in DOMAIN s.index \union moved |->
                                 IF k \in moved THEN [seg |-> id, row |-> Max(at(k))]
                                 ELSE s.index[k]]
                         ELSE s.index]

\* The end of apply: the applied position moves, and a full tail is flushed.
Applied(s, lsn) ==
    LET t == [s EXCEPT !.applied_lsn = Max({@, lsn})] IN
    IF Len(t.open) >= FlushRows THEN Flush(t) ELSE t

\* tuple_to_values: an unchanged TOAST column is taken from the prior version.
ToValues(s, k, v, loc) ==
    [key |-> k, val |-> IF v = Unchanged THEN FetchValue(s, loc) ELSE v]

\* Mutant of UpdateRow: the old key stays in the index.
UpdateKeepsOldKey(s, old_key, k, v, lsn) ==
    LET loc == s.index[old_key] IN
    InsertRow(MarkDeleted(s, loc, lsn), ToValues(s, k, v, loc), lsn)

UpdateRow(s, old_key, k, v, lsn) ==
    LET loc == s.index[old_key] IN
    InsertRow(Unindex(MarkDeleted(s, loc, lsn), old_key), ToValues(s, k, v, loc), lsn)

DeleteRow(s, k, lsn) == MarkDeleted(Unindex(s, k), s.index[k], lsn)

\* Every place of the index is marked, and the index is empty.
TruncateRows(s, lsn) ==
    LET locs == {s.index[k] : k \in DOMAIN s.index}
        rows == Cardinality(DOMAIN s.index)
    IN  [s EXCEPT
          !.open = [i \in DOMAIN s.open |->
                       IF [seg |-> OpenSegment, row |-> i] \in locs
                       THEN [s.open[i] EXCEPT !.delete_lsn = lsn] ELSE s.open[i]],
          !.sidecars = [n \in DOMAIN s.sidecars |->
                           s.sidecars[n] \union {<<loc.row, lsn>> : loc \in {m \in locs : m.seg = n}}],
          !.live_rows = IF @ > rows THEN @ - rows ELSE 0,
          !.index = [k \in {} |-> 0]]

-----------------------------------------------------------------------------
(***************************************************************************)
(* What a reader sees at an LSN: scan_at over the store, which is also what *)
(* segments_snapshot and open_rows_batch hand to the query's scan, and      *)
(* read_visible_batches over finalize's files.  A scan is the number of    *)
(* copies of each row.                                                     *)
(***************************************************************************)
\* A segment without a sidecar has no deletes.
Deletes(sidecars, n) == IF n \in DOMAIN sidecars THEN sidecars[n] ELSE {}

SegmentVisible(segments, sidecars, lsn) ==
    UNION {{<<n, i>> : i \in {i \in DOMAIN segments[n].rows :
                /\ segments[n].rows[i].insert_lsn <= lsn
                /\ ~ \E d \in Deletes(sidecars, n) : d[1] = i /\ d[2] <= lsn}} :
           n \in {n \in DOMAIN segments : segments[n].lsn_min <= lsn}}

OpenVisible(s, lsn) ==
    {i \in DOMAIN s.open :
        /\ s.open[i].insert_lsn <= lsn
        /\ ~ (s.open[i].delete_lsn # NoLsn /\ s.open[i].delete_lsn <= lsn)}

ScanAt(s, lsn) ==
    [r \in Row |->
        Cardinality({p \in SegmentVisible(s.segments, s.sidecars, lsn) :
                        s.segments[p[1]].rows[p[2]].row = r})
        + Cardinality({i \in OpenVisible(s, lsn) : s.open[i].row = r})]

DiskScan(lsn) ==
    [r \in Row |->
        Cardinality({p \in SegmentVisible(disk.segments, disk.sidecars, lsn) :
                        disk.segments[p[1]].rows[p[2]].row = r})]

-----------------------------------------------------------------------------
\* The LSN of what is being loaded or applied.
Lsn == Len(history)

Init ==
    /\ store = EmptyStore
    /\ disk = [sidecars |-> <<>>, segments |-> <<>>, applied_lsn |-> 0]
    /\ finalizing = 0
    /\ image = [r \in Row |-> 0]
    /\ history = <<>>
    /\ changes = 0
    /\ total = 0
    /\ error = FALSE

Holds(k) == \E r \in Row : r.key = k /\ image[r] > 0

\* The store is borrowed for the whole of load_copy_part, apply and finalize.
Ready ==
    /\ finalizing = 0
    /\ ~error
    /\ total < MaxChanges
    /\ total' = total + 1
    /\ UNCHANGED <<disk, finalizing, history>>

Streaming == Ready /\ Lsn \in 1..MaxLsn /\ changes' = changes + 1

\* load_copy_part, row by row, at LSN0.
LoadCopyRow(r) ==
    /\ Ready
    /\ Lsn = 0
    /\ HasKey => ~Holds(r.key)
    /\ store' = InsertRow(store, r, 0)
    /\ image' = [image EXCEPT ![r] = @ + 1]
    /\ UNCHANGED <<changes, error>>

ApplyInsert(r) ==
    /\ Streaming
    /\ HasKey => ~Holds(r.key)
    /\ store' = Applied(InsertRow(store, r, Lsn), Lsn)
    /\ image' = [image EXCEPT ![r] = @ + 1]
    /\ UNCHANGED error

\* Mutant of OldKey: the old image is not looked at.
OldKeyIsNewKey(old, k, with_old) == k

\* Which key the prior version is looked up by: the old image's, if there is one.
OldKey(old, k, with_old) == IF with_old THEN old.key ELSE k

\* PostgreSQL sends an old image when the key changes, and refuses updates and
\* deletes of a published table that has no replica identity.
ApplyUpdate(old, k, v, with_old) ==
    LET new     == [key |-> k, val |-> IF v = Unchanged THEN old.val ELSE v]
        old_key == OldKey(old, k, with_old)
    IN  /\ Streaming
        /\ HasKey
        /\ image[old] > 0
        /\ k = old.key \/ ~Holds(k)
        /\ k # old.key => with_old
        /\ image' = [[image EXCEPT ![old] = @ - 1] EXCEPT ![new] = @ + 1]
        /\ IF old_key \in DOMAIN store.index
           THEN /\ store' = Applied(UpdateRow(store, old_key, k, v, Lsn), Lsn)
                /\ UNCHANGED error
           ELSE error' = TRUE /\ UNCHANGED store

ApplyDelete(old) ==
    /\ Streaming
    /\ HasKey
    /\ image[old] > 0
    /\ image' = [image EXCEPT ![old] = @ - 1]
    /\ IF old.key \in DOMAIN store.index
       THEN /\ store' = Applied(DeleteRow(store, old.key, Lsn), Lsn)
            /\ UNCHANGED error
       ELSE error' = TRUE /\ UNCHANGED store

ApplyTruncate ==
    /\ Streaming
    /\ store' = Applied(TruncateRows(store, Lsn), Lsn)
    /\ image' = [r \in Row |-> 0]
    /\ UNCHANGED error

\* The transaction's last change has been applied.
EndTransaction ==
    /\ changes > 0
    /\ ~error
    /\ history' = Append(history, image)
    /\ changes' = 0
    /\ UNCHANGED <<store, disk, finalizing, image, total, error>>

(***************************************************************************)
(* finalize, between transactions: flush, write the sidecars one by one,   *)
(* and then the manifest.  A reader of the directory can look, and the     *)
(* process can die, between any two of the files.  The backfill ends with  *)
(* one.                                                                    *)
(***************************************************************************)
FinalizeStart ==
    /\ finalizing = 0
    /\ ~error
    /\ changes = 0
    /\ history' = IF Lsn = 0 THEN <<image>> ELSE history
    /\ store' = Flush(store)
    /\ finalizing' = Len(Flush(store).segments) + 1
    /\ UNCHANGED <<disk, image, changes, total, error>>

WriteSidecar ==
    /\ finalizing > 1
    /\ LET id == Len(store.segments) + 2 - finalizing IN
       disk' = [disk EXCEPT !.sidecars =
                   IF id > Len(@) THEN Append(@, store.sidecars[id])
                   ELSE [@ EXCEPT ![id] = store.sidecars[id]]]
    /\ finalizing' = finalizing - 1
    /\ UNCHANGED <<store, image, history, changes, total, error>>

\* Mutant of WriteManifest: the manifest does not wait for the sidecars.
ManifestAnyTime ==
    /\ finalizing > 0
    /\ disk' = [disk EXCEPT !.segments = store.segments,
                            !.applied_lsn = store.applied_lsn]
    /\ finalizing' = IF finalizing = 1 THEN 0 ELSE finalizing
    /\ UNCHANGED <<store, image, history, changes, total, error>>

WriteManifest ==
    /\ finalizing = 1
    /\ disk' = [disk EXCEPT !.segments = store.segments,
                            !.applied_lsn = store.applied_lsn]
    /\ finalizing' = 0
    /\ UNCHANGED <<store, image, history, changes, total, error>>

Next ==
    \/ \E r \in Row : LoadCopyRow(r) \/ ApplyInsert(r) \/ ApplyDelete(r)
    \/ \E r \in Row, k \in Key, v \in Val \union {Unchanged}, with_old \in BOOLEAN :
         ApplyUpdate(r, k, v, with_old)
    \/ ApplyTruncate
    \/ EndTransaction
    \/ FinalizeStart
    \/ WriteSidecar
    \/ WriteManifest

Spec == Init /\ [][Next]_storeVars

-----------------------------------------------------------------------------
(***************************************************************************)
(* Properties.                                                             *)
(***************************************************************************)

\* Time travel (lib.rs 2, store.rs 3-4): at every LSN whose transaction has been
\* applied, a scan returns the table the source had at that LSN, every row as
\* often as the source held it, whatever later transactions (also one half
\* applied) have marked, moved or flushed since.
TimeTravel == \A lsn \in 0..(Lsn - 1) : ScanAt(store, lsn) = history[lsn + 1]

\* visible_rows is the size of the source's table, and the index finds exactly
\* its rows: each key at a place that holds it and that no one has deleted.
HeadIsIndexed ==
    HasKey => /\ store.live_rows = Cardinality({r \in Row : image[r] > 0})
              /\ DOMAIN store.index = {k \in Key : Holds(k)}
              /\ \A k \in DOMAIN store.index :
                   LET loc == store.index[k] IN
                   IF loc.seg = OpenSegment
                   THEN /\ store.open[loc.row].row.key = k
                        /\ store.open[loc.row].delete_lsn = NoLsn
                   ELSE /\ store.segments[loc.seg].rows[loc.row].row.key = k
                        /\ \A d \in store.sidecars[loc.seg] : d[1] # loc.row

\* "update for unknown key (invariant breach)" and "delete for unknown key"
\* never come up: what the source may send for a keyed table, apply can apply.
ApplySucceeds == ~error

\* A reader that has nothing but the directory (reader.rs 1-4) sees the
\* source's table at every LSN up to the manifest's, at every moment: also
\* while finalize is replacing sidecars under the old manifest.
DiskTimeTravel ==
    disk.segments # <<>> =>
        \A lsn \in 0..disk.applied_lsn : DiskScan(lsn) = history[lsn + 1]

-----------------------------------------------------------------------------
(***************************************************************************)
(* Why they hold, for a keyed table.  A place is a segment, 0 being the    *)
(* open rows, and a row of it.  Below the LSN being applied a reader sees  *)
(* at most one place of each row, and exactly the rows of history; at it,  *)
(* the places nothing has deleted are the ones in the index.  Nothing that *)
(* is done at an LSN is visible below it, and a flush only renames places. *)
(***************************************************************************)
OpenRow == [row : Row, insert_lsn : Nat, delete_lsn : Nat \union {NoLsn}]

Segment == [rows : Seq([row : Row, insert_lsn : Nat]), lsn_min : Nat, lsn_max : Nat]

StoreShape(s) ==
    /\ s \in [open : Seq(OpenRow), segments : Seq(Segment), sidecars : Seq(SUBSET (Nat \X Nat)),
              index : {s.index}, live_rows : Nat, applied_lsn : Nat]
    /\ s.index \in [DOMAIN s.index -> [seg : Nat, row : Nat]] /\ DOMAIN s.index \subseteq Key
    /\ Len(s.sidecars) = Len(s.segments)

RowsOf(s, n) == IF n = OpenSegment THEN s.open ELSE s.segments[n].rows

DeletedAt(s, n, i) ==
    IF n = OpenSegment THEN {s.open[i].delete_lsn} \ {NoLsn}
    ELSE {d[2] : d \in {d \in s.sidecars[n] : d[1] = i}}

Visible(s, n, i, lsn) ==
    /\ RowsOf(s, n)[i].insert_lsn <= lsn
    /\ \A d \in DeletedAt(s, n, i) : lsn < d

Shown(s, r, lsn) ==
    \E n \in 0..Len(s.segments) : \E i \in DOMAIN RowsOf(s, n) :
        RowsOf(s, n)[i].row = r /\ Visible(s, n, i, lsn)

\* Nothing in the store is of a transaction still to come, and the range in a
\* segment's footer covers its rows.
Timed(s, now) ==
    \A n \in 0..Len(s.segments) : \A i \in DOMAIN RowsOf(s, n) :
        /\ RowsOf(s, n)[i].insert_lsn <= now
        /\ \A d \in DeletedAt(s, n, i) : d <= now
        /\ n # OpenSegment => s.segments[n].lsn_min <= RowsOf(s, n)[i].insert_lsn

ShowsHistory(s, past) ==
    \A lsn \in 0..(Len(past) - 1) : \A r \in Row :
        past[lsn + 1][r] = IF Shown(s, r, lsn) THEN 1 ELSE 0

ShownOnce(s, now) ==
    \A lsn \in 0..(now - 1) :
        \A n, m \in 0..Len(s.segments) : \A i \in DOMAIN RowsOf(s, n) : \A j \in DOMAIN RowsOf(s, m) :
            /\ Visible(s, n, i, lsn) /\ Visible(s, m, j, lsn)
            /\ RowsOf(s, n)[i].row = RowsOf(s, m)[j].row
            => n = m /\ i = j

\* The index is of the places nothing has deleted, and they are the table.
IndexIsLive(s, table) ==
    /\ \A k \in DOMAIN s.index :
          LET loc == s.index[k] IN
          /\ loc.seg \in 0..Len(s.segments) /\ loc.row \in DOMAIN RowsOf(s, loc.seg)
          /\ RowsOf(s, loc.seg)[loc.row].row.key = k
          /\ DeletedAt(s, loc.seg, loc.row) = {}
    /\ \A n \in 0..Len(s.segments) : \A i \in DOMAIN RowsOf(s, n) :
          DeletedAt(s, n, i) = {} =>
              /\ RowsOf(s, n)[i].row.key \in DOMAIN s.index
              /\ s.index[RowsOf(s, n)[i].row.key] = [seg |-> n, row |-> i]
    /\ \A r \in Row :
          table[r] = IF /\ r.key \in DOMAIN s.index
                        /\ RowsOf(s, s.index[r.key].seg)[s.index[r.key].row].row = r
                     THEN 1 ELSE 0
    /\ IsFiniteSet(DOMAIN s.index) /\ s.live_rows = Cardinality(DOMAIN s.index)

StoreInv(s, table, past) ==
    /\ StoreShape(s)
    /\ Timed(s, Len(past))
    /\ ShowsHistory(s, past)
    /\ ShownOnce(s, Len(past))
    /\ IndexIsLive(s, table)

\* The files are of a store that has only seen later transactions since.
DiskIsOlder(s, d) ==
    /\ Len(d.segments) <= Len(s.segments) /\ Len(d.sidecars) <= Len(s.segments)
    /\ Len(d.segments) <= Len(d.sidecars)
    /\ \A n \in 1..Len(d.segments) :
          /\ d.segments[n] = s.segments[n]
          /\ \A x \in d.sidecars[n] \union s.sidecars[n] :
                x[2] <= d.applied_lsn => (x \in d.sidecars[n] <=> x \in s.sidecars[n])
    /\ d.segments # <<>> =>
          \A n \in 0..Len(s.segments) : n \notin 1..Len(d.segments) =>
              \A i \in DOMAIN RowsOf(s, n) : d.applied_lsn < RowsOf(s, n)[i].insert_lsn

\* Between the first transactions' boundary and the next one, the position is
\* the last transaction's; a finalize is between two, with no row open.
Boundaries ==
    /\ store.applied_lsn = IF changes > 0 THEN Lsn ELSE IF Lsn > 0 THEN Lsn - 1 ELSE 0
    /\ disk.applied_lsn < Lsn \/ disk = [sidecars |-> <<>>, segments |-> <<>>, applied_lsn |-> 0]
    /\ Lsn = 0 => changes = 0
    /\ finalizing > 0 =>
          /\ Lsn > 0 /\ changes = 0 /\ store.open = <<>>
          /\ finalizing <= Len(store.segments) + 1
          /\ \A n \in 1..(Len(store.segments) + 1 - finalizing) :
                n <= Len(disk.sidecars) /\ disk.sidecars[n] = store.sidecars[n]

TableInv ==
    /\ HasKey /\ ~error
    /\ changes \in Nat /\ finalizing \in Nat
    /\ image \in [Row -> {0, 1}] /\ history \in Seq([Row -> {0, 1}])
    /\ disk \in [sidecars : Seq(SUBSET (Nat \X Nat)), segments : Seq(Segment), applied_lsn : Nat]
    /\ StoreInv(store, image, history)
    /\ DiskIsOlder(store, disk)
    /\ Boundaries
=============================================================================
