------------------------------- MODULE Shapes -------------------------------
(***************************************************************************)
(* Both shapes of one table, as Engine::apply_new_frames drives them: every *)
(* change goes to the columnar store and then to the search index, and the *)
(* index is committed once, after the batch's last transaction.  A query   *)
(* opens the index without a lock, while the apply loop goes on.  The demo *)
(* programs drive the columnar store alone, and finalize it after the live *)
(* changes; which of the two a behaviour is about is chosen at its start.  *)
(***************************************************************************)
EXTENDS TableStore, SearchStore

CONSTANT MaxIndexed   \* bound: changes of a table with a search index

ASSUME MaxIndexedAssumption == MaxIndexed \in Nat

VARIABLES
    docs,       \* the index writer's view
    committed,  \* the view tantivy's last commit made readable
    meta,       \* SearchMeta::applied_lsn in graydb-meta.json, or NoLsn
    indexed,    \* the table has a search index next to its store
    writing,    \* commit_batch is between the commit and the metadata file
    query       \* a SearchReader: [at, lsn, docs]

searchVars == <<docs, committed, meta, indexed, writing, query>>
shapeVars == <<storeVars, searchVars>>

Doc == [key : Key, text : Val \union {NoText}]

NoQuery == [at |-> "idle", lsn |-> 0, docs |-> [d \in Doc |-> 0]]

ShapesInit ==
    /\ Init
    /\ docs = [d \in Doc |-> 0]
    /\ committed = docs
    /\ meta = NoLsn
    /\ indexed \in BOOLEAN
    /\ writing = FALSE
    /\ query = NoQuery

\* What a change does to the index, when there is one.
Reindex(view) == docs' = IF indexed THEN view ELSE docs

\* A change goes to both stores within one turn of the apply loop, which starts
\* once attach has committed the backfilled index.
BothShapes ==
    /\ ~writing
    /\ indexed => total < MaxIndexed /\ (Lsn = 0 \/ meta # NoLsn)
    /\ UNCHANGED <<committed, meta, indexed, writing, query>>

Backfill(r) ==
    /\ BothShapes
    /\ LoadCopyRow(r)
    /\ Reindex(IndexRow(docs, r.key, r.val))

Insert(r) ==
    /\ BothShapes
    /\ ApplyInsert(r)
    /\ Reindex(IndexRow(docs, r.key, r.val))

Update(old, k, v, with_old) ==
    /\ BothShapes
    /\ ApplyUpdate(old, k, v, with_old)
    /\ Reindex(IF error' THEN docs
               ELSE ReindexRow(docs, OldKey(old, k, with_old), k, Project(v, Unchanged)))

Delete(old) ==
    /\ BothShapes
    /\ ApplyDelete(old)
    /\ Reindex(IF error' THEN docs ELSE DeleteKey(docs, old.key))

Truncate ==
    /\ BothShapes
    /\ ApplyTruncate
    /\ Reindex(DeleteAll(docs))

EndOfTransaction ==
    /\ EndTransaction
    /\ UNCHANGED searchVars

\* attach finalizes the columnar store once, at the backfill's end; a demo
\* does when its replay is over.
EndBackfill ==
    /\ \/ (Lsn = 0 \/ ~indexed) /\ FinalizeStart
       \/ WriteSidecar
       \/ WriteManifest
    /\ UNCHANGED searchVars

(***************************************************************************)
(* commit_batch, at the end of the backfill and of a batch: commit, then   *)
(* write the metadata file.                                                *)
(***************************************************************************)
\* Mutant of CommitBatch: also in the middle of a transaction.
CommitAnyTime ==
    /\ indexed /\ ~writing /\ finalizing = 0
    /\ Lsn > 0
    /\ meta # store.applied_lsn
    /\ committed' = docs
    /\ writing' = TRUE
    /\ UNCHANGED <<storeVars, docs, meta, indexed, query>>

CommitBatch ==
    /\ indexed /\ ~writing /\ finalizing = 0
    /\ changes = 0
    /\ Lsn > 0
    /\ meta # store.applied_lsn
    /\ committed' = docs
    /\ writing' = TRUE
    /\ UNCHANGED <<storeVars, docs, meta, indexed, query>>

WriteMeta ==
    /\ writing
    /\ meta' = store.applied_lsn
    /\ writing' = FALSE
    /\ UNCHANGED <<storeVars, docs, committed, indexed, query>>

(***************************************************************************)
(* SearchReader::open reads the metadata file; search reloads and reads    *)
(* whatever has been committed by then.                                    *)
(***************************************************************************)
OpenSearch ==
    /\ query.at # "opened"
    /\ meta # NoLsn
    /\ query' = [NoQuery EXCEPT !.at = "opened", !.lsn = meta]
    /\ UNCHANGED <<storeVars, docs, committed, meta, indexed, writing>>

Search ==
    /\ query.at = "opened"
    /\ query' = [query EXCEPT !.at = "answered", !.docs = committed]
    /\ UNCHANGED <<storeVars, docs, committed, meta, indexed, writing>>

ShapesNext ==
    \/ \E r \in Row : Backfill(r) \/ Insert(r) \/ Delete(r)
    \/ \E r \in Row, k \in Key, v \in Val \union {Unchanged}, with_old \in BOOLEAN :
         Update(r, k, v, with_old)
    \/ Truncate
    \/ EndOfTransaction
    \/ EndBackfill
    \/ CommitBatch
    \/ WriteMeta
    \/ OpenSearch
    \/ Search

ShapesSpec == ShapesInit /\ [][ShapesNext]_shapeVars

-----------------------------------------------------------------------------
(***************************************************************************)
(* Properties.                                                             *)
(***************************************************************************)

Copies(k, view) == {d \in Doc : d.key = k /\ view[d] > 0}

\* What a search answers is the table at one commit, not before the LSN it
\* reports (lib.rs 1-3, "Never commits mid-transaction"): one document for
\* every row the source had there, and none for a row it had not.
SearchAtBoundary ==
    query.at = "answered" =>
        \E lsn \in query.lsn..(Lsn - 1) :
            \A k \in Key :
                LET rows == {r \in Row : r.key = k /\ history[lsn + 1][r] > 0} IN
                /\ Cardinality(Copies(k, query.docs)) = Cardinality(rows)
                /\ \A d \in Copies(k, query.docs) :
                     query.docs[d] = 1 /\ \A r \in rows : d.text \in {r.val, NoText}

-----------------------------------------------------------------------------
(***************************************************************************)
(* Why it holds, for a keyed table: the writer's view mirrors the source's *)
(* table as it is, also in the middle of a transaction, and it is committed *)
(* only at a boundary; so what can be read mirrors one page of history,    *)
(* not before the metadata's.                                              *)
(***************************************************************************)
\* One document for the only row of its key, and none for a key without row.
Mirrors(view, table) ==
    /\ view \in [Doc -> Nat]
    /\ \A r, q \in Row : table[r] > 0 /\ table[q] > 0 /\ r.key = q.key => r = q
    /\ \A r \in Row : table[r] > 0 =>
          \E d \in Doc : /\ d.key = r.key /\ d.text \in {r.val, NoText} /\ view[d] = 1
                         /\ \A e \in Doc : e.key = r.key /\ e # d => view[e] = 0
    /\ \A d \in Doc : (\A r \in Row : r.key = d.key => table[r] = 0) => view[d] = 0

\* A boundary's page, not before an LSN.
MirrorsPage(view, from) == \E lsn \in from..(Lsn - 1) : Mirrors(view, history[lsn + 1])

SearchInv ==
    /\ TableInv
    /\ Lsn > 0 /\ changes = 0 => image = history[Lsn]
    /\ indexed => Mirrors(docs, image)
    /\ writing => indexed /\ Lsn > 0 /\ changes = 0 /\ finalizing = 0 /\ Mirrors(committed, image)
    /\ meta \in Nat \union {NoLsn}
    /\ meta # NoLsn => indexed /\ MirrorsPage(committed, meta)
    /\ query.at \in {"idle", "opened", "answered"} /\ query.lsn \in Nat
    /\ query.at = "opened" => indexed /\ MirrorsPage(committed, query.lsn)
    /\ query.at = "answered" => MirrorsPage(query.docs, query.lsn)
=============================================================================
