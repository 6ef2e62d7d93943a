---------------------------- MODULE SearchStore -----------------------------
(***************************************************************************)
(* graydb-search's SearchStore: a tantivy index of one table's text, one   *)
(* document per row, written in batches.  docs, the writer's view, is how  *)
(* many copies of each document it holds; what readers can open is the     *)
(* last committed view, and the LSN they report is read from a metadata    *)
(* file that commit_batch writes after the commit.                         *)
(***************************************************************************)
EXTENDS Integers

CONSTANT NoText   \* a column the document does not have

DeleteKey(docs, k) == [d \in DOMAIN docs |-> IF d.key = k THEN 0 ELSE docs[d]]

AddDoc(docs, k, text) == [docs EXCEPT ![[key |-> k, text |-> text]] = @ + 1]

\* Insert, and a backfill row: delete and add.
IndexRow(docs, k, text) == AddDoc(DeleteKey(docs, k), k, text)

\* project: a value that is not text, an unchanged TOAST value too, is no text.
Project(v, unchanged) == IF v = unchanged THEN NoText ELSE v

\* Update: the old key's document is deleted, the new one added.
ReindexRow(docs, old_key, k, text) == AddDoc(DeleteKey(docs, old_key), k, text)

DeleteAll(docs) == [d \in DOMAIN docs |-> 0]
=============================================================================
