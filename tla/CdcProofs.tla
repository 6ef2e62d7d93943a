----------------------------- MODULE CdcProofs ------------------------------
(***************************************************************************)
(* Proofs about the ClickHouse replication task: what PostgreSQL was told  *)
(* to forget and what a marker says is applied is in every table, whatever *)
(* connection broke, request failed or window was sent again.              *)
(***************************************************************************)
EXTENDS ClickHouseCdc, RunLemmas, FiniteSetTheorems, SequenceTheorems

Payloads == {"begin", "relation", "change", "commit"}

SinkFrame == [seq : Nat, payload : Payloads, txn : Txns]

-----------------------------------------------------------------------------
(***************************************************************************)
(* The operators of the model.                                             *)
(***************************************************************************)

\* A transaction's messages end with its Commit.
LEMMA MessagesEnd ==
    ASSUME NEW txn
    PROVE  /\ Messages(txn) \in Seq(Payloads)
           /\ Len(Messages(txn)) \in Nat \ {0}
           /\ Messages(txn)[Len(Messages(txn))] = "commit"
<1> DEFINE head == <<"begin">> \o (IF txn = conn.from THEN <<"relation">> ELSE <<>>)
           body == [o \in 1..Tables |-> "change"]
<1>1. <<"begin">> \in Seq(Payloads) /\ <<"relation">> \in Seq(Payloads)
      /\ <<"commit">> \in Seq(Payloads) /\ <<>> \in Seq(Payloads)
  BY DEF Payloads
<1>2. head \in Seq(Payloads)
  BY <1>1
<1>3. body \in Seq(Payloads)
  BY CdcConstants DEF Payloads
<1> HIDE DEF head, body
<1>4. head \o body \in Seq(Payloads)
  BY <1>2, <1>3
<1>5. Messages(txn) = (head \o body) \o <<"commit">>
  BY <1>4 DEF Messages, head, body
<1> QED
  BY <1>1, <1>4, <1>5

LEMMA MessagesStart == \A txn : 1 \in 1..Len(Messages(txn))
BY MessagesEnd

\* A batch for every commit of the window, and for nothing else.
LEMMA BatchesAre ==
    ASSUME window \in Seq(SinkFrame)
    PROVE  /\ Batches \in Seq(Txns)
           /\ \A t : (\E k \in 1..Len(Batches) : Batches[k] = t) <=> InWindow(t)
<1> DEFINE n == Len(window)
           T == Seq(Txns)
           Next(i, s) == IF IsCommit(window[i]) THEN Append(s, window[i].txn) ELSE s
           Step(f, i) == IF i = 0 THEN <<>> ELSE Next(i, f[i - 1])
           F == [i \in 1..n |-> [s \in T |-> Next(i, s)]]
           found == CHOOSE f : f = [i \in 0..n |-> Step(f, i)]
<1>1. n \in Nat /\ <<>> \in T /\ \A i \in 1..n : window[i] \in SinkFrame
  OBVIOUS
<1>2. \A i \in 1..n : \A s \in T : Next(i, s) \in T
  BY <1>1 DEF SinkFrame
<1>3. Batches = found[n]
  BY DEF Batches
<1> HIDE DEF n, T, found, Next
<1>4. \A i \in 1..n : \A s \in T : F[i][s] = Next(i, s)
  OBVIOUS
<1>5. Maps(F, n, T)
  BY <1>2, <1>4 DEF Maps
<1> HIDE DEF F
<1>6. PICK g \in [0..n -> T] : IsRun(g, n, <<>>, F)
  BY <1>1, <1>5, RunExists
<1>7. \A i \in 0..n : g[i] = Step(g, i)
  <2> SUFFICES ASSUME NEW i \in 0..n PROVE g[i] = Step(g, i)
    OBVIOUS
  <2>1. CASE i = 0
    BY <1>6, <2>1 DEF IsRun
  <2>2. CASE i # 0
    <3>1. i \in 1..n /\ i - 1 \in 0..n
      BY <1>1, <2>2
    <3>2. g[i] = F[i][g[i - 1]] /\ g[i - 1] \in T
      BY <1>6, <3>1 DEF IsRun
    <3> QED
      BY <1>4, <2>2, <3>1, <3>2
  <2> QED
    BY <2>1, <2>2
<1>8. g = [i \in 0..n |-> Step(g, i)]
  <2> HIDE DEF Step
  <2> QED
    BY <1>7
<1>9. found = [i \in 0..n |-> Step(found, i)]
  <2> HIDE DEF Step
  <2> QED
    BY <1>8 DEF found
<1>10. \A i \in 0..n : found[i] = Step(found, i)
  <2> HIDE DEF Step
  <2> QED
    BY <1>9
<1> DEFINE Holds(i) ==
               /\ found[i] \in Seq(Txns)
               /\ \A t : (\E k \in 1..Len(found[i]) : found[i][k] = t)
                           <=> (\E k \in 1..i : IsCommit(window[k]) /\ window[k].txn = t)
           G == {i \in 0..n : Holds(i)}
<1>11. 0 \in G
  <2>1. 0 \in 0..n /\ found[0] = <<>>
    BY <1>1, <1>10
  <2>2. 1..0 = {} /\ Len(<<>>) = 0
    OBVIOUS
  <2>3. found[0] \in Seq(Txns)
    BY <2>1
  <2>4. Holds(0)
    BY <2>1, <2>2, <2>3
  <2> HIDE DEF Holds
  <2> QED
    BY <2>1, <2>4
<1>12. ASSUME NEW i \in 0..(n - 1), i \in G PROVE i + 1 \in G
  <2>1. i + 1 \in 1..n /\ i + 1 \in 0..n /\ (i + 1) - 1 = i /\ i + 1 # 0 /\ i \in Nat
    BY <1>1
  <2>2. found[i + 1] = Next(i + 1, found[i])
    BY <1>10, <2>1
  <2>3. Holds(i)
    BY <1>12
  <2>4. window[i + 1].txn \in Txns
    BY <1>1, <2>1 DEF SinkFrame
  <2>5. CASE IsCommit(window[i + 1])
    <3> DEFINE old == found[i]
               new == window[i + 1].txn
    <3>1. found[i + 1] = Append(old, new)
      BY <2>2, <2>5 DEF Next
    <3>2. old \in Seq(Txns) /\ new \in Txns
      BY <2>3, <2>4
    <3> HIDE DEF old, new
    <3>3. /\ Append(old, new) \in Seq(Txns)
          /\ \A t : (\E k \in 1..Len(Append(old, new)) : Append(old, new)[k] = t)
                      <=> t = new \/ \E k \in 1..Len(old) : old[k] = t
      <4>1. Len(old) \in Nat /\ Len(Append(old, new)) = Len(old) + 1
            /\ Append(old, new)[Len(old) + 1] = new
            /\ \A k \in 1..Len(old) : Append(old, new)[k] = old[k]
        BY <3>2
      <4>2. \A k \in 1..(Len(old) + 1) : k \in 1..Len(old) \/ k = Len(old) + 1
        BY <4>1
      <4>3. \A k \in 1..Len(old) : k \in 1..(Len(old) + 1)
        BY <4>1
      <4>4. Len(old) + 1 \in 1..(Len(old) + 1)
        BY <4>1
      <4> QED
        BY <3>2, <4>1, <4>2, <4>3, <4>4, AppendProperties
    <3>4. \A t : (\E k \in 1..(i + 1) : IsCommit(window[k]) /\ window[k].txn = t)
                   <=> t = new \/ \E k \in 1..i : IsCommit(window[k]) /\ window[k].txn = t
      BY <2>1, <2>5 DEF new
    <3> QED
      BY <2>1, <2>3, <3>1, <3>3, <3>4 DEF old
  <2>6. CASE ~IsCommit(window[i + 1])
    <3>1. found[i + 1] = found[i]
      BY <2>2, <2>6 DEF Next
    <3>2. \A t : (\E k \in 1..(i + 1) : IsCommit(window[k]) /\ window[k].txn = t)
                   <=> \E k \in 1..i : IsCommit(window[k]) /\ window[k].txn = t
      BY <2>1, <2>6
    <3> QED
      BY <2>1, <2>3, <3>1, <3>2
  <2> QED
    BY <2>5, <2>6
<1> HIDE DEF G
<1>13. \A i \in 0..n : i \in G
  BY <1>1, <1>11, <1>12, IntervalInduction
<1>14. n \in G
  BY <1>1, <1>13
<1>15. Holds(n)
  BY <1>14 DEF G
<1> QED
  BY <1>3, <1>15 DEF InWindow, n

\* What a flush sends is counted for each of its commits, and takes nothing back.
LEMMA CountedGrows ==
    ASSUME NEW count \in [Txns -> Nat], NEW commits \in Seq(Txns)
    PROVE  /\ Counted(count, commits) \in [Txns -> Nat]
           /\ \A t \in Txns : count[t] <= Counted(count, commits)[t]
           /\ \A k \in 1..Len(commits) : Counted(count, commits)[commits[k]] > 0
<1>1. Len(commits) \in Nat
  OBVIOUS
<1>2. ASSUME NEW t PROVE IsFiniteSet({k \in 1..Len(commits) : commits[k] = t})
  <2>1. IsFiniteSet(1..Len(commits))
    BY <1>1, FS_Interval
  <2> QED
    BY <2>1, FS_Subset
<1>3. \A t : Times(commits, t) \in Nat
  BY <1>2, FS_CardinalityType DEF Times
<1>4. \A k \in 1..Len(commits) : Times(commits, commits[k]) > 0
  <2> TAKE k \in 1..Len(commits)
  <2> DEFINE same == {j \in 1..Len(commits) : commits[j] = commits[k]}
  <2>1. IsFiniteSet(same) /\ same # {}
    BY <1>2
  <2> HIDE DEF same
  <2>2. Cardinality(same) # 0 /\ Cardinality(same) \in Nat
    BY <2>1, FS_EmptySet, FS_CardinalityType
  <2> QED
    BY <2>2 DEF Times, same
<1>5. \A k \in 1..Len(commits) : commits[k] \in Txns
  OBVIOUS
<1> QED
  BY <1>3, <1>4, <1>5 DEF Counted

\* One more frame is at most one more commit.
LEMMA CommitsInGrows ==
    ASSUME NEW frames \in Seq(SinkFrame), NEW frame \in SinkFrame
    PROVE  /\ CommitsIn(frames) \in Nat
           /\ CommitsIn(Append(frames, frame)) \in Nat
           /\ CommitsIn(Append(frames, frame)) <= CommitsIn(frames) + 1
<1> DEFINE longer == Append(frames, frame)
           n == Len(frames)
           old == {k \in 1..n : IsCommit(frames[k])}
           new == {k \in 1..Len(longer) : IsCommit(longer[k])}
<1>1. n \in Nat /\ Len(longer) = n + 1 /\ \A k \in 1..n : longer[k] = frames[k]
  OBVIOUS
<1>2. IsFiniteSet(old) /\ IsFiniteSet(new)
  <2>1. IsFiniteSet(1..n) /\ IsFiniteSet(1..Len(longer))
    BY <1>1, FS_Interval
  <2> QED
    BY <2>1, FS_Subset
<1>3. new \subseteq old \union {n + 1}
  BY <1>1
<1>4. CommitsIn(frames) = Cardinality(old) /\ CommitsIn(longer) = Cardinality(new)
  BY DEF CommitsIn
<1> HIDE DEF old, new, longer, n
<1>5. IsFiniteSet(old \union {n + 1}) /\ Cardinality(old \union {n + 1}) <= Cardinality(old) + 1
  <2>1. Cardinality(old) \in Nat
    BY <1>2, FS_CardinalityType
  <2>2. /\ IsFiniteSet(old \union {n + 1})
        /\ \/ Cardinality(old \union {n + 1}) = Cardinality(old)
           \/ Cardinality(old \union {n + 1}) = Cardinality(old) + 1
    BY <1>2, FS_AddElement
  <2> QED
    BY <2>1, <2>2
<1>6. Cardinality(new) <= Cardinality(old \union {n + 1})
  BY <1>3, <1>5, FS_Subset
<1>7. Cardinality(new) \in Nat /\ Cardinality(old) \in Nat
      /\ Cardinality(old \union {n + 1}) \in Nat
  BY <1>2, <1>5, FS_CardinalityType
<1> QED
  BY <1>4, <1>5, <1>6, <1>7 DEF longer

\* A window with no frame counts no commit, and one that counts some has one.
LEMMA CommitsInNone == CommitsIn(<<>>) = 0
<1>1. {k \in 1..Len(<<>>) : IsCommit(<<>>[k])} = {}
  OBVIOUS
<1> QED
  BY <1>1, FS_EmptySet DEF CommitsIn

LEMMA CommitsInHas ==
    ASSUME NEW frames, CommitsIn(frames) > 0
    PROVE  \E k \in 1..Len(frames) : IsCommit(frames[k])
<1> DEFINE commits == {k \in 1..Len(frames) : IsCommit(frames[k])}
<1>1. Cardinality({}) = 0
  BY FS_EmptySet
<1>2. Cardinality(commits) > 0
  BY DEF CommitsIn
<1>3. commits # {}
  <2> HIDE DEF commits
  <2> QED
    BY <1>1, <1>2
<1> QED
  BY <1>3

\* The greatest marker is one, unless there is none.
LEMMA LastMarkerIs ==
    \/ LastMarker = 0
    \/ LastMarker \in Txns /\ ch.markers[LastMarker] > 0
<1> DEFINE marked == {t \in Txns : ch.markers[t] > 0}
           S == {0} \union marked
           below == {k \in 0..MaxTxn : MaxTxn - k \in S}
<1>1. MaxTxn \in Nat /\ S \subseteq 0..MaxTxn /\ 0 \in S
  BY CdcConstants DEF Txns
<1> HIDE DEF S
<1>2. below \in SUBSET Nat /\ MaxTxn \in below
  BY <1>1
<1>3. PICK k \in below : \A j \in below : k <= j
  BY <1>2, SmallestExists
<1>4. MaxTxn - k \in S /\ k \in Nat
  BY <1>1
<1>5. \A m \in S : m <= MaxTxn - k
  <2> TAKE m \in S
  <2>1. m \in 0..MaxTxn
    BY <1>1
  <2>2. MaxTxn - m \in 0..MaxTxn /\ MaxTxn - (MaxTxn - m) = m
    BY <1>1, <2>1
  <2>3. k <= MaxTxn - m
    BY <1>3, <2>2
  <2> QED
    BY <1>1, <1>4, <2>1, <2>3
<1>6. MaxOf(S) \in S
  BY <1>4, <1>5 DEF MaxOf
<1>7. LastMarker = MaxOf(S)
  BY DEF LastMarker, S
<1> QED
  BY <1>6, <1>7 DEF S

-----------------------------------------------------------------------------
(***************************************************************************)
(* What the steps keep.                                                    *)
(***************************************************************************)
Session == [up : BOOLEAN, from : Nat, txn : Nat, i : Nat]

Sink == [up : BOOLEAN, outages : Nat,
         rows : [1..Tables -> [Txns -> Nat]], markers : [Txns -> Nat],
         tokens : SUBSET ((0..Tables) \X Txns \X Seq(Txns)), visibility : Nat]

Grown ==
    /\ \A o \in 1..Tables : \A t \in Txns : ch.rows[o][t] <= ch'.rows[o][t]
    /\ \A t \in Txns : ch.markers[t] <= ch'.markers[t]

LEMMA StillDone ==
    ASSUME ch \in Sink, ch' \in Sink, Grown
    PROVE  \A t \in Txns : Done(t) => Done(t)'
<1> SUFFICES ASSUME NEW t \in Txns, Done(t) PROVE Done(t)'
  OBVIOUS
<1>1. \A o \in 1..Tables : ch.rows[o][t] \in Nat /\ ch'.rows[o][t] \in Nat
  BY DEF Sink
<1>2. ch.markers[t] \in Nat /\ ch'.markers[t] \in Nat
  BY DEF Sink
<1> QED
  BY <1>1, <1>2 DEF Done, Complete, Grown

\* The steps that leave the window, the flush and ClickHouse's data alone: a
\* new session begins after the applied position, and only that is confirmed.
LEMMA DataUntouched ==
    ASSUME CdcInv,
           UNCHANGED <<window, flush, next_seq, applied_lsn>>,
           ch' \in Sink, ch'.rows = ch.rows, ch'.markers = ch.markers, ch'.tokens = ch.tokens,
           wal' \in wal..MaxTxn, ledger' \in 0..wal', last_visibility_lsn' \in 0..wal',
           ack' \in {ack, applied_lsn},
           task' = task \/ task' # "running",
           conn' \in Session, (conn.i \in 1..Len(Messages(conn.txn)))',
           conn'.txn \in {conn.txn, applied_lsn + 1}, conn'.from \in 1..conn'.txn
    PROVE  CdcInv'
<1> USE DEF CdcInv
<1>1. \A t : (Done(t) <=> Done(t)') /\ (InWindow(t) <=> InWindow(t)') /\ (Flushed(t) <=> Flushed(t)')
  BY DEF Done, Complete, InWindow, Flushed, IsCommit
<1>2. /\ wal \in 0..MaxTxn /\ ack \in 0..wal /\ applied_lsn \in 0..wal /\ next_seq \in Nat
      /\ conn.txn \in 1..(wal + 1)
  BY DEF CdcTypeOK
<1>3. CdcTypeOK'
  <2>1. wal' \in 0..MaxTxn /\ ack' \in 0..wal' /\ applied_lsn' \in 0..wal'
        /\ conn'.txn \in 1..(wal' + 1) /\ next_seq' \in Nat
    BY <1>2, CdcConstants
  <2>2. /\ \A k \in 1..Len(window') : window'[k].seq = next_seq' - Len(window') + k - 1
        /\ CommitsIn(window') <= WindowCommits
        /\ flush'.at \in {"idle", "resolve", "insert", "markers", "verify", "ack"}
    BY DEF CdcTypeOK
  <2> QED
    BY <2>1, <2>2 DEF CdcTypeOK, CommitsIn, IsCommit
<1>4. CdcShape'
  BY DEF CdcShape, Session, Sink
<1>5. ReceivedIsKept'
  <2>1. \A t \in 1..(conn'.txn - 1) : Done(t) \/ InWindow(t)
    BY <1>2 DEF ReceivedIsKept, PositionsAreDone
  <2>2. \A c \in Txns : InWindow(c) => c <= wal' /\ \A t \in 1..c : Done(t) \/ InWindow(t)
    BY <1>2 DEF ReceivedIsKept, Txns
  <2> QED
    BY <1>1, <2>1, <2>2 DEF ReceivedIsKept
<1>6. MarkedIsDone'
  BY <1>1 DEF MarkedIsDone
<1>7. PositionsAreDone'
  BY <1>1 DEF PositionsAreDone
<1>8. TokensTell'
  BY DEF TokensTell
<1>9. FlushIsOfWindow'
  <2>1. Idle' => Idle
    BY DEF Idle
  <2>2. CommitsIn(window)' = CommitsIn(window)
    BY DEF CommitsIn, IsCommit
  <2> QED
    BY <1>1, <2>1, <2>2 DEF FlushIsOfWindow
<1> QED
  BY <1>3, <1>4, <1>5, <1>6, <1>7, <1>8, <1>9

\* A request of the flush: more is there, and the flush goes on or the task ends.
LEMMA SentKeeps ==
    ASSUME CdcInv,
           UNCHANGED <<source, session, ack, next_seq, window, position>>,
           ch' \in Sink, Grown, TokensTell', MarkedIsDone',
           flush' \in [at : {"idle", "resolve", "insert", "markers", "verify", "ack"},
                       commits : Seq(Txns), table : Nat],
           FlushIsOfWindow'
    PROVE  CdcInv'
<1> USE DEF CdcInv, source, session, position
<1>1. \A t : InWindow(t) <=> InWindow(t)'
  BY DEF InWindow, IsCommit
<1>2. \A t \in Txns : Done(t) => Done(t)'
  BY StillDone DEF CdcShape, Sink
<1>3. /\ wal \in 0..MaxTxn /\ ack \in 0..wal /\ applied_lsn \in 0..wal
      /\ conn.txn \in 1..(wal + 1) /\ MaxTxn \in Nat
  BY CdcConstants DEF CdcTypeOK
<1>4. CdcTypeOK'
  BY DEF CdcTypeOK, CommitsIn, IsCommit
<1>5. CdcShape'
  <2>1. (Messages(conn.txn))' = Messages(conn.txn)
    BY DEF Messages
  <2> QED
    BY <2>1 DEF CdcShape, Sink
<1>6. ReceivedIsKept'
  <2>1. \A t \in 1..(conn.txn - 1) : t \in Txns /\ (Done(t) \/ InWindow(t))
    BY <1>3 DEF ReceivedIsKept, Txns
  <2>2. \A c \in Txns : InWindow(c) =>
            c <= wal /\ \A t \in 1..c : t \in Txns /\ (Done(t) \/ InWindow(t))
    BY <1>3 DEF ReceivedIsKept, Txns
  <2> QED
    BY <1>1, <1>2, <2>1, <2>2 DEF ReceivedIsKept
<1>7. PositionsAreDone'
  <2>1. \A t \in 1..applied_lsn : t \in Txns /\ Done(t)
    BY <1>3 DEF PositionsAreDone, Txns
  <2>2. \A t \in 1..ack : t \in Txns /\ Done(t)
    BY <1>3 DEF PositionsAreDone, Txns
  <2> QED
    BY <1>2, <2>1, <2>2 DEF PositionsAreDone
<1> QED
  BY <1>4, <1>5, <1>6, <1>7

\* ClickHouse going and coming changes none of its data, nor does a visible position.
LEMMA SinkFields ==
    ASSUME NEW c \in Sink, NEW lsn \in Nat
    PROVE  /\ [c EXCEPT !.up = TRUE] \in Sink
           /\ [c EXCEPT !.up = FALSE, !.outages = @ + 1] \in Sink
           /\ [c EXCEPT !.visibility = lsn] \in Sink
<1>1. TRUE \in BOOLEAN /\ FALSE \in BOOLEAN
  OBVIOUS
<1>2. \A u \in BOOLEAN : [c EXCEPT !.up = u] \in Sink
  BY DEF Sink
<1>3. c.outages + 1 \in Nat
  BY DEF Sink
<1>4. [c EXCEPT !.visibility = lsn] \in Sink
  BY DEF Sink
<1>5. \A u \in BOOLEAN : \A n \in Nat : [c EXCEPT !.up = u, !.outages = n] \in Sink
  BY DEF Sink
<1> QED
  BY <1>1, <1>2, <1>3, <1>4, <1>5, Zenon

\* A broken session is where it was.
LEMMA LostSession ==
    ASSUME NEW c \in Session
    PROVE  /\ [c EXCEPT !.up = FALSE] \in Session
           /\ [c EXCEPT !.up = FALSE].txn = c.txn
           /\ [c EXCEPT !.up = FALSE].from = c.from
           /\ [c EXCEPT !.up = FALSE].i = c.i
BY DEF Session

\* The source, the connection's and ClickHouse's ups and downs, the queries.
LEMMA OutsideKeeps ==
    ASSUME CdcInv,
           \/ Commit \/ LedgerAppend \/ LoseConnection \/ Outage \/ Recover
           \/ \E target \in Txns : Query(target)
           \/ UNCHANGED cdcVars
    PROVE  CdcInv'
<1> USE DEF source, session, buffered, position, cdcVars
<1>1. /\ wal \in 0..MaxTxn /\ ledger \in 0..wal /\ ack \in 0..wal /\ MaxTxn \in Nat
      /\ conn.txn \in 1..(wal + 1) /\ conn.from \in 1..conn.txn
      /\ last_visibility_lsn \in 0..wal
      /\ conn \in Session /\ ch \in Sink /\ conn.i \in 1..Len(Messages(conn.txn))
  BY CdcConstants DEF CdcInv, CdcTypeOK, CdcShape, Session, Sink
<1>2. UNCHANGED <<window, flush, next_seq, applied_lsn, ack, task, last_visibility_lsn>>
  BY DEF Commit, LedgerAppend, LoseConnection, Outage, Recover, Query
<1>3. wal' \in wal..MaxTxn /\ ledger' \in 0..wal'
  BY <1>1 DEF Commit, LedgerAppend, LoseConnection, Outage, Recover, Query
<1>4. /\ conn' \in Session
      /\ conn'.txn = conn.txn /\ conn'.from = conn.from /\ conn'.i = conn.i
  <2>1. conn' = conn \/ conn' = [conn EXCEPT !.up = FALSE]
    BY DEF Commit, LedgerAppend, LoseConnection, Outage, Recover, Query
  <2> QED
    BY <1>1, <2>1, LostSession
<1>5. ch' \in Sink /\ ch'.rows = ch.rows /\ ch'.markers = ch.markers /\ ch'.tokens = ch.tokens
  <2>1. CASE Outage
    BY <1>1, <2>1, SinkFields DEF Outage, Sink
  <2>2. CASE Recover
    BY <1>1, <2>2, SinkFields DEF Recover, Sink
  <2>3. CASE ch' = ch
    BY <1>1, <2>3
  <2> QED
    BY <2>1, <2>2, <2>3 DEF Commit, LedgerAppend, LoseConnection, Query
<1>6. (conn.i \in 1..Len(Messages(conn.txn)))'
  BY <1>1, <1>4 DEF Messages
<1>7. last_visibility_lsn' \in 0..wal' /\ conn'.from \in 1..conn'.txn
  BY <1>1, <1>2, <1>3, <1>4
<1> QED
  BY <1>2, <1>3, <1>4, <1>5, <1>6, <1>7, DataUntouched

\* What a broken connection, a keepalive and the end do.
LEMMA BetweenFlushesKeeps ==
    ASSUME CdcInv, Keepalive \/ Reconnect \/ Stop
    PROVE  CdcInv'
<1> USE DEF source, session, buffered, position
<1>1. /\ wal \in 0..MaxTxn /\ ledger \in 0..wal /\ ack \in 0..wal /\ MaxTxn \in Nat
      /\ conn.txn \in 1..(wal + 1) /\ conn.from \in 1..conn.txn
      /\ applied_lsn \in 0..wal /\ last_visibility_lsn \in 0..wal
      /\ conn \in Session /\ ch \in Sink /\ conn.i \in 1..Len(Messages(conn.txn))
  BY CdcConstants DEF CdcInv, CdcTypeOK, CdcShape, Session, Sink
<1>2. UNCHANGED <<window, flush, next_seq, applied_lsn, wal, ledger>>
  BY DEF Keepalive, Reconnect, Stop
<1>3. wal' \in wal..MaxTxn /\ ledger' \in 0..wal'
  BY <1>1, <1>2
<1>4. ack' \in {ack, applied_lsn}
  BY DEF Keepalive, Reconnect, Stop, KeepaliveStatus, Confirm
<1>5. task' = task \/ task' # "running"
  BY DEF Keepalive, Reconnect, Stop
<1>6. /\ conn' \in Session
      /\ \/ conn'.txn = conn.txn /\ conn'.from = conn.from /\ conn'.i = conn.i
         \/ conn'.txn = applied_lsn + 1 /\ conn'.from = applied_lsn + 1 /\ conn'.i = 1
  <2>1. NewSession(applied_lsn) \in Session
    BY <1>1 DEF NewSession, Session
  <2>2. conn' = conn \/ conn' = [conn EXCEPT !.up = FALSE] \/ conn' = NewSession(applied_lsn)
    BY DEF Keepalive, Reconnect, Stop
  <2>3. CASE conn' = NewSession(applied_lsn)
    BY <2>1, <2>3 DEF NewSession
  <2>4. CASE conn' = conn \/ conn' = [conn EXCEPT !.up = FALSE]
    BY <1>1, <2>4, LostSession
  <2> QED
    BY <2>2, <2>3, <2>4
<1>7. (conn.i \in 1..Len(Messages(conn.txn)))'
  <2>1. CASE conn'.txn = conn.txn /\ conn'.from = conn.from /\ conn'.i = conn.i
    BY <1>1, <2>1 DEF Messages
  <2>2. CASE conn'.i = 1
    <3>1. (\A txn : 1 \in 1..Len(Messages(txn)))'
      BY MessagesStart, PTL
    <3> QED
      BY <2>2, <3>1
  <2> QED
    BY <1>6, <2>1, <2>2
<1>8. /\ ch' \in Sink /\ ch'.rows = ch.rows /\ ch'.markers = ch.markers /\ ch'.tokens = ch.tokens
      /\ last_visibility_lsn' \in 0..wal'
  <2>1. CASE RecordVisibility
    <3>1. WalEnd \in 0..wal /\ WalEnd \in Nat
      BY <1>1 DEF WalEnd
    <3> QED
      <4>1. CASE UNCHANGED <<ch, last_visibility_lsn>>
        BY <1>1, <1>2, <4>1
      <4>2. CASE ch' = [ch EXCEPT !.visibility = WalEnd] /\ last_visibility_lsn' = WalEnd
        <5>1. [ch EXCEPT !.visibility = WalEnd] \in Sink
          BY <1>1, <3>1, SinkFields
        <5> QED
          BY <1>1, <1>2, <3>1, <4>2, <5>1 DEF Sink
      <4> QED
        BY <2>1, <4>1, <4>2 DEF RecordVisibility
  <2>2. CASE UNCHANGED <<ch, last_visibility_lsn>>
    BY <1>1, <1>2, <2>2
  <2> QED
    BY <2>1, <2>2 DEF Keepalive, Reconnect, Stop
<1>9. conn'.txn \in {conn.txn, applied_lsn + 1} /\ conn'.from \in 1..conn'.txn
  BY <1>1, <1>6
<1> QED
  BY <1>2, <1>3, <1>4, <1>5, <1>6, <1>7, <1>8, <1>9, DataUntouched

\* A frame arrives.  The session goes on to the next transaction with the
\* Commit of this one, which is in the window then.
LEMMA ReceiveKeeps ==
    ASSUME CdcInv, Receive
    PROVE  CdcInv'
<1> USE DEF source, position
<1>1. /\ wal \in 0..MaxTxn /\ MaxTxn \in Nat /\ WindowCommits \in Nat \ {0} /\ next_seq \in Nat
      /\ conn.txn \in 1..(wal + 1) /\ conn.from \in 1..conn.txn /\ conn.txn <= wal
      /\ conn \in Session /\ ch \in Sink /\ conn.i \in 1..Len(Messages(conn.txn))
      /\ window \in Seq(SinkFrame)
  BY CdcConstants DEF CdcInv, CdcTypeOK, CdcShape, Session, Sink, SinkFrame, Payloads, Receive
<1>2. /\ UNCHANGED <<wal, ledger, ack, ch, task, applied_lsn, last_visibility_lsn>>
      /\ conn' = Sent /\ next_seq' = next_seq + 1 /\ window' = Append(window, NextFrame)
      /\ task = "running" /\ flush.at = "idle"
  BY DEF Receive, Idle
<1>3. /\ Messages(conn.txn) \in Seq(Payloads) /\ Len(Messages(conn.txn)) \in Nat \ {0}
      /\ Messages(conn.txn)[Len(Messages(conn.txn))] = "commit"
  BY MessagesEnd
<1>4. NextFrame \in SinkFrame /\ NextFrame.txn = conn.txn /\ NextFrame.seq = next_seq
      /\ conn.txn \in Txns
  BY <1>1, <1>3 DEF NextFrame, SinkFrame, Txns
<1>5. /\ window' \in Seq(SinkFrame) /\ Len(window') = Len(window) + 1 /\ Len(window) \in Nat
      /\ window'[Len(window) + 1] = NextFrame
      /\ \A k \in 1..Len(window) : window'[k] = window[k]
  BY <1>1, <1>2, <1>4
<1>6. \A t : InWindow(t)' <=> InWindow(t) \/ (IsCommit(NextFrame) /\ t = conn.txn)
  <2>1. \A k \in 1..Len(window') : k \in 1..Len(window) \/ k = Len(window) + 1
    BY <1>5
  <2>2. \A k \in 1..Len(window) : k \in 1..Len(window')
    BY <1>5
  <2>3. Len(window) + 1 \in 1..Len(window')
    BY <1>5
  <2> QED
    BY <1>4, <1>5, <2>1, <2>2, <2>3 DEF InWindow, IsCommit
<1>7. \A t : Done(t) <=> Done(t)'
  BY <1>2 DEF Done, Complete
<1>8. /\ conn' \in Session /\ conn'.from = conn.from
      /\ \/ conn'.txn = conn.txn + 1 /\ conn'.i = 1 /\ IsCommit(NextFrame)
         \/ conn'.txn = conn.txn /\ conn'.i \in 1..Len(Messages(conn.txn))
  <2>1. CASE conn.i = Len(Messages(conn.txn))
    <3>1. IsCommit(NextFrame)
      BY <1>3, <2>1 DEF IsCommit, NextFrame
    <3>2. conn' = [conn EXCEPT !.txn = conn.txn + 1, !.i = 1]
      BY <1>2, <2>1 DEF Sent
    <3>3. conn.txn + 1 \in Nat /\ 1 \in Nat
      BY <1>1
    <3>4. conn' \in Session
      BY <1>1, <3>2, <3>3 DEF Session
    <3>5. conn'.from = conn.from /\ conn'.txn = conn.txn + 1 /\ conn'.i = 1
      BY <1>1, <3>2 DEF Session
    <3> QED
      BY <3>1, <3>4, <3>5
  <2>2. CASE conn.i # Len(Messages(conn.txn))
    <3>1. conn' = [conn EXCEPT !.i = conn.i + 1]
      BY <1>2, <2>2 DEF Sent
    <3>2. conn.i + 1 \in 1..Len(Messages(conn.txn)) /\ conn.i + 1 \in Nat
      BY <1>1, <1>3, <2>2
    <3> QED
      BY <1>1, <3>1, <3>2 DEF Session
  <2> QED
    BY <2>1, <2>2
<1>9. /\ CommitsIn(window) \in Nat /\ CommitsIn(window') \in Nat
      /\ CommitsIn(window') <= CommitsIn(window) + 1
  BY <1>1, <1>2, <1>4, CommitsInGrows
<1>10. CommitsIn(window) < WindowCommits
  BY <1>2 DEF CdcInv, FlushIsOfWindow, Idle
<1>11. \/ flush' = [NoFlush EXCEPT !.at = "resolve"] /\ CommitsIn(window') > 0
       \/ UNCHANGED flush /\ ~ MustFlush(window')
  BY DEF Receive
<1>12. CdcTypeOK'
  <2>1. \A k \in 1..Len(window') : window'[k].seq = next_seq' - Len(window') + k - 1
    <3> TAKE k \in 1..Len(window')
    <3>1. CASE k \in 1..Len(window)
      <4>1. window[k].seq = next_seq - Len(window) + k - 1
        BY <3>1 DEF CdcInv, CdcTypeOK
      <4> QED
        BY <1>1, <1>2, <1>5, <3>1, <4>1
    <3>2. CASE k = Len(window) + 1
      BY <1>1, <1>2, <1>4, <1>5, <3>2
    <3> QED
      BY <1>5, <3>1, <3>2
  <2>2. CommitsIn(window') <= WindowCommits
    BY <1>1, <1>9, <1>10
  <2>3. conn'.txn \in 1..(wal + 1) /\ conn'.from \in 1..conn'.txn /\ next_seq' \in Nat
    BY <1>1, <1>2, <1>8
  <2>4. flush'.at \in {"idle", "resolve", "insert", "markers", "verify", "ack"}
    BY <1>2, <1>11 DEF NoFlush
  <2>5. (CommitsIn(window) <= WindowCommits)'
    BY <2>2 DEF CommitsIn, IsCommit
  <2> QED
    BY <1>2, <2>1, <2>3, <2>4, <2>5 DEF CdcInv, CdcTypeOK
<1>13. CdcShape'
  <2>1. (conn.i \in 1..Len(Messages(conn.txn)))'
    <3>1. CASE conn'.i = 1
      <4>1. (\A txn : 1 \in 1..Len(Messages(txn)))'
        BY MessagesStart, PTL
      <4> QED
        BY <3>1, <4>1
    <3>2. CASE conn'.txn = conn.txn /\ conn'.i \in 1..Len(Messages(conn.txn))
      BY <1>8, <3>2 DEF Messages
    <3> QED
      BY <1>8, <3>1, <3>2
  <2>2. /\ flush \in [at : {"idle", "resolve", "insert", "markers", "verify", "ack"},
                      commits : Seq(Txns), table : Nat]
        /\ <<>> \in Seq(Txns)
    BY DEF CdcInv, CdcShape
  <2>3. flush' \in [at : {"idle", "resolve", "insert", "markers", "verify", "ack"},
                    commits : Seq(Txns), table : Nat]
    <3>1. [NoFlush EXCEPT !.at = "resolve"] = [at |-> "resolve", commits |-> <<>>, table |-> 1]
      BY DEF NoFlush
    <3>2. CASE flush' = [NoFlush EXCEPT !.at = "resolve"]
      <4>1. \A empty \in Seq(Txns) : [at |-> "resolve", commits |-> empty, table |-> 1] \in
                [at : {"idle", "resolve", "insert", "markers", "verify", "ack"},
                 commits : Seq(Txns), table : Nat]
        OBVIOUS
      <4> QED
        BY <2>2, <3>1, <3>2, <4>1, Zenon
    <3>3. CASE UNCHANGED flush
      BY <2>2, <3>3
    <3> QED
      BY <1>11, <3>2, <3>3
  <2> QED
    BY <1>1, <1>2, <1>5, <1>8, <2>1, <2>3 DEF CdcShape, Session, Sink, SinkFrame, Payloads
<1>14. ReceivedIsKept'
  <2>1. \A t \in 1..(conn.txn - 1) : Done(t) \/ InWindow(t)
    BY DEF CdcInv, ReceivedIsKept
  <2>2. \A t \in 1..(conn'.txn - 1) : Done(t)' \/ InWindow(t)'
    BY <1>1, <1>6, <1>7, <1>8, <2>1
  <2>3. \A c \in Txns : InWindow(c)' => c <= wal /\ \A t \in 1..c : Done(t)' \/ InWindow(t)'
    <3> SUFFICES ASSUME NEW c \in Txns, InWindow(c)'
                 PROVE  c <= wal /\ \A t \in 1..c : Done(t)' \/ InWindow(t)'
      OBVIOUS
    <3>1. CASE InWindow(c)
      BY <1>6, <1>7, <3>1 DEF CdcInv, ReceivedIsKept
    <3>2. CASE IsCommit(NextFrame) /\ c = conn.txn
      <4>1. \A t \in 1..conn.txn : t \in 1..(conn.txn - 1) \/ t = conn.txn
        BY <1>1
      <4> QED
        BY <1>1, <1>6, <1>7, <2>1, <3>2, <4>1
    <3> QED
      BY <1>6, <3>1, <3>2
  <2> QED
    BY <1>2, <2>2, <2>3 DEF ReceivedIsKept
<1>15. MarkedIsDone'
  BY <1>2, <1>7 DEF CdcInv, MarkedIsDone
<1>16. PositionsAreDone'
  BY <1>2, <1>7 DEF CdcInv, PositionsAreDone
<1>17. TokensTell'
  BY <1>2 DEF CdcInv, TokensTell
<1>18. FlushIsOfWindow'
  <2>1. CASE flush' = [NoFlush EXCEPT !.at = "resolve"] /\ CommitsIn(window') > 0
    <3>1. flush'.at = "resolve"
      BY <2>1 DEF NoFlush
    <3>2. PICK k \in 1..Len(window') : IsCommit(window'[k])
      BY <1>9, <2>1, CommitsInHas
    <3>3. window'[k].txn \in Txns
      <4>1. window'[k] \in SinkFrame
        BY <1>5
      <4> QED
        BY <4>1 DEF SinkFrame
    <3>4. (\E t \in Txns : InWindow(t))'
      BY <3>2, <3>3 DEF InWindow, IsCommit
    <3> QED
      BY <3>1, <3>4 DEF FlushIsOfWindow, Idle
  <2>2. CASE UNCHANGED flush /\ ~ MustFlush(window')
    <3>1. CommitsIn(window') < WindowCommits
      BY <1>1, <1>9, <2>2 DEF MustFlush
    <3>2. (CommitsIn(window) < WindowCommits)'
      BY <3>1 DEF CommitsIn, IsCommit
    <3> QED
      BY <1>2, <2>2, <3>2 DEF FlushIsOfWindow
  <2> QED
    BY <1>11, <2>1, <2>2
<1> QED
  BY <1>12, <1>13, <1>14, <1>15, <1>16, <1>17, <1>18 DEF CdcInv

FlushState == [at : {"idle", "resolve", "insert", "markers", "verify", "ack"},
               commits : Seq(Txns), table : Nat]

\* The window is in the ledger and through the decoder: its commits are known.
LEMMA ResolveKeeps ==
    ASSUME CdcInv, Resolve
    PROVE  CdcInv'
<1> USE DEF source, session, position
<1>1. ch \in Sink /\ flush \in FlushState /\ window \in Seq(SinkFrame) /\ Tables \in Nat \ {0}
  BY CdcConstants DEF CdcInv, CdcShape, Sink, FlushState, SinkFrame, Payloads
<1>2. /\ UNCHANGED <<source, session, ack, ch, next_seq, window, position>>
      /\ flush.at = "resolve"
      /\ \/ UNCHANGED flush
         \/ flush' = [at |-> "insert", table |-> 1, commits |-> Batches]
  BY DEF Resolve, End
<1>3. /\ Batches \in Seq(Txns)
      /\ \A t : (\E k \in 1..Len(Batches) : Batches[k] = t) <=> InWindow(t)
  BY <1>1, BatchesAre
<1>4. ch' \in Sink /\ Grown
  <2>1. \A o \in 1..Tables : \A t \in Txns : ch.rows[o][t] \in Nat
    BY <1>1 DEF Sink
  <2>2. \A t \in Txns : ch.markers[t] \in Nat
    BY <1>1 DEF Sink
  <2> QED
    BY <1>1, <1>2, <2>1, <2>2 DEF Grown
<1>5. \A t : InWindow(t)' <=> InWindow(t)
  BY <1>2 DEF InWindow, IsCommit
<1>6. TokensTell' /\ MarkedIsDone'
  BY <1>2 DEF CdcInv, TokensTell, MarkedIsDone, Done, Complete
<1>7. flush' \in FlushState /\ FlushIsOfWindow'
  <2>1. PICK t \in Txns : InWindow(t)
    BY <1>2 DEF CdcInv, FlushIsOfWindow
  <2>2. CASE UNCHANGED flush
    <3>1. flush'.at = "resolve" /\ (\E s \in Txns : InWindow(s))'
      BY <1>2, <1>5, <2>1, <2>2
    <3> QED
      BY <1>1, <2>2, <3>1 DEF FlushIsOfWindow, Idle
  <2>3. CASE flush' = [at |-> "insert", table |-> 1, commits |-> Batches]
    <3>1. flush'.at = "insert" /\ flush'.table = 1 /\ flush'.commits = Batches
      BY <2>3
    <3>2. flush' \in FlushState
      BY <1>3, <2>3 DEF FlushState
    <3>3. Batches # <<>>
      BY <1>3, <2>1
    <3>4. \A s \in Txns : Flushed(s)' <=> InWindow(s)'
      BY <1>3, <1>5, <3>1 DEF Flushed
    <3>5. \A o \in 1..Tables : ~ (o < flush'.table)
      BY <1>1, <3>1
    <3>6. flush'.table \in 1..Tables
      BY <1>1, <3>1
    <3> QED
      BY <3>1, <3>2, <3>3, <3>4, <3>5, <3>6 DEF FlushIsOfWindow, Idle
  <2> QED
    BY <1>2, <2>2, <2>3
<1> QED
  BY <1>2, <1>4, <1>6, <1>7, SentKeeps DEF FlushState

\* A request of rows leaves the table with a row of every commit flushed, also
\* when ClickHouse drops the block because it has seen its token.
LEMMA RowsArrive ==
    ASSUME CdcInv, flush.at = "insert"
    PROVE  /\ InsertRows \in Sink
           /\ \A o \in 1..Tables : \A t \in Txns : ch.rows[o][t] <= InsertRows.rows[o][t]
           /\ InsertRows.markers = ch.markers
           /\ \A t \in Txns : Flushed(t) => InsertRows.rows[flush.table][t] > 0
           /\ \A token \in InsertRows.tokens : \A k \in 1..Len(token[3]) :
                 IF token[1] = 0 THEN InsertRows.markers[token[3][k]] > 0
                                 ELSE InsertRows.rows[token[1]][token[3][k]] > 0
<1> DEFINE o == flush.table
           commits == flush.commits
           last == Last(commits)
<1>1. ch \in Sink /\ commits \in Seq(Txns) /\ commits # <<>> /\ o \in 1..Tables /\ Tables \in Nat
  BY CdcConstants DEF CdcInv, CdcShape, Sink, FlushIsOfWindow
<1>2. \A t : Flushed(t) <=> \E k \in 1..Len(commits) : commits[k] = t
  BY DEF Flushed
<1>3. last \in Txns /\ Token(o) = <<o, last, commits>>
  BY <1>1 DEF Last, Token
<1>4. \A token \in ch.tokens : \A k \in 1..Len(token[3]) :
          IF token[1] = 0 THEN ch.markers[token[3][k]] > 0
                          ELSE ch.rows[token[1]][token[3][k]] > 0
  BY DEF CdcInv, TokensTell
<1>5. \A p \in 1..Tables : ch.rows[p] \in [Txns -> Nat]
  BY <1>1 DEF Sink
<1>6. \A p \in 1..Tables : \A t \in Txns : ch.rows[p][t] \in Nat
  BY <1>5
<1>7. ch.tokens \in SUBSET ((0..Tables) \X Txns \X Seq(Txns))
  BY <1>1 DEF Sink
<1>8. InsertRows = IF Token(o) \in ch.tokens THEN ch
                   ELSE [ch EXCEPT !.rows[o] = Counted(@, commits),
                                   !.tokens = @ \union {Token(o)}]
  BY DEF InsertRows
<1> HIDE DEF o, commits, last
<1>9. CASE Token(o) \in ch.tokens
  <2>1. \A k \in 1..Len(commits) : ch.rows[o][commits[k]] > 0
    BY <1>1, <1>3, <1>4, <1>9
  <2> QED
    BY <1>1, <1>2, <1>4, <1>6, <1>8, <1>9, <2>1 DEF o
<1>10. CASE Token(o) \notin ch.tokens
  <2> DEFINE now == Counted(ch.rows[o], commits)
             rows == [ch.rows EXCEPT ![o] = now]
             tokens == ch.tokens \union {<<o, last, commits>>}
  <2>1. /\ now \in [Txns -> Nat]
        /\ \A t \in Txns : ch.rows[o][t] <= now[t]
        /\ \A k \in 1..Len(commits) : now[commits[k]] > 0
    BY <1>1, <1>5, CountedGrows
  <2>2. InsertRows = [ch EXCEPT !.rows = rows, !.tokens = tokens]
    BY <1>1, <1>3, <1>8, <1>10 DEF Sink
  <2> HIDE DEF now
  <2>3. rows \in [1..Tables -> [Txns -> Nat]]
    BY <1>1, <2>1 DEF Sink
  <2>4. rows[o] = now /\ \A p \in 1..Tables : p # o => rows[p] = ch.rows[p]
    BY <1>1 DEF Sink
  <2>5. tokens \in SUBSET ((0..Tables) \X Txns \X Seq(Txns))
    BY <1>1, <1>3, <1>7
  <2>6. \A token \in tokens : \A k \in 1..Len(token[3]) :
            IF token[1] = 0 THEN ch.markers[token[3][k]] > 0
                            ELSE rows[token[1]][token[3][k]] > 0
    <3> SUFFICES ASSUME NEW token \in tokens, NEW k \in 1..Len(token[3])
                 PROVE  IF token[1] = 0 THEN ch.markers[token[3][k]] > 0
                                        ELSE rows[token[1]][token[3][k]] > 0
      OBVIOUS
    <3>1. CASE token = <<o, last, commits>>
      <4>1. token[1] = o /\ token[3] = commits /\ o # 0
        BY <1>1, <3>1
      <4> QED
        BY <2>1, <2>4, <4>1
    <3>2. CASE token \in ch.tokens
      <4>1. token[1] \in 0..Tables /\ token[3] \in Seq(Txns)
        BY <1>7, <3>2
      <4>2. token[3][k] \in Txns
        BY <4>1
      <4>3. CASE token[1] = 0
        BY <1>4, <3>2, <4>3
      <4>4. CASE token[1] # 0
        <5>1. token[1] \in 1..Tables /\ ch.rows[token[1]][token[3][k]] > 0
          BY <1>1, <1>4, <3>2, <4>1, <4>4
        <5>2. CASE token[1] = o
          <6>1. ch.rows[o][token[3][k]] \in Nat /\ now[token[3][k]] \in Nat
            BY <1>1, <1>6, <2>1, <4>2
          <6> QED
            BY <2>1, <2>4, <4>2, <4>4, <5>1, <5>2, <6>1
        <5>3. CASE token[1] # o
          BY <2>4, <4>4, <5>1, <5>3
        <5> QED
          BY <5>2, <5>3
      <4> QED
        BY <4>3, <4>4
    <3> QED
      BY <3>1, <3>2
  <2>7. \A p \in 1..Tables : \A t \in Txns : ch.rows[p][t] <= rows[p][t]
    BY <1>6, <2>1, <2>4
  <2>8. \A t \in Txns : Flushed(t) => rows[o][t] > 0
    BY <1>2, <2>1, <2>4
  <2> HIDE DEF rows, tokens
  <2>9. InsertRows \in Sink
    BY <1>1, <2>2, <2>3, <2>5 DEF Sink
  <2>10. InsertRows.rows = rows /\ InsertRows.tokens = tokens /\ InsertRows.markers = ch.markers
    BY <1>1, <2>2 DEF Sink
  <2> QED
    BY <2>6, <2>7, <2>8, <2>9, <2>10 DEF o
<1> QED
  BY <1>9, <1>10

\* So does the request of markers, with the markers.
LEMMA MarkersArrive ==
    ASSUME CdcInv, flush.at = "markers"
    PROVE  /\ InsertMarkers \in Sink
           /\ \A t \in Txns : ch.markers[t] <= InsertMarkers.markers[t]
           /\ InsertMarkers.rows = ch.rows
           /\ \A t \in Txns : Flushed(t) => InsertMarkers.markers[t] > 0
           /\ \A t \in Txns : InsertMarkers.markers[t] > 0 => ch.markers[t] > 0 \/ Flushed(t)
           /\ \A token \in InsertMarkers.tokens : \A k \in 1..Len(token[3]) :
                 IF token[1] = 0 THEN InsertMarkers.markers[token[3][k]] > 0
                                 ELSE InsertMarkers.rows[token[1]][token[3][k]] > 0
<1> DEFINE commits == flush.commits
           last == Last(commits)
<1>1. ch \in Sink /\ commits \in Seq(Txns) /\ commits # <<>> /\ Tables \in Nat
  BY CdcConstants DEF CdcInv, CdcShape, Sink, FlushIsOfWindow
<1>2. \A t : Flushed(t) <=> \E k \in 1..Len(commits) : commits[k] = t
  BY DEF Flushed
<1>3. last \in Txns /\ Token(0) = <<0, last, commits>>
  BY <1>1 DEF Last, Token
<1>4. \A token \in ch.tokens : \A k \in 1..Len(token[3]) :
          IF token[1] = 0 THEN ch.markers[token[3][k]] > 0
                          ELSE ch.rows[token[1]][token[3][k]] > 0
  BY DEF CdcInv, TokensTell
<1>5. ch.markers \in [Txns -> Nat]
  BY <1>1 DEF Sink
<1>6. \A t \in Txns : ch.markers[t] \in Nat
  BY <1>5
<1>7. ch.tokens \in SUBSET ((0..Tables) \X Txns \X Seq(Txns))
  BY <1>1 DEF Sink
<1>8. InsertMarkers = IF Token(0) \in ch.tokens THEN ch
                      ELSE [ch EXCEPT !.markers = Counted(@, commits),
                                      !.tokens = @ \union {Token(0)}]
  BY DEF InsertMarkers
<1> HIDE DEF commits, last
<1>9. CASE Token(0) \in ch.tokens
  <2>1. \A k \in 1..Len(commits) : ch.markers[commits[k]] > 0
    BY <1>1, <1>3, <1>4, <1>9
  <2> QED
    BY <1>1, <1>2, <1>4, <1>6, <1>8, <1>9, <2>1
<1>10. CASE Token(0) \notin ch.tokens
  <2> DEFINE now == Counted(ch.markers, commits)
             tokens == ch.tokens \union {<<0, last, commits>>}
  <2>1. /\ now \in [Txns -> Nat]
        /\ \A t \in Txns : ch.markers[t] <= now[t]
        /\ \A k \in 1..Len(commits) : now[commits[k]] > 0
    BY <1>1, <1>5, CountedGrows
  <2>2. \A t \in Txns : now[t] > 0 => ch.markers[t] > 0 \/ Flushed(t)
    <3> SUFFICES ASSUME NEW t \in Txns, now[t] > 0, ~ Flushed(t) PROVE ch.markers[t] > 0
      OBVIOUS
    <3>1. Times(commits, t) = 0
      <4>1. {k \in 1..Len(commits) : commits[k] = t} = {}
        BY <1>2
      <4> QED
        BY <4>1, FS_EmptySet DEF Times
    <3>2. now[t] = ch.markers[t]
      BY <1>6, <3>1 DEF Counted
    <3> QED
      BY <3>2
  <2>3. InsertMarkers = [ch EXCEPT !.markers = now, !.tokens = tokens]
    BY <1>1, <1>3, <1>8, <1>10 DEF Sink
  <2> HIDE DEF now
  <2>4. tokens \in SUBSET ((0..Tables) \X Txns \X Seq(Txns))
    BY <1>1, <1>3, <1>7
  <2>5. \A token \in tokens : \A k \in 1..Len(token[3]) :
            IF token[1] = 0 THEN now[token[3][k]] > 0
                            ELSE ch.rows[token[1]][token[3][k]] > 0
    <3> SUFFICES ASSUME NEW token \in tokens, NEW k \in 1..Len(token[3])
                 PROVE  IF token[1] = 0 THEN now[token[3][k]] > 0
                                        ELSE ch.rows[token[1]][token[3][k]] > 0
      OBVIOUS
    <3>1. CASE token = <<0, last, commits>>
      <4>1. token[1] = 0 /\ token[3] = commits
        BY <3>1
      <4> QED
        BY <2>1, <4>1
    <3>2. CASE token \in ch.tokens
      <4>1. token[1] \in 0..Tables /\ token[3] \in Seq(Txns)
        BY <1>7, <3>2
      <4>2. token[3][k] \in Txns
        BY <4>1
      <4>3. CASE token[1] = 0
        <5>1. ch.markers[token[3][k]] > 0
          BY <1>4, <3>2, <4>3
        <5>2. ch.markers[token[3][k]] \in Nat /\ now[token[3][k]] \in Nat
          BY <1>6, <2>1, <4>2
        <5> QED
          BY <2>1, <4>2, <4>3, <5>1, <5>2
      <4>4. CASE token[1] # 0
        BY <1>4, <3>2, <4>4
      <4> QED
        BY <4>3, <4>4
    <3> QED
      BY <3>1, <3>2
  <2>6. \A t \in Txns : Flushed(t) => now[t] > 0
    BY <1>2, <2>1
  <2> HIDE DEF tokens
  <2>7. InsertMarkers \in Sink
    BY <1>1, <2>1, <2>3, <2>4 DEF Sink
  <2>8. InsertMarkers.rows = ch.rows /\ InsertMarkers.tokens = tokens /\ InsertMarkers.markers = now
    BY <1>1, <2>3 DEF Sink
  <2> QED
    BY <2>1, <2>2, <2>5, <2>6, <2>7, <2>8
<1> QED
  BY <1>9, <1>10

\* A request lost after its effect left its data.
LEMMA LostAfter ==
    ASSUME NEW effect \in Sink
    PROVE  /\ [effect EXCEPT !.up = FALSE, !.outages = @ + 1] \in Sink
           /\ [effect EXCEPT !.up = FALSE, !.outages = @ + 1].rows = effect.rows
           /\ [effect EXCEPT !.up = FALSE, !.outages = @ + 1].markers = effect.markers
           /\ [effect EXCEPT !.up = FALSE, !.outages = @ + 1].tokens = effect.tokens
<1>1. 0 \in Nat
  OBVIOUS
<1> QED
  BY <1>1, SinkFields DEF Sink

LEMMA PostRowsKeeps ==
    ASSUME CdcInv, PostRows
    PROVE  CdcInv'
<1> USE DEF source, session, position
<1>1. ch \in Sink /\ flush \in FlushState /\ Tables \in Nat \ {0}
  BY CdcConstants DEF CdcInv, CdcShape, Sink, FlushState
<1>2. UNCHANGED <<source, session, ack, next_seq, window, position>> /\ flush.at = "insert"
  BY DEF PostRows, Request, End
<1>3. \/ ch' = InsertRows /\ flush' = [flush EXCEPT !.at = AfterRows, !.table = @ + 1]
      \/ ch' = ch /\ UNCHANGED flush
      \/ ch' = [InsertRows EXCEPT !.up = FALSE, !.outages = @ + 1] /\ UNCHANGED flush
  BY DEF PostRows, Request, End
<1>4. \A t : (InWindow(t)' <=> InWindow(t))
  BY <1>2 DEF InWindow, IsCommit
<1>5. /\ flush.table \in 1..Tables /\ flush.commits # <<>>
      /\ \A t \in Txns : Flushed(t) <=> InWindow(t)
      /\ \A o \in 1..Tables : \A t \in Txns :
            Flushed(t) /\ o < flush.table => ch.rows[o][t] > 0
  BY <1>2 DEF CdcInv, FlushIsOfWindow
<1>6. \A o \in 1..Tables : \A t \in Txns : ch.rows[o][t] \in Nat
  BY <1>1 DEF Sink
<1>7. \A t \in Txns : ch.markers[t] \in Nat
  BY <1>1 DEF Sink
<1>8. CASE ch' = ch /\ UNCHANGED flush
  <2>1. Grown
    BY <1>6, <1>7, <1>8 DEF Grown
  <2>2. TokensTell' /\ MarkedIsDone'
    BY <1>8 DEF CdcInv, TokensTell, MarkedIsDone, Done, Complete
  <2>3. \A t : Flushed(t)' <=> Flushed(t)
    BY <1>8 DEF Flushed
  <2>4. FlushIsOfWindow'
    BY <1>2, <1>4, <1>5, <1>8, <2>3 DEF FlushIsOfWindow, Idle
  <2> QED
    BY <1>1, <1>2, <1>8, <2>1, <2>2, <2>4, SentKeeps DEF FlushState
<1>9. CASE ch' # ch \/ ~ UNCHANGED flush
  <2>1. /\ ch' \in Sink /\ ch'.rows = InsertRows.rows /\ ch'.markers = ch.markers
        /\ ch'.tokens = InsertRows.tokens
    BY <1>2, <1>3, <1>9, RowsArrive, LostAfter
  <2>2. /\ \A o \in 1..Tables : \A t \in Txns : ch.rows[o][t] <= ch'.rows[o][t]
        /\ \A t \in Txns : Flushed(t) => ch'.rows[flush.table][t] > 0
    BY <1>2, <2>1, RowsArrive
  <2>3. Grown
    BY <1>7, <2>1, <2>2 DEF Grown
  <2>4. TokensTell'
    BY <1>2, <2>1, RowsArrive DEF TokensTell
  <2>5. MarkedIsDone'
    <3> SUFFICES ASSUME NEW t \in Txns, ch'.markers[t] > 0, NEW s \in 1..t PROVE Done(s)'
      BY DEF MarkedIsDone
    <3>1. Done(s)
      BY <2>1 DEF CdcInv, MarkedIsDone
    <3>2. s \in Txns
      BY CdcConstants DEF Txns
    <3> QED
      BY <1>1, <2>1, <2>3, <3>1, <3>2, StillDone
  <2>6. \A o \in 1..Tables : \A t \in Txns : ch'.rows[o][t] \in Nat
    BY <2>1 DEF Sink
  <2>7. \A o \in 1..Tables : \A t \in Txns :
            Flushed(t) /\ o <= flush.table => ch'.rows[o][t] > 0
    <3> SUFFICES ASSUME NEW o \in 1..Tables, NEW t \in Txns, Flushed(t), o <= flush.table
                 PROVE  ch'.rows[o][t] > 0
      OBVIOUS
    <3>1. CASE o = flush.table
      BY <2>2, <3>1
    <3>2. CASE o < flush.table
      <4>1. ch.rows[o][t] > 0 /\ ch.rows[o][t] <= ch'.rows[o][t]
        BY <1>5, <2>2, <3>2
      <4> QED
        BY <1>6, <2>6, <4>1
    <3> QED
      BY <1>1, <1>5, <3>1, <3>2
  <2>8. CASE UNCHANGED flush
    <3>1. \A t : Flushed(t)' <=> Flushed(t)
      BY <2>8 DEF Flushed
    <3>2. \A o \in 1..Tables : o < flush.table => o <= flush.table
      BY <1>1, <1>5
    <3>3. FlushIsOfWindow'
      BY <1>2, <1>4, <1>5, <2>7, <2>8, <3>1, <3>2 DEF FlushIsOfWindow, Idle
    <3> QED
      BY <1>1, <1>2, <2>1, <2>3, <2>4, <2>5, <2>8, <3>3, SentKeeps DEF FlushState
  <2>9. CASE flush' = [flush EXCEPT !.at = AfterRows, !.table = @ + 1]
    <3>1. /\ flush' \in FlushState /\ flush'.commits = flush.commits
          /\ flush'.at = AfterRows /\ flush'.table = flush.table + 1
      <4>1. AfterRows \in {"markers", "insert"} /\ flush.table + 1 \in Nat
        BY <1>1, <1>5 DEF AfterRows
      <4>2. flush' = [flush EXCEPT !.at = AfterRows, !.table = flush.table + 1]
        BY <2>9
      <4> HIDE DEF AfterRows
      <4> QED
        BY <1>1, <4>1, <4>2 DEF FlushState
    <3>2. AfterRows \in {"markers", "insert"}
          /\ (AfterRows = "markers" <=> flush.table = Tables)
      BY DEF AfterRows
    <3>3. \A t : Flushed(t)' <=> Flushed(t)
      BY <3>1 DEF Flushed
    <3>4. \A o \in 1..Tables : (flush'.at = "insert" => o < flush'.table) => o <= flush.table
      BY <1>1, <1>5, <3>1, <3>2
    <3>5. flush'.at = "insert" => flush'.table \in 1..Tables
      BY <1>1, <1>5, <3>1, <3>2
    <3>6. FlushIsOfWindow'
      BY <1>4, <1>5, <2>7, <3>1, <3>2, <3>3, <3>4, <3>5 DEF FlushIsOfWindow, Idle
    <3> QED
      BY <1>2, <2>1, <2>3, <2>4, <2>5, <3>1, <3>6, SentKeeps DEF FlushState
  <2> QED
    BY <1>3, <2>8, <2>9
<1> QED
  BY <1>8, <1>9

LEMMA PostMarkersKeeps ==
    ASSUME CdcInv, PostMarkers
    PROVE  CdcInv'
<1> USE DEF source, session, position
<1>1. ch \in Sink /\ flush \in FlushState /\ Tables \in Nat \ {0}
  BY CdcConstants DEF CdcInv, CdcShape, Sink, FlushState
<1>2. UNCHANGED <<source, session, ack, next_seq, window, position>> /\ flush.at = "markers"
  BY DEF PostMarkers, Request, End
<1>3. \/ ch' = InsertMarkers /\ flush' = [flush EXCEPT !.at = "verify"]
      \/ ch' = ch /\ UNCHANGED flush
      \/ ch' = [InsertMarkers EXCEPT !.up = FALSE, !.outages = @ + 1] /\ UNCHANGED flush
  BY DEF PostMarkers, Request, End
<1>4. \A t : InWindow(t)' <=> InWindow(t)
  BY <1>2 DEF InWindow, IsCommit
<1>5. /\ flush.commits # <<>>
      /\ \A t \in Txns : Flushed(t) <=> InWindow(t)
      /\ \A o \in 1..Tables : \A t \in Txns : Flushed(t) => ch.rows[o][t] > 0
  BY <1>2 DEF CdcInv, FlushIsOfWindow
<1>6. \A o \in 1..Tables : \A t \in Txns : ch.rows[o][t] \in Nat
  BY <1>1 DEF Sink
<1>7. \A t \in Txns : ch.markers[t] \in Nat
  BY <1>1 DEF Sink
<1>8. \A t : Flushed(t)' <=> Flushed(t)
  BY <1>1, <1>3 DEF Flushed, FlushState
<1>9. /\ flush' \in FlushState /\ flush'.commits = flush.commits
      /\ \/ flush'.at = "markers" \/ (flush'.at = "verify" /\ ch' = InsertMarkers)
  BY <1>1, <1>2, <1>3 DEF FlushState
<1>10. CASE ch' = ch /\ UNCHANGED flush
  <2>1. Grown
    BY <1>6, <1>7, <1>10 DEF Grown
  <2>2. TokensTell' /\ MarkedIsDone'
    BY <1>10 DEF CdcInv, TokensTell, MarkedIsDone, Done, Complete
  <2>3. FlushIsOfWindow'
    BY <1>2, <1>4, <1>5, <1>8, <1>10 DEF FlushIsOfWindow, Idle
  <2> QED
    BY <1>1, <1>2, <1>9, <1>10, <2>1, <2>2, <2>3, SentKeeps DEF FlushState
<1>11. CASE ch' # ch \/ ~ UNCHANGED flush
  <2>1. /\ ch' \in Sink /\ ch'.markers = InsertMarkers.markers /\ ch'.rows = ch.rows
        /\ ch'.tokens = InsertMarkers.tokens
    BY <1>2, <1>3, <1>11, MarkersArrive, LostAfter
  <2>2. /\ \A t \in Txns : ch.markers[t] <= ch'.markers[t]
        /\ \A t \in Txns : Flushed(t) => ch'.markers[t] > 0
        /\ \A t \in Txns : ch'.markers[t] > 0 => ch.markers[t] > 0 \/ Flushed(t)
    BY <1>2, <2>1, MarkersArrive
  <2>3. Grown
    BY <1>6, <2>1, <2>2 DEF Grown
  <2>4. TokensTell'
    BY <1>2, <2>1, MarkersArrive DEF TokensTell
  <2>5. MarkedIsDone'
    <3> SUFFICES ASSUME NEW t \in Txns, ch'.markers[t] > 0, NEW s \in 1..t PROVE Done(s)'
      BY DEF MarkedIsDone
    <3>1. s \in Txns
      BY CdcConstants DEF Txns
    <3>2. Done(s) \/ InWindow(s)
      BY <1>5, <2>2 DEF CdcInv, MarkedIsDone, ReceivedIsKept
    <3>3. CASE Done(s)
      BY <1>1, <2>1, <2>3, <3>1, <3>3, StillDone
    <3>4. CASE InWindow(s)
      <4>1. Flushed(s)
        BY <1>5, <3>1, <3>4
      <4> QED
        BY <1>5, <2>1, <2>2, <3>1, <4>1 DEF Done, Complete
    <3> QED
      BY <3>2, <3>3, <3>4
  <2>6. FlushIsOfWindow'
    BY <1>4, <1>5, <1>8, <1>9, <2>1, <2>2 DEF FlushIsOfWindow, Idle
  <2> QED
    BY <1>2, <1>9, <2>1, <2>3, <2>4, <2>5, <2>6, SentKeeps DEF FlushState
<1> QED
  BY <1>10, <1>11

LEMMA VerifyMarkersKeeps ==
    ASSUME CdcInv, VerifyMarkers
    PROVE  CdcInv'
<1> USE DEF source, session, position
<1>1. ch \in Sink /\ flush \in FlushState
  BY DEF CdcInv, CdcShape, Sink, FlushState
<1>2. UNCHANGED <<source, session, ack, next_seq, window, position>> /\ flush.at = "verify"
  BY DEF VerifyMarkers, Request, End
<1>3. UNCHANGED flush \/ flush' = [flush EXCEPT !.at = "ack"]
  BY DEF VerifyMarkers, Request, End
<1>4. flush' \in FlushState /\ flush'.commits = flush.commits /\ flush'.at \in {"verify", "ack"}
  BY <1>1, <1>2, <1>3 DEF FlushState
<1>5. ch' = ch \/ ch' = [ch EXCEPT !.up = FALSE, !.outages = @ + 1]
  BY DEF VerifyMarkers, Request, End
<1>6. ch' \in Sink /\ ch'.rows = ch.rows /\ ch'.markers = ch.markers /\ ch'.tokens = ch.tokens
  BY <1>1, <1>5, LostAfter
<1>7. \A t : (InWindow(t)' <=> InWindow(t)) /\ (Flushed(t)' <=> Flushed(t))
  BY <1>2, <1>4 DEF InWindow, IsCommit, Flushed
<1>8. Grown
  <2>1. \A o \in 1..Tables : \A t \in Txns : ch.rows[o][t] \in Nat
    BY <1>1 DEF Sink
  <2>2. \A t \in Txns : ch.markers[t] \in Nat
    BY <1>1 DEF Sink
  <2> QED
    BY <1>6, <2>1, <2>2 DEF Grown
<1>9. TokensTell' /\ MarkedIsDone'
  BY <1>6 DEF CdcInv, TokensTell, MarkedIsDone, Done, Complete
<1>10. FlushIsOfWindow'
  <2>1. /\ flush.commits # <<>>
        /\ \A t \in Txns : Flushed(t) <=> InWindow(t)
        /\ \A o \in 1..Tables : \A t \in Txns : Flushed(t) => ch.rows[o][t] > 0
        /\ \A t \in Txns : Flushed(t) => ch.markers[t] > 0
    BY <1>2 DEF CdcInv, FlushIsOfWindow
  <2> QED
    BY <1>4, <1>6, <1>7, <2>1 DEF FlushIsOfWindow, Idle
<1> QED
  BY <1>2, <1>4, <1>6, <1>8, <1>9, <1>10, SentKeeps DEF FlushState

\* The window is done: PostgreSQL is told so, or the task ends untold.
LEMMA AcknowledgeKeeps ==
    ASSUME CdcInv, Acknowledge
    PROVE  CdcInv'
<1> USE DEF source, session, position
<1> DEFINE last == Last(flush.commits)
<1>1. /\ wal \in 0..MaxTxn /\ ledger \in 0..wal /\ ack \in 0..wal /\ MaxTxn \in Nat
      /\ conn.txn \in 1..(wal + 1) /\ conn.from \in 1..conn.txn
      /\ last_visibility_lsn \in 0..wal /\ next_seq \in Nat /\ WindowCommits \in Nat \ {0}
      /\ conn \in Session /\ ch \in Sink /\ conn.i \in 1..Len(Messages(conn.txn))
      /\ flush \in FlushState
  BY CdcConstants DEF CdcInv, CdcTypeOK, CdcShape, Session, Sink, FlushState
<1>2. /\ UNCHANGED <<wal, ledger, conn, ch, next_seq, last_visibility_lsn>>
      /\ ack' = IF conn.up /\ last > ack THEN last ELSE ack
      /\ flush.at = "ack"
      /\ \/ applied_lsn' = last /\ window' = <<>> /\ flush' = NoFlush
         \/ ~conn.up /\ UNCHANGED <<applied_lsn, window, flush>> /\ task' = "connection"
  BY DEF Acknowledge, Confirm, End
<1>3. /\ flush.commits # <<>>
      /\ \A t \in Txns : Flushed(t) <=> InWindow(t)
      /\ \A t \in Txns : Flushed(t) => Done(t)
      /\ \A t \in Txns : Flushed(t) => ch.markers[t] > 0
  BY <1>2 DEF CdcInv, FlushIsOfWindow, Done, Complete
<1>4. last \in Txns /\ Flushed(last)
  <2>1. flush.commits \in Seq(Txns)
    BY <1>1 DEF FlushState
  <2>2. Len(flush.commits) \in 1..Len(flush.commits)
    BY <1>3, <2>1
  <2> QED
    BY <2>1, <2>2 DEF Flushed, Last
<1> HIDE DEF last
<1>5. last \in 0..wal /\ \A t \in 1..last : Done(t)
  <2>1. last <= wal
    BY <1>3, <1>4 DEF CdcInv, ReceivedIsKept
  <2> QED
    BY <1>1, <1>3, <1>4, <2>1 DEF CdcInv, MarkedIsDone, Txns
<1>6. CASE ~conn.up /\ UNCHANGED <<applied_lsn, window, flush>> /\ task' = "connection"
  <2>1. (conn.i \in 1..Len(Messages(conn.txn)))'
    BY <1>1, <1>2 DEF Messages
  <2>2. wal' \in wal..MaxTxn
    BY <1>1, <1>2
  <2> QED
    BY <1>1, <1>2, <1>6, <2>1, <2>2, DataUntouched
<1>7. CASE applied_lsn' = last /\ window' = <<>> /\ flush' = NoFlush
  <2>1. \A t : Done(t)' <=> Done(t)
    BY <1>2 DEF Done, Complete
  <2>2. \A t : ~ InWindow(t)'
    <3>1. Len(window') = 0
      BY <1>7
    <3> QED
      BY <3>1 DEF InWindow
  <2>3. flush'.at = "idle" /\ flush' \in FlushState
    <3>1. \A empty \in Seq(Txns) : [at |-> "idle", commits |-> empty, table |-> 1] \in FlushState
      BY DEF FlushState
    <3>2. <<>> \in Seq(Txns)
      OBVIOUS
    <3>3. NoFlush \in FlushState
      BY <3>1, <3>2, Zenon DEF NoFlush
    <3> QED
      BY <1>7, <3>3 DEF NoFlush
  <2>4. (CommitsIn(window) = 0)'
    <3>1. CommitsIn(window') = 0
      BY <1>7, CommitsInNone
    <3> QED
      BY <3>1 DEF CommitsIn, IsCommit
  <2>5. CdcTypeOK'
    <3>1. applied_lsn' \in 0..wal /\ ack' \in 0..wal
      BY <1>1, <1>2, <1>5, <1>7
    <3>2. \A k \in 1..Len(window') : window'[k].seq = next_seq' - Len(window') + k - 1
      <4>1. Len(window') = 0
        BY <1>7
      <4> QED
        BY <4>1
    <3>3. (CommitsIn(window) <= WindowCommits)'
      BY <1>1, <2>4
    <3> QED
      BY <1>1, <1>2, <2>3, <3>1, <3>2, <3>3 DEF CdcTypeOK
  <2>6. CdcShape'
    <3>1. (Messages(conn.txn))' = Messages(conn.txn)
      BY <1>2 DEF Messages
    <3>2. window' \in Seq(SinkFrame)
      BY <1>7
    <3> QED
      BY <1>1, <1>2, <2>3, <3>1, <3>2 DEF CdcShape, Session, Sink, FlushState, SinkFrame, Payloads
  <2>7. ReceivedIsKept'
    <3>1. \A t \in 1..(conn.txn - 1) : t \in Txns /\ (Done(t) \/ InWindow(t))
      BY <1>1 DEF CdcInv, ReceivedIsKept, Txns
    <3>2. \A t \in 1..(conn.txn - 1) : Done(t)
      BY <1>3, <3>1
    <3> QED
      BY <1>2, <2>1, <2>2, <3>2 DEF ReceivedIsKept
  <2>8. MarkedIsDone'
    BY <1>2, <2>1 DEF CdcInv, MarkedIsDone
  <2>9. PositionsAreDone'
    <3>1. \A t \in 1..applied_lsn' : Done(t)
      BY <1>5, <1>7
    <3>2. \A t \in 1..ack' : Done(t)
      BY <1>2, <1>5 DEF CdcInv, PositionsAreDone
    <3> QED
      BY <2>1, <3>1, <3>2 DEF PositionsAreDone
  <2>10. TokensTell'
    BY <1>2 DEF CdcInv, TokensTell
  <2>11. FlushIsOfWindow'
    <3>1. (CommitsIn(window) < WindowCommits)'
      BY <1>1, <2>4
    <3> QED
      BY <2>3, <3>1 DEF FlushIsOfWindow
  <2> QED
    BY <2>5, <2>6, <2>7, <2>8, <2>9, <2>10, <2>11 DEF CdcInv
<1> QED
  BY <1>2, <1>6, <1>7

-----------------------------------------------------------------------------
(***************************************************************************)
(* The theorems.                                                           *)
(***************************************************************************)
LEMMA CdcStart == CdcInit => CdcInv
<1> SUFFICES ASSUME CdcInit PROVE CdcInv
  OBVIOUS
<1> USE DEF CdcInit
<1>1. MaxTxn \in Nat /\ WindowCommits \in Nat \ {0} /\ Tables \in Nat \ {0}
  BY CdcConstants
<1>2. /\ Len(window) = 0 /\ window \in Seq(SinkFrame) /\ CommitsIn(window) = 0
      /\ flush.at = "idle"
  BY CommitsInNone DEF NoFlush
<1>3. CdcTypeOK
  BY <1>1, <1>2 DEF CdcTypeOK
<1>4. CdcShape
  <2>1. conn \in Session /\ conn.i \in 1..Len(Messages(conn.txn))
    <3>1. TRUE \in BOOLEAN
      OBVIOUS
    <3>2. \A u \in BOOLEAN : [up |-> u, from |-> 1, txn |-> 1, i |-> 1] \in Session
      BY DEF Session
    <3>3. conn \in Session
      BY <3>1, <3>2, Zenon
    <3> QED
      BY <3>3, MessagesStart
  <2>2. ch \in Sink
    <3>1. TRUE \in BOOLEAN /\ {} \in SUBSET ((0..Tables) \X Txns \X Seq(Txns))
      OBVIOUS
    <3>2. \A u \in BOOLEAN :
              [up |-> u, outages |-> 0, rows |-> [o \in 1..Tables |-> [t \in Txns |-> 0]],
               markers |-> [t \in Txns |-> 0], tokens |-> {}, visibility |-> 0] \in Sink
      BY <3>1 DEF Sink
    <3> QED
      BY <3>1, <3>2, Zenon
  <2>3. flush \in FlushState
    <3>1. \A empty \in Seq(Txns) : [at |-> "idle", commits |-> empty, table |-> 1] \in FlushState
      BY DEF FlushState
    <3>2. <<>> \in Seq(Txns)
      OBVIOUS
    <3> QED
      BY <3>1, <3>2, Zenon DEF NoFlush
  <2> QED
    BY <1>2, <2>1, <2>2, <2>3 DEF CdcShape, Session, Sink, FlushState, SinkFrame, Payloads
<1>5. \A t : ~ InWindow(t)
  BY <1>2 DEF InWindow
<1>6. ReceivedIsKept /\ PositionsAreDone
  BY <1>5 DEF ReceivedIsKept, PositionsAreDone
<1>7. MarkedIsDone /\ TokensTell
  BY DEF MarkedIsDone, TokensTell
<1>8. FlushIsOfWindow
  BY <1>1, <1>2 DEF FlushIsOfWindow
<1> QED
  BY <1>3, <1>4, <1>6, <1>7, <1>8 DEF CdcInv

LEMMA CdcKeeps == CdcInv /\ [CdcNext]_cdcVars => CdcInv'
<1> SUFFICES ASSUME CdcInv, [CdcNext]_cdcVars PROVE CdcInv'
  OBVIOUS
<1>1. CASE \/ Commit \/ LedgerAppend \/ LoseConnection \/ Outage \/ Recover
           \/ \E target \in Txns : Query(target)
           \/ UNCHANGED cdcVars
  BY <1>1, OutsideKeeps
<1>2. CASE Receive
  BY <1>2, ReceiveKeeps
<1>3. CASE Flush
  <2>1. CASE Resolve
    BY <2>1, ResolveKeeps
  <2>2. CASE PostRows
    BY <2>2, PostRowsKeeps
  <2>3. CASE PostMarkers
    BY <2>3, PostMarkersKeeps
  <2>4. CASE VerifyMarkers
    BY <2>4, VerifyMarkersKeeps
  <2>5. CASE Acknowledge
    BY <2>5, AcknowledgeKeeps
  <2> QED
    BY <1>3, <2>1, <2>2, <2>3, <2>4, <2>5 DEF Flush
<1>4. CASE Keepalive \/ Reconnect \/ Stop
  BY <1>4, BetweenFlushesKeeps
<1> QED
  BY <1>1, <1>2, <1>3, <1>4 DEF CdcNext

\* The positions, the session and the window are what the task takes them for,
\* and each received transaction is done or still in the window: what every
\* request, loss and reconnect of the replication task keeps.
THEOREM CdcInductive == CdcSpec => []CdcInv
<1>1. CdcInit => CdcInv
  BY CdcStart
<1>2. CdcInv /\ [CdcNext]_cdcVars => CdcInv'
  BY CdcKeeps
<1> QED
  BY <1>1, <1>2, PTL DEF CdcSpec

\* The window never passes its limit, its frames are numbered as the decoder
\* wants them, and no position is ahead of the source.
THEOREM CdcTypes == CdcSpec => []CdcTypeOK
<1>1. CdcInv => CdcTypeOK
  BY DEF CdcInv
<1> QED
  BY <1>1, CdcInductive, PTL

\* A marker proves every transaction up to it, in every table.
THEOREM MarkerCorrect == CdcSpec => []MarkerProves
<1>1. CdcInv => MarkerProves
  <2> SUFFICES ASSUME CdcInv, NEW t \in 1..LastMarker
               PROVE  Complete(t) /\ ch.markers[t] > 0
    BY DEF MarkerProves
  <2>1. LastMarker \in Txns /\ ch.markers[LastMarker] > 0
    BY LastMarkerIs
  <2> QED
    BY <2>1 DEF CdcInv, MarkedIsDone, Done
<1> QED
  BY <1>1, CdcInductive, PTL

\* What PostgreSQL was told it may forget is in ClickHouse, data and proof.
THEOREM FeedbackCorrect == CdcSpec => []FeedbackIsApplied
<1>1. CdcInv => FeedbackIsApplied
  BY DEF CdcInv, PositionsAreDone, FeedbackIsApplied, Done
<1> QED
  BY <1>1, CdcInductive, PTL
=============================================================================
