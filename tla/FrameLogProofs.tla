--------------------------- MODULE FrameLogProofs ---------------------------
(***************************************************************************)
(* FrameLog's invariants and its refinement of Custody, for every segment  *)
(* size, payload, bound and append mode.                                   *)
(***************************************************************************)
EXTENDS FrameLog, TLAPS

-----------------------------------------------------------------------------
(***************************************************************************)
(* Type correctness.                                                       *)
(***************************************************************************)

\* What TypeOK says of the files alone.
FilesType(F, S, k) ==
    /\ DOMAIN F \in SUBSET Nat
    /\ F \in [DOMAIN F -> Seq(Frame)]
    /\ S \in [DOMAIN F -> Nat]
    /\ k \in DOMAIN F

\* The frame the next append builds is a frame.
LEMMA NextFrameType ==
    ASSUME TypeOK, NEW c \in BOOLEAN, NEW p \in Payload
    PROVE  /\ NextFrame(c, p) \in Frame
           /\ NextFrame(c, p).seq = next_seq
           /\ NextFrame(c, p).txn = head + 1
           /\ NextFrame(c, p).txn_complete = c
BY DEF TypeOK, NextFrame, Frame

LEMMA FrameFields ==
    ASSUME NEW f \in Frame
    PROVE  f.seq \in Nat /\ f.txn \in Nat /\ f.txn_complete \in BOOLEAN
BY DEF Frame

LEMMA InitTypeOK == Create => TypeOK
BY DEF Create, Empty, TypeOK, Unset, DurableMark

\* A commit waiting for its mark yields a mark.
LEMMA MarkType ==
    ASSUME NEW c \in Nat \X Nat
    PROVE  /\ Mark(c) \in DurableMark
           /\ Mark(c).seq = c[1] /\ Mark(c).lsn = c[2] /\ Mark(c).valid
BY DEF Mark, DurableMark

\* One write keeps the files' type.
LEMMA WriteType ==
    ASSUME TypeOK, NEW f \in Frame, Write(f)
    PROVE  /\ DOMAIN files' = DOMAIN files
           /\ files' \in [DOMAIN files -> Seq(Frame)]
           /\ Append(files[cur], f) \in Seq(Frame)
<1>1. files' = [files EXCEPT ![cur] = Append(files[cur], f)]
  BY DEF Write
<1>2. Append(files[cur], f) \in Seq(Frame)
  BY DEF TypeOK
<1> QED
  BY <1>1, <1>2 DEF TypeOK

LEMMA TakeType ==
    ASSUME TypeOK, NEW c \in BOOLEAN, NEW p \in Payload, Take(c, p)
    PROVE  /\ DOMAIN files' = DOMAIN files
           /\ files' \in [DOMAIN files -> Seq(Frame)]
           /\ spill' \in Seq(Frame)
           /\ next_seq' \in Nat
           /\ head' \in Nat
<1>1. NextFrame(c, p) \in Frame
  BY NextFrameType
<1>2. next_seq' \in Nat /\ head' \in Nat
  BY DEF TypeOK, Take
<1>3. CASE stalled
  <2>1. spill' = Append(spill, NextFrame(c, p)) /\ files' = files
    BY <1>3 DEF Take
  <2>2. spill' \in Seq(Frame)
    BY <1>1, <2>1 DEF TypeOK
  <2> QED
    BY <1>2, <2>1, <2>2 DEF TypeOK
<1>4. CASE ~stalled
  <2>1. Write(NextFrame(c, p)) /\ spill' = spill
    BY <1>4 DEF Take
  <2>2. DOMAIN files' = DOMAIN files /\ files' \in [DOMAIN files -> Seq(Frame)]
    BY <1>1, <2>1, WriteType
  <2> QED
    BY <1>2, <2>1, <2>2 DEF TypeOK
<1> QED
  BY <1>3, <1>4 DEF TypeOK

LEMMA RollType ==
    ASSUME TypeOK, RollSegment
    PROVE  /\ FilesType(files', synced', cur')
           /\ DOMAIN files' = DOMAIN files \union {next_seq}
<1> DEFINE D == DOMAIN files \union {next_seq}
<1>1. D \in SUBSET Nat /\ next_seq \in D
  BY DEF TypeOK
<1>2. files' = [n \in D |-> IF n = next_seq THEN <<>> ELSE files[n]]
  BY DEF RollSegment
<1>3. DOMAIN files' = D
  BY <1>2
<1>4. files' \in [D -> Seq(Frame)]
  <2>1. \A n \in D : (IF n = next_seq THEN <<>> ELSE files[n]) \in Seq(Frame)
    BY DEF TypeOK
  <2> QED
    BY <1>2, <2>1
<1>5. Len(files[cur]) \in Nat
  BY DEF TypeOK
<1>6. synced' \in [D -> Nat]
  BY <1>5 DEF TypeOK, RollSegment
<1> QED
  BY <1>1, <1>3, <1>4, <1>6 DEF RollSegment, FilesType

LEMMA SyncType ==
    ASSUME TypeOK, Sync
    PROVE  synced' \in [DOMAIN files -> Nat]
<1>1. Len(files[cur]) \in Nat
  BY DEF TypeOK
<1> QED
  BY <1>1 DEF TypeOK, Sync

LEMMA SyncAndRollType ==
    ASSUME TypeOK, SyncAndRoll
    PROVE  FilesType(files', synced', cur')
<1>1. CASE Full(files[cur])
  BY <1>1, RollType DEF SyncAndRoll
<1>2. CASE ~Full(files[cur])
  BY <1>2, SyncType DEF TypeOK, SyncAndRoll, FilesType
<1> QED
  BY <1>1, <1>2

LEMMA PowerLossType ==
    ASSUME TypeOK, PowerLoss
    PROVE  FilesType(files', synced', cur') /\ DOMAIN files' = DOMAIN files
<1>1. PICK keep \in [Unsynced -> 0..MaxSeq] :
         /\ \A n \in Unsynced : keep[n] \in synced[n]..Len(files[n])
         /\ files' = [n \in DOMAIN files |->
                        IF n \in Unsynced THEN SubSeq(files[n], 1, keep[n]) ELSE files[n]]
         /\ synced' = [n \in DOMAIN files |->
                        IF n \in Unsynced THEN keep[n] ELSE synced[n]]
  BY DEF PowerLoss
<1>2. \A n \in Unsynced : keep[n] \in Nat /\ SubSeq(files[n], 1, keep[n]) \in Seq(Frame)
  BY <1>1 DEF TypeOK, Unsynced
<1>3. files' \in [DOMAIN files -> Seq(Frame)]
  BY <1>1, <1>2 DEF TypeOK
<1>4. synced' \in [DOMAIN files -> Nat]
  BY <1>1, <1>2 DEF TypeOK
<1> QED
  BY <1>3, <1>4 DEF TypeOK, PowerLoss, LoseMemory, FilesType

LEMMA ResumeAtType ==
    ASSUME TypeOK, NEW n \in DOMAIN files, NEW i \in DOMAIN files[n], ResumeAt(n, i)
    PROVE  /\ FilesType(files', synced', cur')
           /\ next_seq' \in Nat /\ durable' \in DurableMark /\ head' \in Nat
<1> DEFINE b == files[n][i]
           K == {m \in DOMAIN files : m <= n} \union {b.seq + 1}
<1>1. b \in Frame /\ i \in 1..Len(files[n]) /\ Len(files[n]) \in Nat
  BY DEF TypeOK
<1>2. b.seq \in Nat /\ b.txn \in Nat
  BY <1>1, FrameFields
<1> HIDE DEF b
<1>3. K \in SUBSET Nat /\ b.seq + 1 \in K
  BY <1>2 DEF TypeOK
<1>4. files' = [m \in K |-> IF m = b.seq + 1 THEN <<>>
                            ELSE IF m = n THEN SubSeq(files[n], 1, i) ELSE files[m]]
  BY DEF ResumeAt, Cut, b
<1>5. synced' = [m \in K |-> IF m = b.seq + 1 THEN 0
                             ELSE IF m = n THEN i ELSE synced[m]]
  BY DEF ResumeAt, Cut, b
<1>6. SubSeq(files[n], 1, i) \in Seq(Frame)
  BY <1>1 DEF TypeOK
<1>7. files' \in [K -> Seq(Frame)] /\ DOMAIN files' = K
  <2>1. \A m \in K : (IF m = b.seq + 1 THEN <<>>
                      ELSE IF m = n THEN SubSeq(files[n], 1, i) ELSE files[m]) \in Seq(Frame)
    BY <1>6 DEF TypeOK
  <2> QED
    BY <1>4, <2>1
<1>8. synced' \in [K -> Nat]
  BY <1>1, <1>5 DEF TypeOK
<1>9. cur' = b.seq + 1 /\ next_seq' = b.seq + 1 /\ head' = b.txn /\ durable' = Mark(<<b.seq, b.txn>>)
  BY DEF ResumeAt, Cut, b
<1> QED
  BY <1>2, <1>3, <1>7, <1>8, <1>9, MarkType DEF FilesType

LEMMA ResumeEmptyType ==
    ASSUME ResumeEmpty
    PROVE  /\ FilesType(files', synced', cur')
           /\ next_seq' \in Nat /\ durable' \in DurableMark /\ head' \in Nat
BY DEF ResumeEmpty, FilesType, Unset, DurableMark

\* The one fact beyond types that type correctness needs: the second half of
\* an append finds the commit its first half left.
SyncHasCommit == pc = "sync" => pending_commit # NoCommit

LEMMA NextTypeOK ==
    ASSUME TypeOK, SyncHasCommit, [Next]_logVars
    PROVE  TypeOK' /\ SyncHasCommit'
<1>1. ASSUME NEW c \in BOOLEAN, NEW p \in Payload, AppendFrame(c, p)
      PROVE  TypeOK' /\ SyncHasCommit'
  <2>1. Take(c, p) /\ pc = "idle"
    BY <1>1 DEF AppendFrame, Take
  <2>2. <<next_seq, head + 1>> \in Nat \X Nat
    BY DEF TypeOK
  <2>3. pending_commit' \in (Nat \X Nat) \union {NoCommit} /\ pc' \in {"idle", "sync", "drain"}
        /\ SyncHasCommit'
    BY <1>1, <2>1, <2>2, NoCommitAssumption DEF TypeOK, AppendFrame, SyncHasCommit
  <2> QED
    BY <1>1, <2>1, <2>3, TakeType DEF TypeOK, AppendFrame
<1>2. ASSUME NEW c \in BOOLEAN, NEW p \in Payload, AppendDeferred(c, p)
      PROVE  TypeOK' /\ SyncHasCommit'
  <2>1. Take(c, p) /\ pc = "idle"
    BY <1>2 DEF AppendDeferred, Take
  <2>2. <<next_seq, head + 1>> \in Nat \X Nat
    BY DEF TypeOK
  <2>3. pending_commit' \in (Nat \X Nat) \union {NoCommit} /\ pc' \in {"idle", "sync", "drain"}
        /\ SyncHasCommit'
    BY <1>2, <2>1, <2>2, NoCommitAssumption DEF TypeOK, AppendDeferred, SyncHasCommit
  <2> QED
    BY <1>2, <2>1, <2>3, TakeType DEF TypeOK, AppendDeferred
<1>3. CASE SyncCommit
  <2>1. durable' \in DurableMark
    BY <1>3, MarkType DEF TypeOK, SyncCommit, SyncHasCommit
  <2> QED
    BY <1>3, <2>1, SyncAndRollType DEF TypeOK, SyncCommit, SyncHasCommit, FilesType
<1>4. CASE FlushPending
  <2>1. durable' \in DurableMark
    BY <1>4, MarkType DEF TypeOK, FlushPending
  <2>2. synced' \in [DOMAIN files -> Nat]
    BY <1>4, SyncType DEF FlushPending
  <2> QED
    BY <1>4, <2>1, <2>2 DEF TypeOK, FlushPending, SyncHasCommit
<1>5. CASE Stall
  BY <1>5 DEF TypeOK, Stall, SyncHasCommit
<1>6. CASE DrainStart
  BY <1>6 DEF TypeOK, DrainStart, SyncHasCommit
<1>7. CASE DrainFrame
  <2>1. Head(spill) \in Frame /\ Tail(spill) \in Seq(Frame)
    BY <1>7 DEF TypeOK, DrainFrame
  <2>2. Write(Head(spill))
    BY <1>7 DEF DrainFrame
  <2>3. DOMAIN files' = DOMAIN files /\ files' \in [DOMAIN files -> Seq(Frame)]
    BY <2>1, <2>2, WriteType
  <2>4. last_commit' \in (Nat \X Nat) \union {NoCommit}
    <3>1. <<Head(spill).seq, Head(spill).txn>> \in Nat \X Nat
      BY <2>1, FrameFields
    <3> QED
      BY <1>7, <3>1 DEF TypeOK, DrainFrame
  <2> QED
    BY <1>7, <2>1, <2>3, <2>4 DEF TypeOK, DrainFrame, SyncHasCommit
<1>8. CASE DrainSync
  <2>1. durable' \in DurableMark
    BY <1>8, MarkType DEF TypeOK, DrainSync
  <2> QED
    BY <1>8, <2>1, SyncAndRollType DEF TypeOK, DrainSync, SyncHasCommit, FilesType
<1>9. CASE Kill
  <2>1. torn' \in BOOLEAN /\ up' \in BOOLEAN /\ stalled' \in BOOLEAN
    BY <1>9, Zenon DEF Kill, LoseMemory
  <2>2. /\ pc' = "idle" /\ spill' = <<>> /\ pending_commit' = NoCommit
        /\ last_commit' = NoCommit /\ files' = files /\ synced' = synced
        /\ cur' = cur /\ next_seq' = next_seq /\ durable' = durable /\ head' = head
    BY <1>9 DEF Kill, LoseMemory
  <2> QED
    BY <2>1, <2>2 DEF TypeOK, SyncHasCommit
<1>10. CASE PowerLoss
  <2>1. torn' \in BOOLEAN /\ up' \in BOOLEAN /\ stalled' \in BOOLEAN
    BY <1>10, Zenon DEF PowerLoss, LoseMemory
  <2>2. /\ pc' = "idle" /\ spill' = <<>> /\ pending_commit' = NoCommit
        /\ last_commit' = NoCommit
        /\ cur' = cur /\ next_seq' = next_seq /\ durable' = durable /\ head' = head
    BY <1>10 DEF PowerLoss, LoseMemory
  <2>3. FilesType(files', synced', cur')
    BY <1>10, PowerLossType
  <2> QED
    BY <2>1, <2>2, <2>3 DEF TypeOK, SyncHasCommit, FilesType
<1>11. CASE Resume
  <2>1. /\ FilesType(files', synced', cur')
        /\ next_seq' \in Nat /\ durable' \in DurableMark /\ head' \in Nat
    BY <1>11, ResumeAtType, ResumeEmptyType DEF Resume
  <2>2. /\ up' = TRUE /\ torn' = FALSE /\ pending_commit' = pending_commit
        /\ stalled' = stalled /\ spill' = spill /\ last_commit' = last_commit /\ pc' = pc
    BY <1>11 DEF Resume
  <2> QED
    BY <2>1, <2>2 DEF TypeOK, SyncHasCommit, FilesType
<1>12. CASE UNCHANGED logVars
  BY <1>12 DEF TypeOK, logVars, SyncHasCommit
<1> QED
  BY <1>1, <1>2, <1>3, <1>4, <1>5, <1>6, <1>7, <1>8, <1>9, <1>10, <1>11, <1>12
  DEF Next, Owner

\* Type correctness: every step of the log's owner, every crash and every
\* resume keeps the disk and memory state within its types.
THEOREM TypeCorrect == Spec => []TypeOK
<1>1. Create => TypeOK /\ SyncHasCommit
  BY InitTypeOK DEF Create, Empty, SyncHasCommit
<1>2. TypeOK /\ SyncHasCommit /\ [Next]_logVars => TypeOK' /\ SyncHasCommit'
  BY NextTypeOK
<1> QED
  BY <1>1, <1>2, PTL DEF Spec

-----------------------------------------------------------------------------
(***************************************************************************)
(* The geometry of the files: what each disk operation does to the frames  *)
(* on disk, to the tiling and to what is synced.                           *)
(***************************************************************************)
Geometry == Contiguous /\ Tiled /\ EarlierSynced

\* A frame is on disk when some file holds it at some index.
LEMMA DiskPlaces ==
    ASSUME TypeOK
    PROVE  /\ \A n \in DOMAIN files : /\ Len(files[n]) \in Nat
                                      /\ DOMAIN files[n] = 1..Len(files[n])
                                      /\ files[n] \in Seq(Frame)
                                      /\ n \in Nat
           /\ \A f : f \in OnDisk <=> \E n \in DOMAIN files : \E i \in 1..Len(files[n]) :
                                         f = files[n][i]
           /\ \A f \in OnDisk : f \in Frame
           /\ \A f : f \in OnStableDisk <=> \E n \in DOMAIN files : \E i \in 1..synced[n] :
                                               f = files[n][i]
<1>1. \A n \in DOMAIN files : /\ Len(files[n]) \in Nat
                              /\ DOMAIN files[n] = 1..Len(files[n])
                              /\ files[n] \in Seq(Frame)
                              /\ n \in Nat
  BY DEF TypeOK
<1>2. \A f : f \in OnDisk <=> \E n \in DOMAIN files : \E i \in 1..Len(files[n]) :
                                 f = files[n][i]
  BY <1>1 DEF OnDisk
<1>3. \A n \in DOMAIN files : \A i \in 1..Len(files[n]) : files[n][i] \in Frame
  BY <1>1
<1>4. \A f \in OnDisk : f \in Frame
  BY <1>2, <1>3
<1>5. \A f : f \in OnStableDisk <=> \E n \in DOMAIN files : \E i \in 1..synced[n] :
                                       f = files[n][i]
  BY DEF OnStableDisk
<1> QED
  BY <1>1, <1>2, <1>4, <1>5

\* One frame is appended to the open file.
LEMMA WriteEffect ==
    ASSUME TypeOK, TypeOK', Geometry, NEW f \in Frame, f.seq = End, Write(f),
           UNCHANGED <<cur, synced>>
    PROVE  /\ Geometry'
           /\ End' = End + 1
           /\ OnDisk' = OnDisk \union {f}
           /\ OnStableDisk' = OnStableDisk
           /\ files[cur] \in Seq(Frame)
           /\ files'[cur] = Append(files[cur], f)
<1>1. /\ DOMAIN files' = DOMAIN files
      /\ files'[cur] = Append(files[cur], f)
      /\ \A n \in DOMAIN files : n # cur => files'[n] = files[n]
      /\ files[cur] \in Seq(Frame)
      /\ cur \in DOMAIN files
  BY DEF TypeOK, Write
<1>2. /\ Len(files'[cur]) = Len(files[cur]) + 1
      /\ files'[cur][Len(files[cur]) + 1] = f
      /\ \A i \in 1..Len(files[cur]) : files'[cur][i] = files[cur][i]
      /\ Len(files[cur]) \in Nat /\ cur \in Nat
  BY <1>1, DiskPlaces
<1>3. End' = End + 1 /\ End \in Nat
  BY <1>2 DEF End
<1>9. \A n \in DOMAIN files : Len(files'[n]) \in Nat /\ DOMAIN files'[n] = 1..Len(files'[n])
  <2>1. files' \in [DOMAIN files -> Seq(Frame)]
    BY <1>1 DEF TypeOK
  <2> QED
    BY <2>1
<1>10. \A n \in DOMAIN files : /\ Len(files[n]) <= Len(files'[n])
                              /\ \A i \in 1..Len(files[n]) : files'[n][i] = files[n][i]
  <2> SUFFICES ASSUME NEW n \in DOMAIN files
               PROVE  /\ Len(files[n]) <= Len(files'[n])
                      /\ \A i \in 1..Len(files[n]) : files'[n][i] = files[n][i]
    OBVIOUS
  <2>1. CASE n = cur
    BY <1>2, <2>1
  <2>2. CASE n # cur
    BY <1>1, <2>2, DiskPlaces
  <2> QED
    BY <2>1, <2>2
<1>4. Contiguous'
  <2> SUFFICES ASSUME NEW n \in DOMAIN files, NEW i \in 1..Len(files'[n])
               PROVE  files'[n][i].seq = n + i - 1
    BY <1>1 DEF Contiguous
  <2>1. CASE n # cur
    BY <1>1, <2>1 DEF Geometry, Contiguous
  <2>2. CASE n = cur /\ i \in 1..Len(files[cur])
    BY <1>1, <1>2, <2>2 DEF Geometry, Contiguous
  <2>3. CASE n = cur /\ i = Len(files[cur]) + 1
    BY <1>2, <2>3 DEF End
  <2> QED
    BY <1>2, <2>1, <2>2, <2>3
<1>5. Tiled'
  <2>1. \A n \in DOMAIN files' : n <= cur'
    BY <1>1 DEF Geometry, Tiled
  <2>2. \A n, m \in DOMAIN files' : n < m => n + Len(files'[n]) <= m
    <3> SUFFICES ASSUME NEW n \in DOMAIN files, NEW m \in DOMAIN files, n < m
                 PROVE  n + Len(files'[n]) <= m
      BY <1>1
    <3>1. n # cur
      BY <1>1, DiskPlaces DEF Geometry, Tiled
    <3> QED
      BY <1>1, <3>1 DEF Geometry, Tiled
  <2>3. \A s \in 0..(End' - 1) : \E n \in DOMAIN files' : n <= s /\ s < n + Len(files'[n])
    <3> SUFFICES ASSUME NEW s \in 0..(End' - 1)
                 PROVE  \E n \in DOMAIN files : n <= s /\ s < n + Len(files'[n])
      BY <1>1
    <3>1. CASE s = End
      BY <1>1, <1>2, <3>1 DEF End
    <3>2. CASE s \in 0..(End - 1)
      <4>1. PICK n \in DOMAIN files : n <= s /\ s < n + Len(files[n])
        BY <3>2 DEF Geometry, Tiled
      <4>2. n \in Nat /\ Len(files[n]) \in Nat /\ Len(files'[n]) \in Nat
        BY <1>9, DiskPlaces
      <4> QED
        BY <1>10, <4>1, <4>2
    <3> QED
      BY <1>3, <3>1, <3>2
  <2> QED
    BY <2>1, <2>2, <2>3 DEF Tiled
<1>6. EarlierSynced'
  BY <1>1, <1>2 DEF Geometry, EarlierSynced, TypeOK
<1>7. OnDisk' = OnDisk \union {f}
  <2>1. ASSUME NEW g \in OnDisk' PROVE g \in OnDisk \union {f}
    <3>1. PICK n \in DOMAIN files : \E i \in DOMAIN files'[n] : g = files'[n][i]
      BY <1>1, <2>1 DEF OnDisk
    <3>2. PICK i \in 1..Len(files'[n]) : g = files'[n][i]
      BY <1>9, <3>1
    <3>3. CASE i \in 1..Len(files[n])
      BY <1>10, <3>2, <3>3, DiskPlaces
    <3>4. CASE n = cur /\ i = Len(files[cur]) + 1
      BY <1>2, <3>2, <3>4
    <3> QED
      BY <1>1, <1>2, <3>3, <3>4
  <2>2. ASSUME NEW g \in OnDisk PROVE g \in OnDisk'
    <3>1. PICK n \in DOMAIN files : \E i \in 1..Len(files[n]) : g = files[n][i]
      BY <2>2, DiskPlaces
    <3>2. PICK i \in 1..Len(files[n]) : g = files[n][i]
      BY <3>1
    <3>3. i \in DOMAIN files'[n]
      BY <1>9, <1>10, <3>2, DiskPlaces
    <3>4. g = files'[n][i]
      BY <1>10, <3>2
    <3> QED
      BY <1>1, <3>3, <3>4 DEF OnDisk
  <2>3. f \in OnDisk'
    <3>1. Len(files[cur]) + 1 \in DOMAIN files'[cur]
      BY <1>1, <1>2, <1>9
    <3> QED
      BY <1>1, <1>2, <3>1 DEF OnDisk
  <2> QED
    BY <2>1, <2>2, <2>3
<1>8. OnStableDisk' = OnStableDisk
  <2>1. \A n \in DOMAIN files : \A i \in 1..synced[n] : files'[n][i] = files[n][i]
    <3> SUFFICES ASSUME NEW n \in DOMAIN files, NEW i \in 1..synced[n]
                 PROVE  files'[n][i] = files[n][i]
      OBVIOUS
    <3>1. synced[n] \in Nat /\ synced[n] <= Len(files[n]) /\ Len(files[n]) \in Nat
      BY DiskPlaces DEF Geometry, EarlierSynced, TypeOK
    <3> QED
      BY <1>10, <3>1
  <2> QED
    BY <1>1, <2>1 DEF OnStableDisk
<1> QED
  BY <1>1, <1>3, <1>4, <1>5, <1>6, <1>7, <1>8 DEF Geometry

\* An fsync of the open file leaves nothing for a power loss to take.
LEMMA SyncEffect ==
    ASSUME TypeOK, Geometry, Sync, UNCHANGED <<files, cur>>
    PROVE  /\ Geometry'
           /\ End' = End
           /\ OnDisk' = OnDisk
           /\ OnStableDisk' = OnDisk
<1>1. \A n \in DOMAIN files : synced'[n] = Len(files[n])
  BY DEF TypeOK, Geometry, EarlierSynced, Sync
<1>2. Geometry'
  BY <1>1, DiskPlaces DEF Geometry, Contiguous, Tiled, EarlierSynced, End
<1>3. OnDisk' = OnDisk
  BY DEF OnDisk
<1>4. OnStableDisk' = OnDisk
  BY <1>1, DiskPlaces DEF OnStableDisk, OnDisk
<1> QED
  BY <1>2, <1>3, <1>4 DEF End

\* The roll that follows an fsync when the file is full: the new file is empty
\* and continues the numbering.
LEMMA RollEffect ==
    ASSUME TypeOK, Geometry, next_seq = End, Full(files[cur]), RollSegment
    PROVE  /\ Geometry'
           /\ End' = End
           /\ OnDisk' = OnDisk
           /\ OnStableDisk' = OnDisk
<1>1. cur \in Nat /\ Len(files[cur]) \in Nat /\ Len(files[cur]) >= 1 /\ cur \in DOMAIN files
  BY SegMaxAssumption, DiskPlaces DEF Full, TypeOK
<1>2. next_seq \in Nat /\ next_seq > cur /\ next_seq \notin DOMAIN files
  BY <1>1, DiskPlaces DEF End, Geometry, Tiled
<1>3. /\ DOMAIN files' = DOMAIN files \union {next_seq}
      /\ DOMAIN synced' = DOMAIN files \union {next_seq}
      /\ \A n \in DOMAIN files : files'[n] = files[n]
      /\ files'[next_seq] = <<>>
      /\ synced'[next_seq] = 0
      /\ cur' = next_seq
  BY <1>2 DEF RollSegment
<1>4. \A n \in DOMAIN files : synced'[n] = Len(files[n])
  BY <1>1, <1>2 DEF TypeOK, Geometry, EarlierSynced, RollSegment
<1>5. Len(files'[next_seq]) = 0 /\ DOMAIN files'[next_seq] = {}
  BY <1>3
<1>6. End' = End
  BY <1>2, <1>3, <1>5 DEF End
<1>7. Contiguous'
  BY <1>3, <1>5 DEF Geometry, Contiguous
<1>8. Tiled'
  <2>1. \A n \in DOMAIN files' : n <= cur'
    BY <1>1, <1>2, <1>3, DiskPlaces DEF Geometry, Tiled
  <2>2. \A n, m \in DOMAIN files' : n < m => n + Len(files'[n]) <= m
    <3> SUFFICES ASSUME NEW n \in DOMAIN files', NEW m \in DOMAIN files', n < m
                 PROVE  n + Len(files'[n]) <= m
      OBVIOUS
    <3>1. n \in DOMAIN files
      BY <1>1, <1>2, <1>3, <2>1, DiskPlaces DEF Geometry, Tiled
    <3>2. CASE m \in DOMAIN files
      BY <1>3, <3>1, <3>2 DEF Geometry, Tiled
    <3>3. CASE m = next_seq
      <4>1. CASE n = cur
        BY <1>1, <1>3, <3>3, <4>1 DEF End
      <4>2. CASE n # cur
        <5>1. n < cur
          BY <1>1, <3>1, <4>2, DiskPlaces DEF Geometry, Tiled
        <5>2. n + Len(files[n]) <= cur
          BY <1>1, <3>1, <5>1 DEF Geometry, Tiled
        <5> QED
          BY <1>1, <1>2, <1>3, <3>1, <3>3, <5>2, DiskPlaces
      <4> QED
        BY <4>1, <4>2
    <3> QED
      BY <1>3, <3>2, <3>3
  <2>3. \A s \in 0..(End' - 1) : \E n \in DOMAIN files' : n <= s /\ s < n + Len(files'[n])
    BY <1>3, <1>6 DEF Geometry, Tiled
  <2> QED
    BY <2>1, <2>2, <2>3 DEF Tiled
<1>9. EarlierSynced'
  BY <1>3, <1>4, <1>5, DiskPlaces DEF EarlierSynced
<1>10. OnDisk' = OnDisk
  <2>1. \A f : f \in OnDisk' <=> \E n \in DOMAIN files : \E i \in DOMAIN files[n] : f = files[n][i]
    BY <1>3, <1>5 DEF OnDisk
  <2> QED
    BY <2>1 DEF OnDisk
<1>11. OnStableDisk' = OnDisk
  <2>1. \A f : f \in OnStableDisk' <=>
                 \E n \in DOMAIN files : \E i \in 1..Len(files[n]) : f = files[n][i]
    BY <1>3, <1>4 DEF OnStableDisk
  <2> QED
    BY <2>1, DiskPlaces
<1> QED
  BY <1>6, <1>7, <1>8, <1>9, <1>10, <1>11 DEF Geometry

LEMMA SyncAndRollEffect ==
    ASSUME TypeOK, Geometry, next_seq = End, SyncAndRoll
    PROVE  /\ Geometry'
           /\ End' = End
           /\ OnDisk' = OnDisk
           /\ OnStableDisk' = OnDisk
<1>1. CASE Full(files[cur])
  BY <1>1, RollEffect DEF SyncAndRoll
<1>2. CASE ~Full(files[cur])
  BY <1>2, SyncEffect DEF SyncAndRoll
<1> QED
  BY <1>1, <1>2

\* A power loss cuts the open file at or after what is synced.
LEMMA PowerLossEffect ==
    ASSUME TypeOK, Geometry, PowerLoss
    PROVE  /\ Geometry'
           /\ OnDisk' \subseteq OnDisk
           /\ OnStableDisk \subseteq OnStableDisk'
           /\ \A f \in OnDisk', g \in OnDisk : g.seq < f.seq => g \in OnDisk'
<1>1. PICK keep \in [Unsynced -> 0..MaxSeq] :
         /\ \A n \in Unsynced : keep[n] \in synced[n]..Len(files[n])
         /\ files' = [n \in DOMAIN files |->
                        IF n \in Unsynced THEN SubSeq(files[n], 1, keep[n]) ELSE files[n]]
         /\ synced' = [n \in DOMAIN files |->
                        IF n \in Unsynced THEN keep[n] ELSE synced[n]]
  BY DEF PowerLoss
<1>2. cur' = cur
  BY DEF PowerLoss, LoseMemory
<1>3. \A n \in DOMAIN files : synced[n] \in Nat /\ synced[n] <= Len(files[n])
                              /\ Len(files[n]) \in Nat /\ n \in Nat /\ files[n] \in Seq(Frame)
  BY DiskPlaces DEF TypeOK, Geometry, EarlierSynced
<1>4. \A n \in DOMAIN files : /\ Len(files'[n]) \in synced[n]..Len(files[n])
                              /\ synced'[n] = Len(files'[n])
                              /\ \A i \in 1..Len(files'[n]) : files'[n][i] = files[n][i]
                              /\ DOMAIN files'[n] = 1..Len(files'[n])
                              /\ n # cur => files'[n] = files[n]
  <2> SUFFICES ASSUME NEW n \in DOMAIN files
               PROVE  /\ Len(files'[n]) \in synced[n]..Len(files[n])
                      /\ synced'[n] = Len(files'[n])
                      /\ \A i \in 1..Len(files'[n]) : files'[n][i] = files[n][i]
                      /\ DOMAIN files'[n] = 1..Len(files'[n])
                      /\ n # cur => files'[n] = files[n]
    OBVIOUS
  <2>1. CASE n \in Unsynced
    <3>1. n = cur
      BY <2>1 DEF Unsynced, Geometry, EarlierSynced
    <3>2. keep[n] \in Nat /\ keep[n] <= Len(files[n]) /\ synced[n] <= keep[n]
      BY <1>1, <1>3, <2>1
    <3>3. files'[n] = SubSeq(files[n], 1, keep[n]) /\ synced'[n] = keep[n]
      BY <1>1, <2>1
    <3>4. /\ Len(SubSeq(files[n], 1, keep[n])) = keep[n]
          /\ \A i \in 1..keep[n] : SubSeq(files[n], 1, keep[n])[i] = files[n][i]
          /\ DOMAIN SubSeq(files[n], 1, keep[n]) = 1..keep[n]
      BY <1>3, <3>2
    <3> QED
      BY <1>3, <3>1, <3>2, <3>3, <3>4
  <2>2. CASE n \notin Unsynced
    <3>1. files'[n] = files[n] /\ synced'[n] = synced[n] /\ synced[n] = Len(files[n])
      BY <1>1, <1>3, <2>2 DEF Unsynced
    <3> QED
      BY <1>3, <3>1
  <2> QED
    BY <2>1, <2>2
<1>5. DOMAIN files' = DOMAIN files
  BY <1>1
<1>13. \A n \in DOMAIN files : 1..Len(files'[n]) \subseteq 1..Len(files[n])
  BY <1>3, <1>4
<1>6. Contiguous'
  <2> SUFFICES ASSUME NEW n \in DOMAIN files, NEW i \in 1..Len(files'[n])
               PROVE  files'[n][i].seq = n + i - 1
    BY <1>5 DEF Contiguous
  <2>1. i \in 1..Len(files[n]) /\ files'[n][i] = files[n][i]
    BY <1>4, <1>13
  <2> QED
    BY <2>1 DEF Geometry, Contiguous
<1>7. Tiled'
  <2>1. \A n, m \in DOMAIN files' : n < m => n + Len(files'[n]) <= m
    <3> SUFFICES ASSUME NEW n \in DOMAIN files, NEW m \in DOMAIN files, n < m
                 PROVE  n + Len(files'[n]) <= m
      BY <1>5
    <3>1. n + Len(files[n]) <= m
      BY DEF Geometry, Tiled
    <3> QED
      BY <1>3, <1>4, <3>1
  <2>2. \A s \in 0..(End' - 1) : \E n \in DOMAIN files' : n <= s /\ s < n + Len(files'[n])
    <3> SUFFICES ASSUME NEW s \in 0..(End' - 1)
                 PROVE  \E n \in DOMAIN files : n <= s /\ s < n + Len(files'[n])
      BY <1>5
    <3>1. cur \in DOMAIN files /\ End' = cur + Len(files'[cur])
      BY <1>2 DEF End, TypeOK
    <3>2. s \in 0..(End - 1) /\ End \in Nat
      BY <1>3, <1>4, <3>1 DEF End
    <3>3. PICK n \in DOMAIN files : n <= s /\ s < n + Len(files[n])
      BY <3>2 DEF Geometry, Tiled
    <3>4. CASE n = cur
      BY <3>1, <3>3, <3>4
    <3>5. CASE n # cur
      BY <1>4, <3>3, <3>5
    <3> QED
      BY <3>4, <3>5
  <2> QED
    BY <1>2, <1>5, <2>1, <2>2 DEF Geometry, Tiled
<1>8. EarlierSynced'
  BY <1>3, <1>4, <1>5 DEF EarlierSynced
<1>9. ASSUME NEW f \in OnDisk'
      PROVE  \E n \in DOMAIN files : \E i \in 1..Len(files'[n]) : f = files'[n][i] /\ f = files[n][i]
  <2>1. PICK n \in DOMAIN files : \E i \in DOMAIN files'[n] : f = files'[n][i]
    BY <1>5, <1>9 DEF OnDisk
  <2> QED
    BY <1>4, <2>1
<1>10. OnDisk' \subseteq OnDisk
  <2> SUFFICES ASSUME NEW f \in OnDisk' PROVE f \in OnDisk
    OBVIOUS
  <2>1. PICK n \in DOMAIN files : \E i \in 1..Len(files'[n]) : f = files'[n][i] /\ f = files[n][i]
    BY <1>9
  <2>2. 1..Len(files'[n]) \subseteq 1..Len(files[n])
    BY <1>3, <1>4
  <2> QED
    BY <2>1, <2>2, DiskPlaces
<1>11. OnStableDisk \subseteq OnStableDisk'
  <2> SUFFICES ASSUME NEW f \in OnStableDisk PROVE f \in OnStableDisk'
    OBVIOUS
  <2>1. PICK n \in DOMAIN files : \E i \in 1..synced[n] : f = files[n][i]
    BY DiskPlaces
  <2>2. PICK i \in 1..synced[n] : f = files[n][i]
    BY <2>1
  <2>3. i \in 1..synced'[n] /\ f = files'[n][i]
    BY <1>3, <1>4, <2>2
  <2> QED
    BY <1>5, <2>3 DEF OnStableDisk
<1>12. \A f \in OnDisk', g \in OnDisk : g.seq < f.seq => g \in OnDisk'
  <2> SUFFICES ASSUME NEW f \in OnDisk', NEW g \in OnDisk, g.seq < f.seq
               PROVE  g \in OnDisk'
    OBVIOUS
  <2>1. PICK n \in DOMAIN files : \E i \in 1..Len(files'[n]) : f = files'[n][i] /\ f = files[n][i]
    BY <1>9
  <2>2. PICK i \in 1..Len(files'[n]) : f = files[n][i]
    BY <2>1
  <2>3. PICK m \in DOMAIN files : \E j \in 1..Len(files[m]) : g = files[m][j]
    BY DiskPlaces
  <2>4. PICK j \in 1..Len(files[m]) : g = files[m][j]
    BY <2>3
  <2>5. f.seq = n + i - 1 /\ g.seq = m + j - 1
    <3>1. i \in 1..Len(files[n])
      BY <1>13
    <3> QED
      BY <2>2, <2>4, <3>1 DEF Geometry, Contiguous
  <2>6. CASE m # cur
    <3>1. j \in DOMAIN files'[m] /\ g = files'[m][j]
      BY <1>4, <2>4, <2>6
    <3> QED
      BY <1>5, <3>1 DEF OnDisk
  <2>7. CASE m = cur
    <3>1. n = cur
      <4>1. n <= cur
        BY DEF Geometry, Tiled
      <4>2. n < cur => n + Len(files[n]) <= cur
        BY <2>7 DEF Geometry, Tiled
      <4>3. i <= Len(files[n]) /\ i \in Nat /\ j \in Nat /\ j >= 1
        BY <1>3, <1>4, <2>2, <2>4
      <4> QED
        BY <1>3, <2>5, <2>7, <4>1, <4>2, <4>3
    <3>2. j < i
      BY <1>3, <1>4, <2>5, <2>7, <3>1
    <3>3. j \in DOMAIN files'[m] /\ g = files'[m][j]
      BY <1>3, <1>4, <2>4, <2>7, <3>1, <3>2
    <3> QED
      BY <1>5, <3>3 DEF OnDisk
  <2> QED
    BY <2>6, <2>7
<1> QED
  BY <1>6, <1>7, <1>8, <1>10, <1>11, <1>12 DEF Geometry

\* Two frames on disk with one sequence number are one frame.
LEMMA SeqUnique ==
    ASSUME TypeOK, Geometry, NEW f \in OnDisk, NEW g \in OnDisk, f.seq = g.seq
    PROVE  f = g
<1>1. PICK n \in DOMAIN files : \E i \in 1..Len(files[n]) : f = files[n][i]
  BY DiskPlaces
<1>2. PICK i \in 1..Len(files[n]) : f = files[n][i]
  BY <1>1
<1>3. PICK m \in DOMAIN files : \E j \in 1..Len(files[m]) : g = files[m][j]
  BY DiskPlaces
<1>4. PICK j \in 1..Len(files[m]) : g = files[m][j]
  BY <1>3
<1>5. n + i - 1 = m + j - 1
  BY <1>2, <1>4 DEF Geometry, Contiguous
<1>6. /\ n \in Nat /\ m \in Nat /\ Len(files[n]) \in Nat /\ Len(files[m]) \in Nat
  BY DiskPlaces
<1>7. (n < m => n + Len(files[n]) <= m) /\ (m < n => m + Len(files[m]) <= n)
  BY DEF Geometry, Tiled
<1>8. n = m /\ i = j
  BY <1>5, <1>6, <1>7
<1> QED
  BY <1>2, <1>4, <1>8

\* resume keeps exactly the frames up to the last transaction-complete one,
\* all of them synced, and continues the numbering after it.
LEMMA ResumeAtEffect ==
    ASSUME TypeOK, Geometry, NEW n \in DOMAIN files, NEW i \in DOMAIN files[n],
           IsBoundary(n, i), ResumeAt(n, i)
    PROVE  /\ Geometry'
           /\ End' = next_seq'
           /\ files[n][i] \in OnDisk
           /\ \A f : f \in OnDisk' <=> f \in OnDisk /\ f.seq <= files[n][i].seq
           /\ \A f \in OnDisk : f.txn_complete => f.seq <= files[n][i].seq
           /\ OnStableDisk' = OnDisk'
<1> DEFINE b == files[n][i]
           K == {m \in DOMAIN files : m <= n}
<1>1. /\ b \in Frame /\ b \in OnDisk /\ i \in 1..Len(files[n]) /\ Len(files[n]) \in Nat
      /\ n \in Nat /\ i \in Nat /\ i >= 1 /\ files[n] \in Seq(Frame)
  BY DiskPlaces DEF TypeOK
<1>2. b.seq = n + i - 1
  BY <1>1 DEF Geometry, Contiguous
<1>3. b.seq + 1 = n + i /\ n + i \notin K /\ n + i \in Nat
  BY <1>1, <1>2
<1>4. /\ cur' = n + i /\ next_seq' = n + i
      /\ DOMAIN files' = K \union {n + i}
      /\ files'[n + i] = <<>>
      /\ files'[n] = SubSeq(files[n], 1, i)
      /\ \A m \in K : m # n => files'[m] = files[m]
      /\ DOMAIN synced' = K \union {n + i}
      /\ synced'[n + i] = 0 /\ synced'[n] = i
      /\ \A m \in K : m # n => synced'[m] = synced[m]
  <2>1. n \in K
    BY <1>1
  <2>2. files' = [m \in K \union {n + i} |->
                     IF m = n + i THEN <<>>
                     ELSE IF m = n THEN SubSeq(files[n], 1, i) ELSE files[m]]
    BY <1>3 DEF ResumeAt, Cut
  <2>3. synced' = [m \in K \union {n + i} |->
                      IF m = n + i THEN 0 ELSE IF m = n THEN i ELSE synced[m]]
    BY <1>3 DEF ResumeAt, Cut
  <2>4. cur' = n + i /\ next_seq' = n + i
    BY <1>3 DEF ResumeAt, Cut
  <2> HIDE DEF K
  <2> QED
    BY <1>3, <2>1, <2>2, <2>3, <2>4
<1>5. /\ Len(files'[n]) = i
      /\ \A j \in 1..i : files'[n][j] = files[n][j]
      /\ DOMAIN files'[n] = 1..i
      /\ Len(files'[n + i]) = 0 /\ DOMAIN files'[n + i] = {}
  BY <1>1, <1>4
<1>6. \A m \in K : /\ m \in DOMAIN files /\ m \in Nat /\ m <= n /\ Len(files[m]) \in Nat
                   /\ DOMAIN files[m] = 1..Len(files[m])
                   /\ m # n => m < n /\ m + Len(files[m]) <= n /\ synced[m] = Len(files[m])
  <2> SUFFICES ASSUME NEW m \in K
               PROVE  /\ m \in DOMAIN files /\ m \in Nat /\ m <= n /\ Len(files[m]) \in Nat
                      /\ DOMAIN files[m] = 1..Len(files[m])
                      /\ m # n => m < n /\ m + Len(files[m]) <= n
                                  /\ synced[m] = Len(files[m])
    OBVIOUS
  <2>1. m \in DOMAIN files /\ m \in Nat /\ m <= n /\ Len(files[m]) \in Nat
        /\ DOMAIN files[m] = 1..Len(files[m])
    BY DiskPlaces
  <2>2. n <= cur /\ cur \in Nat
    BY DiskPlaces DEF Geometry, Tiled, TypeOK
  <2>3. m # n => m < n /\ m # cur
    BY <1>1, <2>1, <2>2
  <2>4. m # n => m + Len(files[m]) <= n
    BY <2>1, <2>3 DEF Geometry, Tiled
  <2>5. m # n => synced[m] = Len(files[m])
    BY <2>1, <2>3 DEF Geometry, EarlierSynced
  <2> QED
    BY <2>1, <2>3, <2>4, <2>5
<1>7. \A m \in K : /\ Len(files'[m]) \in Nat /\ Len(files'[m]) <= Len(files[m])
                   /\ DOMAIN files'[m] = 1..Len(files'[m])
                   /\ synced'[m] = Len(files'[m])
                   /\ \A j \in 1..Len(files'[m]) : files'[m][j] = files[m][j]
                   /\ m + Len(files'[m]) <= n + i
  <2> SUFFICES ASSUME NEW m \in K
               PROVE  /\ Len(files'[m]) \in Nat /\ Len(files'[m]) <= Len(files[m])
                      /\ DOMAIN files'[m] = 1..Len(files'[m])
                      /\ synced'[m] = Len(files'[m])
                      /\ \A j \in 1..Len(files'[m]) : files'[m][j] = files[m][j]
                      /\ m + Len(files'[m]) <= n + i
    OBVIOUS
  <2>1. CASE m = n
    BY <1>1, <1>4, <1>5, <2>1
  <2>2. CASE m # n
    BY <1>1, <1>4, <1>6, <2>2
  <2> QED
    BY <2>1, <2>2
<1> HIDE DEF K, b
<1>8. End' = next_seq'
  BY <1>3, <1>4, <1>5 DEF End
<1>9. Contiguous'
  <2> SUFFICES ASSUME NEW m \in K \union {n + i}, NEW j \in 1..Len(files'[m])
               PROVE  files'[m][j].seq = m + j - 1
    BY <1>4 DEF Contiguous
  <2>1. m \in K
    BY <1>5
  <2>2. j \in 1..Len(files[m]) /\ files'[m][j] = files[m][j]
    BY <1>6, <1>7, <2>1
  <2> QED
    BY <1>6, <2>1, <2>2 DEF Geometry, Contiguous
<1>10. Tiled'
  <2>1. \A m \in DOMAIN files' : m <= cur'
    BY <1>1, <1>4, <1>6
  <2>2. \A m, k \in DOMAIN files' : m < k => m + Len(files'[m]) <= k
    <3> SUFFICES ASSUME NEW m \in K \union {n + i}, NEW k \in K \union {n + i}, m < k
                 PROVE  m + Len(files'[m]) <= k
      BY <1>4
    <3>1. m \in K
      BY <1>1, <1>6
    <3>2. CASE k = n + i
      BY <1>7, <3>1, <3>2
    <3>3. CASE k \in K
      <4>1. m + Len(files[m]) <= k
        BY <1>6, <3>1, <3>3 DEF Geometry, Tiled
      <4> QED
        BY <1>6, <1>7, <3>1, <3>3, <4>1
    <3> QED
      BY <3>2, <3>3
  <2>3. \A s \in 0..(End' - 1) : \E m \in DOMAIN files' : m <= s /\ s < m + Len(files'[m])
    <3> SUFFICES ASSUME NEW s \in 0..(End' - 1)
                 PROVE  \E m \in K : m <= s /\ s < m + Len(files'[m])
      BY <1>4, Zenon
    <3>7. s \in Nat /\ s < n + i
      BY <1>3, <1>4, <1>5 DEF End
    <3>1. s \in 0..(End - 1)
      <4>1. n <= cur /\ (n < cur => n + Len(files[n]) <= cur) /\ cur \in Nat
            /\ Len(files[cur]) \in Nat
        BY DiskPlaces DEF Geometry, Tiled, TypeOK
      <4> QED
        BY <1>1, <3>7, <4>1 DEF End
    <3>2. PICK m \in DOMAIN files : m <= s /\ s < m + Len(files[m])
      BY <3>1 DEF Geometry, Tiled
    <3>3. m \in Nat /\ (n < m => n + Len(files[n]) <= m)
      BY DiskPlaces DEF Geometry, Tiled
    <3>4. m \in K
      BY <1>1, <3>2, <3>3, <3>7 DEF K
    <3>5. CASE m = n
      BY <1>1, <1>5, <3>2, <3>4, <3>5, <3>7
    <3>6. CASE m # n
      BY <1>4, <3>2, <3>4, <3>6
    <3> QED
      BY <3>5, <3>6
  <2> QED
    BY <2>1, <2>2, <2>3 DEF Tiled
<1>11. EarlierSynced'
  BY <1>4, <1>5, <1>7 DEF EarlierSynced
<1>12. ASSUME NEW f
       PROVE  f \in OnDisk' <=> \E m \in K : \E j \in 1..Len(files'[m]) : f = files'[m][j]
  BY <1>4, <1>5, <1>7 DEF OnDisk
<1>13. \A f : f \in OnDisk' <=> f \in OnDisk /\ f.seq <= b.seq
  <2>1. ASSUME NEW f \in OnDisk'
        PROVE  f \in OnDisk /\ f.seq <= b.seq
    <3>1. PICK m \in K : \E j \in 1..Len(files'[m]) : f = files'[m][j]
      BY <1>12
    <3>2. PICK j \in 1..Len(files'[m]) : f = files'[m][j]
      BY <3>1
    <3>3. j \in 1..Len(files[m]) /\ f = files[m][j]
      BY <1>6, <1>7, <3>2
    <3>4. f \in OnDisk
      BY <1>6, <3>3, DiskPlaces
    <3>5. f.seq = m + j - 1
      BY <1>6, <3>3 DEF Geometry, Contiguous
    <3> QED
      BY <1>1, <1>2, <1>6, <1>7, <3>2, <3>4, <3>5
  <2>2. ASSUME NEW f \in OnDisk, f.seq <= b.seq
        PROVE  f \in OnDisk'
    <3>1. PICK m \in DOMAIN files : \E j \in 1..Len(files[m]) : f = files[m][j]
      BY DiskPlaces
    <3>2. PICK j \in 1..Len(files[m]) : f = files[m][j]
      BY <3>1
    <3>3. f.seq = m + j - 1
      BY <3>2 DEF Geometry, Contiguous
    <3>4. m \in Nat /\ (n < m => n + Len(files[n]) <= m)
      BY DiskPlaces DEF Geometry, Tiled
    <3>5. m \in K
      BY <1>1, <1>2, <2>2, <3>3, <3>4 DEF K
    <3>6. j \in 1..Len(files'[m])
      <4>1. CASE m = n
        BY <1>1, <1>2, <1>5, <2>2, <3>3, <4>1
      <4>2. CASE m # n
        BY <1>4, <3>2, <3>5, <4>2
      <4> QED
        BY <4>1, <4>2
    <3> QED
      BY <1>7, <1>12, <3>2, <3>5, <3>6
  <2> QED
    BY <2>1, <2>2
<1>14. \A f \in OnDisk : f.txn_complete => f.seq <= b.seq
  <2> SUFFICES ASSUME NEW f \in OnDisk, f.txn_complete
               PROVE  f.seq <= b.seq
    OBVIOUS
  <2>1. PICK m \in DOMAIN files : \E j \in 1..Len(files[m]) : f = files[m][j]
    BY DiskPlaces
  <2>2. PICK j \in 1..Len(files[m]) : f = files[m][j]
    BY <2>1
  <2>3. m <= n /\ (m = n => j <= i)
    <3>1. m \in Nat /\ j \in DOMAIN files[m]
      BY <2>2, DiskPlaces
    <3>2. m > n => ~files[m][j].txn_complete
      BY <3>1 DEF IsBoundary
    <3>3. m = n /\ j > i => ~files[m][j].txn_complete
      BY <3>1 DEF IsBoundary
    <3> QED
      BY <1>1, <2>2, <3>1, <3>2, <3>3
  <2>4. f.seq = m + j - 1
    BY <2>2 DEF Geometry, Contiguous
  <2>5. m \in Nat /\ Len(files[m]) \in Nat /\ (m < n => m + Len(files[m]) <= n)
    BY DiskPlaces DEF Geometry, Tiled
  <2> QED
    BY <1>1, <1>2, <2>2, <2>3, <2>4, <2>5
<1>15. OnStableDisk' = OnDisk'
  <2>1. ASSUME NEW f
        PROVE  f \in OnStableDisk' <=> \E m \in K : \E j \in 1..Len(files'[m]) : f = files'[m][j]
    BY <1>4, <1>7 DEF OnStableDisk
  <2> QED
    BY <1>12, <2>1
<1> QED
  BY <1>1, <1>8, <1>9, <1>10, <1>11, <1>13, <1>14, <1>15 DEF Geometry, b

LEMMA ResumeEmptyEffect ==
    ASSUME ResumeEmpty
    PROVE  /\ Geometry'
           /\ End' = next_seq'
           /\ OnDisk' = {}
           /\ OnStableDisk' = {}
<1>1. /\ DOMAIN files' = {0} /\ files'[0] = <<>> /\ synced'[0] = 0 /\ cur' = 0 /\ next_seq' = 0
  BY DEF ResumeEmpty
<1>2. Len(files'[0]) = 0 /\ DOMAIN files'[0] = {}
  BY <1>1
<1>3. End' = 0
  BY <1>1, <1>2 DEF End
<1> QED
  BY <1>1, <1>2, <1>3 DEF Geometry, Contiguous, Tiled, EarlierSynced, OnDisk, OnStableDisk


-----------------------------------------------------------------------------
(***************************************************************************)
(* What the log holds, on disk and staged, and where it stands in the      *)
(* numbering.                                                              *)
(***************************************************************************)
LEMMA HeldFrames ==
    ASSUME TypeOK
    PROVE  /\ Len(spill) \in Nat
           /\ \A f : f \in Staged <=> \E i \in 1..Len(spill) : f = spill[i]
           /\ \A f \in Held : f \in Frame
           /\ End \in Nat
<1>1. Len(spill) \in Nat /\ DOMAIN spill = 1..Len(spill)
      /\ \A i \in 1..Len(spill) : spill[i] \in Frame
  BY DEF TypeOK
<1>2. \A f : f \in Staged <=> \E i \in 1..Len(spill) : f = spill[i]
  BY <1>1 DEF Staged
<1>3. \A f \in Held : f \in Frame
  BY <1>1, <1>2, DiskPlaces DEF Held
<1>4. End \in Nat
  BY DiskPlaces DEF End, TypeOK
<1> QED
  BY <1>1, <1>2, <1>3, <1>4

\* Frames on disk are numbered below End, staged ones from End on.
LEMMA HeldBelow ==
    ASSUME TypeOK, Geometry, Numbering
    PROVE  /\ \A f \in OnDisk : f.seq < End
           /\ \A f \in Staged : f.seq >= End
           /\ up => \A f \in Held : f.seq < next_seq
<1>0. End \in Nat /\ Len(spill) \in Nat /\ next_seq \in Nat
  BY HeldFrames DEF TypeOK
<1>1. \A f \in OnDisk : f.seq < End
  <2> SUFFICES ASSUME NEW f \in OnDisk PROVE f.seq < End
    OBVIOUS
  <2>1. PICK n \in DOMAIN files : \E i \in 1..Len(files[n]) : f = files[n][i]
    BY DiskPlaces
  <2>2. PICK i \in 1..Len(files[n]) : f = files[n][i]
    BY <2>1
  <2>3. f.seq = n + i - 1
    BY <2>2 DEF Geometry, Contiguous
  <2>4. n \in Nat /\ cur \in Nat /\ Len(files[n]) \in Nat /\ Len(files[cur]) \in Nat
    BY DiskPlaces DEF TypeOK
  <2>5. n <= cur /\ (n < cur => n + Len(files[n]) <= cur)
    BY DEF Geometry, Tiled, TypeOK
  <2> QED
    BY <2>2, <2>3, <2>4, <2>5 DEF End
<1>2. \A f \in Staged : f.seq >= End /\ f.seq < End + Len(spill)
  <2> SUFFICES ASSUME NEW f \in Staged PROVE f.seq >= End /\ f.seq < End + Len(spill)
    OBVIOUS
  <2>1. PICK i \in 1..Len(spill) : f = spill[i]
    BY HeldFrames
  <2>2. f.seq = End + i - 1
    BY <2>1 DEF Numbering
  <2> QED
    BY <1>0, <2>1, <2>2
<1>3. \A f \in OnDisk : f.seq \in Nat
  BY DiskPlaces, FrameFields
<1>4. \A f \in Staged : f.seq \in Nat
  BY HeldFrames, FrameFields DEF Held
<1>5. up => \A f \in Held : f.seq < next_seq
  <2>1. up => next_seq = End + Len(spill)
    BY DEF Numbering
  <2> QED
    BY <1>0, <1>1, <1>2, <1>3, <1>4, <2>1 DEF Held
<1> QED
  BY <1>1, <1>2, <1>5

\* Two held frames with one sequence number are one frame.
LEMMA HeldUnique ==
    ASSUME TypeOK, Geometry, Numbering, NEW f \in Held, NEW g \in Held, f.seq = g.seq
    PROVE  f = g
<1>0. End \in Nat /\ f.seq \in Nat
  BY HeldFrames, FrameFields
<1>1. CASE f \in OnDisk /\ g \in OnDisk
  BY <1>1, SeqUnique
<1>2. CASE f \in Staged /\ g \in Staged
  <2>1. PICK i \in 1..Len(spill) : f = spill[i]
    BY <1>2, HeldFrames
  <2>2. PICK j \in 1..Len(spill) : g = spill[j]
    BY <1>2, HeldFrames
  <2>3. f.seq = End + i - 1 /\ g.seq = End + j - 1
    BY <2>1, <2>2 DEF Numbering
  <2>5. i \in Nat /\ j \in Nat
    BY HeldFrames
  <2>6. End + i - 1 = End + j - 1
    BY <2>3, Zenon
  <2>7. \A e, k, l \in Nat : e + k - 1 = e + l - 1 => k = l
    OBVIOUS
  <2>4. i = j
    BY <1>0, <2>5, <2>6, <2>7, Zenon
  <2> QED
    BY <2>1, <2>2, <2>4
<1>3. CASE f \in OnDisk /\ g \in Staged
  BY <1>0, <1>3, HeldBelow
<1>4. CASE f \in Staged /\ g \in OnDisk
  BY <1>0, <1>4, HeldBelow
<1> QED
  BY <1>1, <1>2, <1>3, <1>4 DEF Held

-----------------------------------------------------------------------------
(***************************************************************************)
(* The transactions of a set of frames, as a set: these lemmas know        *)
(* nothing of files.                                                       *)
(***************************************************************************)
OrderIn(H) ==
    \A f, g \in H : f.seq < g.seq => f.txn <= g.txn /\ (f.txn_complete => f.txn < g.txn)

CoveredIn(H) ==
    \A f \in H : /\ f.txn >= 1
                 /\ \A t \in 1..(f.txn - 1) :
                      \E g \in H : g.txn_complete /\ g.txn = t /\ g.seq < f.seq

\* h is the last transaction H holds in full.
BelowHead(H, h) == \A f \in H : f.txn <= h + 1 /\ (f.txn_complete => f.txn <= h)

FullTo(H, h) == \A t \in 1..h : \E f \in H : f.txn_complete /\ f.txn = t

\* Taking the next frame of the stream keeps all four.
LEMMA ExtendHeld ==
    ASSUME NEW H \in SUBSET Frame, NEW h \in Nat, NEW x \in Frame,
           OrderIn(H), CoveredIn(H), BelowHead(H, h), FullTo(H, h),
           x.txn = h + 1, \A f \in H : f.seq < x.seq
    PROVE  /\ OrderIn(H \union {x})
           /\ CoveredIn(H \union {x})
           /\ x.txn_complete => /\ BelowHead(H \union {x}, h + 1)
                                /\ FullTo(H \union {x}, h + 1)
           /\ ~x.txn_complete => /\ BelowHead(H \union {x}, h)
                                 /\ FullTo(H \union {x}, h)
<1>1. \A f \in H \union {x} : f.seq \in Nat /\ f.txn \in Nat
  BY FrameFields
<1>2. OrderIn(H \union {x})
  <2> SUFFICES ASSUME NEW f \in H \union {x}, NEW g \in H \union {x}, f.seq < g.seq
               PROVE  f.txn <= g.txn /\ (f.txn_complete => f.txn < g.txn)
    BY DEF OrderIn
  <2>1. f \in H
    BY <1>1
  <2>2. CASE g \in H
    BY <2>1, <2>2 DEF OrderIn
  <2>3. CASE g = x
    BY <1>1, <2>1, <2>3 DEF BelowHead
  <2> QED
    BY <2>2, <2>3
<1>3. CoveredIn(H \union {x})
  <2> SUFFICES ASSUME NEW f \in H \union {x}
               PROVE  /\ f.txn >= 1
                      /\ \A t \in 1..(f.txn - 1) :
                           \E g \in H \union {x} : g.txn_complete /\ g.txn = t /\ g.seq < f.seq
    BY DEF CoveredIn
  <2>1. CASE f \in H
    BY <2>1 DEF CoveredIn
  <2>2. CASE f = x
    <3>1. f.txn >= 1 /\ f.txn - 1 = h
      BY <2>2
    <3>2. \A t \in 1..h : \E g \in H : g.txn_complete /\ g.txn = t /\ g.seq < f.seq
      BY <2>2 DEF FullTo
    <3> QED
      BY <3>1, <3>2
  <2> QED
    BY <2>1, <2>2
<1>4. ASSUME x.txn_complete
      PROVE  BelowHead(H \union {x}, h + 1) /\ FullTo(H \union {x}, h + 1)
  <2>1. BelowHead(H \union {x}, h + 1)
    BY <1>1 DEF BelowHead
  <2>2. \A t \in 1..(h + 1) : t \in 1..h \/ t = h + 1
    OBVIOUS
  <2>3. FullTo(H \union {x}, h + 1)
    BY <1>4, <2>2 DEF FullTo
  <2> QED
    BY <2>1, <2>3
<1>5. ASSUME ~x.txn_complete
      PROVE  BelowHead(H \union {x}, h) /\ FullTo(H \union {x}, h)
  BY <1>1, <1>5 DEF BelowHead, FullTo
<1> QED
  BY <1>2, <1>3, <1>4, <1>5

\* Dropping a suffix of the numbering keeps order and coverage.
LEMMA CutHeld ==
    ASSUME NEW H \in SUBSET Frame, NEW J \in SUBSET H, NEW h \in Nat,
           OrderIn(H), CoveredIn(H), BelowHead(H, h),
           \A f \in J, g \in H : g.seq < f.seq => g \in J
    PROVE  OrderIn(J) /\ CoveredIn(J) /\ BelowHead(J, h)
<1>1. OrderIn(J)
  BY DEF OrderIn
<1>2. CoveredIn(J)
  <2> SUFFICES ASSUME NEW f \in J
               PROVE  /\ f.txn >= 1
                      /\ \A t \in 1..(f.txn - 1) :
                           \E g \in J : g.txn_complete /\ g.txn = t /\ g.seq < f.seq
    BY DEF CoveredIn
  <2>1. f.txn >= 1
        /\ \A t \in 1..(f.txn - 1) :
             \E g \in H : g.txn_complete /\ g.txn = t /\ g.seq < f.seq
    BY DEF CoveredIn
  <2> QED
    BY <2>1
<1>3. BelowHead(J, h)
  BY DEF BelowHead
<1> QED
  BY <1>1, <1>2, <1>3

\* Cutting after a commit frame makes its transaction the head.
LEMMA CutAtCommit ==
    ASSUME NEW H \in SUBSET Frame, NEW J \in SUBSET H, NEW b \in J,
           OrderIn(H), CoveredIn(H), b.txn_complete,
           \A f \in J : f.seq <= b.seq,
           \A f \in J : f.seq = b.seq => f = b,
           \A f \in H : f.seq <= b.seq => f \in J
    PROVE  BelowHead(J, b.txn) /\ FullTo(J, b.txn)
<1>1. \A f \in H : f.seq \in Nat /\ f.txn \in Nat
  BY FrameFields
<1>2. BelowHead(J, b.txn)
  <2> SUFFICES ASSUME NEW f \in J
               PROVE  f.txn <= b.txn + 1 /\ (f.txn_complete => f.txn <= b.txn)
    BY DEF BelowHead
  <2>1. CASE f.seq = b.seq
    BY <1>1, <2>1
  <2>2. CASE f.seq < b.seq
    BY <1>1, <2>2 DEF OrderIn
  <2> QED
    BY <1>1, <2>1, <2>2
<1>3. FullTo(J, b.txn)
  <2> SUFFICES ASSUME NEW t \in 1..b.txn
               PROVE  \E f \in J : f.txn_complete /\ f.txn = t
    BY DEF FullTo
  <2>1. CASE t = b.txn
    BY <2>1
  <2>2. CASE t # b.txn
    <3>1. t \in 1..(b.txn - 1)
      BY <1>1, <2>2
    <3>2. PICK g \in H : g.txn_complete /\ g.txn = t /\ g.seq < b.seq
      BY <3>1 DEF CoveredIn
    <3> QED
      BY <1>1, <3>2
  <2> QED
    BY <2>1, <2>2
<1> QED
  BY <1>2, <1>3

-----------------------------------------------------------------------------
(***************************************************************************)
(* One lemma per kind of step.                                             *)
(***************************************************************************)
LEMMA HeldInv ==
    /\ (Order <=> OrderIn(Held))
    /\ (Covered <=> CoveredIn(Held))
    /\ (HeadHeld <=> BelowHead(Held, head) /\ (up => FullTo(Held, head)))
BY DEF Order, Covered, HeadHeld, OrderIn, CoveredIn, BelowHead, FullTo

\* An append: the frame taken continues the stream, wherever it is put.
LEMMA TakeKeeps ==
    ASSUME IInv, TypeOK', NEW c \in BOOLEAN, NEW p \in Payload, Take(c, p),
           UNCHANGED <<synced, cur, up>>
    PROVE  /\ Geometry' /\ Numbering' /\ Order' /\ Covered' /\ HeadHeld'
           /\ OnStableDisk' = OnStableDisk /\ Held' = Held \union {NextFrame(c, p)}
           /\ stalled => files' = files
           /\ ~stalled => files[cur] \in Seq(Frame)
                          /\ files'[cur] = Append(files[cur], NextFrame(c, p))
<1> DEFINE x == NextFrame(c, p)
<1>1. TypeOK /\ Geometry /\ Numbering /\ up /\ head \in Nat
  BY DEF IInv, Geometry, Take, TypeOK
<1>2. x \in Frame /\ x.seq = next_seq /\ x.txn = head + 1 /\ x.txn_complete = c
  BY <1>1, NextFrameType
<1>3. next_seq' = next_seq + 1 /\ head' = IF c THEN head + 1 ELSE head
  BY DEF Take
<1>4. End \in Nat /\ Len(spill) \in Nat /\ next_seq = End + Len(spill)
  BY <1>1, HeldFrames DEF Numbering
<1> HIDE DEF x
<1>5. /\ Geometry' /\ Numbering' /\ Held' = Held \union {x}
      /\ OnStableDisk' = OnStableDisk
      /\ stalled => files' = files
      /\ ~stalled => files[cur] \in Seq(Frame) /\ files'[cur] = Append(files[cur], x)
  <2>1. CASE stalled
    <3>1. files' = files /\ spill' = Append(spill, x)
      BY <2>1 DEF Take, x
    <3>2. Geometry' /\ End' = End /\ OnDisk' = OnDisk /\ OnStableDisk' = OnStableDisk
      BY <1>1, <3>1 DEF Geometry, Contiguous, Tiled, EarlierSynced, End, OnDisk, OnStableDisk
    <3>3. /\ spill \in Seq(Frame)
          /\ Len(spill') = Len(spill) + 1
          /\ spill'[Len(spill) + 1] = x
          /\ \A i \in 1..Len(spill) : spill'[i] = spill[i]
          /\ DOMAIN spill' = 1..(Len(spill) + 1)
      BY <1>1, <1>2, <3>1 DEF TypeOK
    <3>4. Staged' = Staged \union {x}
      <4>1. \A f : f \in Staged' <=> \E i \in 1..(Len(spill) + 1) : f = spill'[i]
        BY <3>3 DEF Staged
      <4>2. \A i \in 1..(Len(spill) + 1) : i \in 1..Len(spill) \/ i = Len(spill) + 1
        BY <1>4
      <4>3. 1..Len(spill) \subseteq 1..(Len(spill) + 1) /\ Len(spill) + 1 \in 1..(Len(spill) + 1)
        BY <1>4
      <4> QED
        BY <1>1, <3>3, <4>1, <4>2, <4>3, HeldFrames
    <3>5. Numbering'
      <4>1. \A i \in 1..(Len(spill) + 1) : spill'[i].seq = End + i - 1
        <5> SUFFICES ASSUME NEW i \in 1..(Len(spill) + 1)
                     PROVE  spill'[i].seq = End + i - 1
          OBVIOUS
        <5>1. CASE i \in 1..Len(spill)
          BY <1>1, <3>3, <5>1 DEF Numbering
        <5>2. CASE i = Len(spill) + 1
          BY <1>2, <1>4, <3>3, <5>2
        <5> QED
          BY <1>4, <5>1, <5>2
      <4> QED
        BY <1>3, <1>4, <3>2, <3>3, <4>1 DEF Numbering
    <3> QED
      BY <2>1, <3>1, <3>2, <3>4, <3>5 DEF Held
  <2>2. CASE ~stalled
    <3>1. Write(x) /\ spill' = spill
      BY <2>2 DEF Take, x
    <3>2. spill = <<>> /\ Len(spill) = 0
      BY <2>2 DEF IInv, Modes
    <3>3. x.seq = End
      BY <1>2, <1>4, <3>2
    <3>4. /\ Geometry' /\ End' = End + 1 /\ OnDisk' = OnDisk \union {x}
          /\ OnStableDisk' = OnStableDisk
          /\ files[cur] \in Seq(Frame) /\ files'[cur] = Append(files[cur], x)
      BY <1>1, <1>2, <3>1, <3>3, WriteEffect
    <3>5. Staged' = Staged
      BY <3>1 DEF Staged
    <3>6. Numbering'
      BY <1>3, <1>4, <3>1, <3>2, <3>4 DEF Numbering
    <3> QED
      BY <2>2, <3>4, <3>5, <3>6 DEF Held
  <2> QED
    BY <1>1, <2>1, <2>2 DEF TypeOK
<1>6. \A f \in Held : f \in Frame /\ f.seq < x.seq
  BY <1>1, <1>2, HeldFrames, HeldBelow
<1>7. OrderIn(Held) /\ CoveredIn(Held) /\ BelowHead(Held, head) /\ FullTo(Held, head)
  BY <1>1, HeldInv DEF IInv
<1>8. /\ OrderIn(Held') /\ CoveredIn(Held')
      /\ BelowHead(Held', head') /\ FullTo(Held', head')
  <2>1. CASE c
    BY <1>1, <1>2, <1>3, <1>5, <1>6, <1>7, <2>1, ExtendHeld
  <2>2. CASE ~c
    BY <1>1, <1>2, <1>3, <1>5, <1>6, <1>7, <2>2, ExtendHeld
  <2> QED
    BY <2>1, <2>2
<1>9. Order' /\ Covered' /\ HeadHeld'
  BY <1>8 DEF Order, Covered, HeadHeld, OrderIn, CoveredIn, BelowHead, FullTo
<1> QED
  BY <1>5, <1>9 DEF x

LEMMA StableOnDisk ==
    ASSUME TypeOK, Geometry
    PROVE  OnStableDisk \subseteq OnDisk
<1> SUFFICES ASSUME NEW f \in OnStableDisk PROVE f \in OnDisk
  OBVIOUS
<1>1. PICK n \in DOMAIN files : \E i \in 1..synced[n] : f = files[n][i]
  BY DiskPlaces
<1>2. synced[n] \in Nat /\ Len(files[n]) \in Nat /\ synced[n] <= Len(files[n])
  BY DiskPlaces DEF TypeOK, Geometry, EarlierSynced
<1>3. 1..synced[n] \subseteq 1..Len(files[n])
  BY <1>2
<1> QED
  BY <1>1, <1>3, DiskPlaces

\* The mark never runs ahead of the stream.
LEMMA MarkBelowHead ==
    ASSUME IInv
    PROVE  durable.lsn \in Nat /\ durable.lsn <= head
<1>1. TypeOK /\ Geometry /\ head \in Nat /\ durable.lsn \in Nat /\ durable.valid \in BOOLEAN
  BY DEF IInv, Geometry, TypeOK, DurableMark
<1>2. CASE durable.valid
  <2>1. PICK f \in OnStableDisk : f.txn_complete /\ f.txn = durable.lsn
    BY <1>2 DEF IInv, MarkHeld
  <2>2. f \in Held
    BY <1>1, <2>1, StableOnDisk DEF Held
  <2> QED
    BY <1>1, <2>1, <2>2 DEF IInv, HeadHeld
<1>3. CASE ~durable.valid
  BY <1>1, <1>3 DEF IInv, MarkHeld
<1> QED
  BY <1>1, <1>2, <1>3

LEMMA HasCommitAppend ==
    ASSUME NEW s \in Seq(Frame), NEW x \in Frame
    PROVE  /\ \A c : HasCommit(s, c) => HasCommit(Append(s, x), c)
           /\ x.txn_complete => HasCommit(Append(s, x), <<x.seq, x.txn>>)
<1>1. /\ Len(s) \in Nat
      /\ Len(Append(s, x)) = Len(s) + 1
      /\ Append(s, x)[Len(s) + 1] = x
      /\ \A i \in 1..Len(s) : Append(s, x)[i] = s[i]
  OBVIOUS
<1>2. 1..Len(s) \subseteq 1..(Len(s) + 1) /\ Len(s) + 1 \in 1..(Len(s) + 1)
  BY <1>1
<1>3. ASSUME NEW c, HasCommit(s, c)
      PROVE  HasCommit(Append(s, x), c)
  <2>1. PICK i \in 1..Len(s) : s[i].txn_complete /\ s[i].seq = c[1] /\ s[i].txn = c[2]
    BY <1>3 DEF HasCommit
  <2>2. i \in 1..(Len(s) + 1) /\ Append(s, x)[i] = s[i]
    BY <1>1, <1>2
  <2> QED
    BY <1>1, <2>1, <2>2 DEF HasCommit
<1>4. ASSUME x.txn_complete
      PROVE  HasCommit(Append(s, x), <<x.seq, x.txn>>)
  BY <1>1, <1>2, <1>4 DEF HasCommit
<1> QED
  BY <1>3, <1>4

\* A commit of the open file is on disk.
LEMMA HasCommitOnDisk ==
    ASSUME TypeOK, NEW c, HasCommit(files[cur], c)
    PROVE  \E f \in OnDisk : f.seq = c[1] /\ f.txn_complete /\ f.txn = c[2]
<1>1. PICK i \in 1..Len(files[cur]) : /\ files[cur][i].txn_complete
                                      /\ files[cur][i].seq = c[1]
                                      /\ files[cur][i].txn = c[2]
  BY DEF HasCommit
<1>2. files[cur][i] \in OnDisk
  BY DiskPlaces DEF TypeOK
<1> QED
  BY <1>1, <1>2

\* Both appends: PendingHeld, given what they do to the pending commit.
LEMMA AppendKeeps ==
    ASSUME IInv, TypeOK', NEW c \in BOOLEAN, NEW p \in Payload, Take(c, p),
           UNCHANGED <<synced, cur, up, durable, last_commit>>,
           IF c /\ ~stalled THEN pending_commit' = <<next_seq, head + 1>>
                            ELSE pending_commit' = pending_commit
    PROVE  /\ Geometry' /\ Numbering' /\ Order' /\ Covered' /\ HeadHeld'
           /\ MarkHeld' /\ PendingHeld'
<1>1. /\ Geometry' /\ Numbering' /\ Order' /\ Covered' /\ HeadHeld'
      /\ OnStableDisk' = OnStableDisk
      /\ stalled => files' = files
      /\ ~stalled => files[cur] \in Seq(Frame)
                     /\ files'[cur] = Append(files[cur], NextFrame(c, p))
  BY TakeKeeps
<1>2. MarkHeld'
  BY <1>1 DEF IInv, MarkHeld
<1>3. last_commit = NoCommit
  BY DEF IInv, Modes, Take
<1>4. TypeOK /\ stalled \in BOOLEAN /\ durable.lsn \in Nat /\ durable.lsn <= head /\ head \in Nat
  BY MarkBelowHead DEF IInv, TypeOK
<1>5. NextFrame(c, p) \in Frame /\ NextFrame(c, p).seq = next_seq
      /\ NextFrame(c, p).txn = head + 1 /\ NextFrame(c, p).txn_complete = c
  BY <1>4, NextFrameType
<1>6. ASSUME pending_commit # NoCommit
      PROVE  HasCommit(files'[cur], pending_commit) /\ durable.lsn <= pending_commit[2]
  <2>1. HasCommit(files[cur], pending_commit) /\ durable.lsn <= pending_commit[2]
    BY <1>6 DEF IInv, PendingHeld
  <2>2. CASE stalled
    BY <1>1, <2>1, <2>2
  <2>3. CASE ~stalled
    BY <1>1, <1>5, <2>1, <2>3, HasCommitAppend
  <2> QED
    BY <2>1, <2>2, <2>3
<1>7. PendingHeld'
  <2>1. CASE c /\ ~stalled
    <3>1. HasCommit(files'[cur], <<next_seq, head + 1>>)
      BY <1>1, <1>5, <2>1, HasCommitAppend
    <3>2. durable.lsn <= <<next_seq, head + 1>>[2]
      BY <1>4
    <3> QED
      BY <1>3, <2>1, <3>1, <3>2 DEF PendingHeld
  <2>2. CASE ~(c /\ ~stalled)
    BY <1>3, <1>6, <2>2 DEF PendingHeld
  <2> QED
    BY <2>1, <2>2
<1> QED
  BY <1>1, <1>2, <1>7

\* Draining moves the first staged frame to the end of the files.
LEMMA DrainFrameKeeps ==
    ASSUME IInv, TypeOK', DrainFrame
    PROVE  /\ Geometry' /\ Numbering' /\ Order' /\ Covered' /\ HeadHeld'
           /\ MarkHeld' /\ PendingHeld'
           /\ Held' = Held /\ Head(spill) \in Frame /\ Head(spill).seq = End
<1> DEFINE x == Head(spill)
<1>1. TypeOK /\ Geometry /\ Numbering /\ up /\ spill \in Seq(Frame) /\ spill # <<>>
  BY DEF IInv, Geometry, DrainFrame, TypeOK
<1>2. /\ Write(x) /\ spill' = Tail(spill)
      /\ UNCHANGED <<synced, cur, next_seq, durable, up, head, pending_commit>>
      /\ last_commit' = IF x.txn_complete THEN <<x.seq, x.txn>> ELSE last_commit
      /\ pc = "drain"
  BY DEF DrainFrame
<1>3. /\ x \in Frame /\ x = spill[1] /\ Len(spill) \in Nat /\ Len(spill) >= 1
      /\ Tail(spill) \in Seq(Frame)
      /\ Len(Tail(spill)) = Len(spill) - 1
      /\ \A i \in 1..(Len(spill) - 1) : Tail(spill)[i] = spill[i + 1]
  BY <1>1
<1> HIDE DEF x
<1>4. End \in Nat /\ next_seq = End + Len(spill)
  BY <1>1, HeldFrames DEF Numbering
<1>5. x.seq = End
  <2>1. 1 \in 1..Len(spill)
    BY <1>3
  <2>2. spill[1].seq = End + 1 - 1
    BY <1>1, <2>1 DEF Numbering
  <2> QED
    BY <1>3, <1>4, <2>2
<1>6. /\ Geometry' /\ End' = End + 1 /\ OnDisk' = OnDisk \union {x}
      /\ OnStableDisk' = OnStableDisk
      /\ files[cur] \in Seq(Frame) /\ files'[cur] = Append(files[cur], x)
  BY <1>1, <1>2, <1>3, <1>5, WriteEffect
<1>7. Numbering'
  <2>1. \A i \in 1..(Len(spill) - 1) : Tail(spill)[i].seq = (End + 1) + i - 1
    <3> SUFFICES ASSUME NEW i \in 1..(Len(spill) - 1)
                 PROVE  Tail(spill)[i].seq = (End + 1) + i - 1
      OBVIOUS
    <3>1. i + 1 \in 1..Len(spill) /\ i \in Nat
      BY <1>3
    <3>2. spill[i + 1].seq = End + (i + 1) - 1
      BY <1>1, <3>1 DEF Numbering
    <3> QED
      BY <1>3, <1>4, <3>1, <3>2
  <2>2. next_seq = (End + 1) + (Len(spill) - 1)
    BY <1>3, <1>4
  <2> QED
    BY <1>2, <1>3, <1>6, <2>1, <2>2 DEF Numbering
<1>8. Held' = Held
  <2>1. \A f : f \in Staged' <=> \E i \in 1..(Len(spill) - 1) : f = spill[i + 1]
    <3>1. DOMAIN Tail(spill) = 1..(Len(spill) - 1)
      BY <1>3
    <3> QED
      BY <1>2, <1>3, <3>1 DEF Staged
  <2>2. \A f : f \in Staged <=> \E i \in 1..Len(spill) : f = spill[i]
    BY <1>1, HeldFrames
  <2>3. \A i \in 1..(Len(spill) - 1) : i + 1 \in 1..Len(spill)
    BY <1>3
  <2>4. Staged' \subseteq Staged /\ x \in Staged
    BY <1>3, <2>1, <2>2, <2>3
  <2>5. Staged \subseteq Staged' \union {x}
    <3> SUFFICES ASSUME NEW f \in Staged, f # x PROVE f \in Staged'
      OBVIOUS
    <3>1. PICK i \in 1..Len(spill) : f = spill[i]
      BY <2>2
    <3>2. i # 1
      BY <1>3, <3>1
    <3>3. i - 1 \in 1..(Len(spill) - 1) /\ (i - 1) + 1 = i
      BY <1>3, <3>2
    <3> QED
      BY <2>1, <3>1, <3>3
  <2> QED
    BY <1>6, <2>4, <2>5 DEF Held
<1>9. Order' /\ Covered' /\ HeadHeld'
  BY <1>2, <1>8 DEF IInv, Order, Covered, HeadHeld
<1>10. MarkHeld'
  BY <1>2, <1>6 DEF IInv, MarkHeld
<1>11. x.txn_complete => HasCommit(files'[cur], <<x.seq, x.txn>>) /\ durable.lsn <= x.txn
  <2> SUFFICES ASSUME x.txn_complete
               PROVE  HasCommit(files'[cur], <<x.seq, x.txn>>) /\ durable.lsn <= x.txn
    OBVIOUS
  <2>1. HasCommit(files'[cur], <<x.seq, x.txn>>)
    BY <1>3, <1>6, HasCommitAppend
  <2>2. x \in Held
    BY <1>3, <1>1, HeldFrames DEF Held
  <2>3. durable.lsn \in Nat /\ durable.valid \in BOOLEAN /\ x.txn \in Nat
    BY <1>1, <1>3, FrameFields DEF TypeOK, DurableMark
  <2>4. CASE durable.valid
    <3>1. PICK f \in OnStableDisk : f.txn_complete /\ f.txn = durable.lsn
      BY <2>4 DEF IInv, MarkHeld
    <3>2. f \in OnDisk /\ f \in Held /\ f.seq < x.seq
      BY <1>1, <1>5, <3>1, StableOnDisk, HeldBelow DEF Held
    <3> QED
      BY <2>1, <2>2, <3>1, <3>2 DEF IInv, Order
  <2>5. CASE ~durable.valid
    <3>1. durable.lsn = 0
      BY <2>5 DEF IInv, MarkHeld
    <3> QED
      BY <2>1, <2>3, <3>1
  <2> QED
    BY <2>3, <2>4, <2>5
<1>12. \A c : HasCommit(files[cur], c) => HasCommit(files'[cur], c)
  BY <1>3, <1>6, HasCommitAppend
<1>13. PendingHeld'
  <2>1. pending_commit # NoCommit => HasCommit(files'[cur], pending_commit)
                                     /\ durable.lsn <= pending_commit[2]
    BY <1>12 DEF IInv, PendingHeld
  <2>2. CASE x.txn_complete
    <3>1. last_commit' = <<x.seq, x.txn>> /\ <<x.seq, x.txn>>[2] = x.txn
      BY <1>2, <2>2
    <3> QED
      BY <1>2, <1>11, <2>1, <2>2, <3>1 DEF PendingHeld
  <2>3. CASE ~x.txn_complete
    <3>1. last_commit # NoCommit => HasCommit(files'[cur], last_commit)
                                    /\ durable.lsn <= last_commit[2]
      BY <1>12 DEF IInv, PendingHeld
    <3> QED
      BY <1>2, <2>1, <2>3, <3>1 DEF PendingHeld
  <2> QED
    BY <2>2, <2>3
<1> QED
  BY <1>3, <1>5, <1>6, <1>7, <1>8, <1>9, <1>10, <1>13 DEF x

\* An fsync of the open file, with or without the roll, moves no frame and
\* leaves none at risk.
LEMMA SyncKeeps ==
    ASSUME IInv, TypeOK', up, spill = <<>>,
           SyncAndRoll \/ (Sync /\ UNCHANGED <<files, cur>>),
           UNCHANGED <<next_seq, spill, up, head>>
    PROVE  /\ Geometry' /\ Numbering' /\ Order' /\ Covered' /\ HeadHeld'
           /\ OnStableDisk' = OnDisk /\ OnDisk' = OnDisk /\ Held' = Held
<1>1. TypeOK /\ Geometry /\ Numbering
  BY DEF IInv, Geometry
<1>2. End \in Nat /\ Len(spill) = 0 /\ next_seq = End
  BY <1>1, HeldFrames DEF Numbering
<1>3. Geometry' /\ End' = End /\ OnDisk' = OnDisk /\ OnStableDisk' = OnDisk
  BY <1>1, <1>2, SyncEffect, SyncAndRollEffect
<1>4. Staged' = Staged
  BY DEF Staged
<1>5. Held' = Held
  BY <1>3, <1>4 DEF Held
<1>6. Order' /\ Covered' /\ HeadHeld'
  BY <1>5 DEF IInv, Order, Covered, HeadHeld
<1>7. Numbering'
  BY <1>1, <1>3 DEF Numbering
<1> QED
  BY <1>3, <1>5, <1>6, <1>7

\* A mark published after the fsync names a frame of the stable disk.
LEMMA PublishKeeps ==
    ASSUME IInv, NEW c \in Nat \X Nat, HasCommit(files[cur], c), OnStableDisk' = OnDisk,
           durable' = Mark(c)
    PROVE  MarkHeld'
<1>1. PICK f \in OnDisk : f.seq = c[1] /\ f.txn_complete /\ f.txn = c[2]
  BY HasCommitOnDisk DEF IInv
<1>2. durable'.valid /\ durable'.seq = c[1] /\ durable'.lsn = c[2]
  BY MarkType
<1> QED
  BY <1>1, <1>2 DEF MarkHeld

\* A crash keeps the mark's frame and cuts the log at some sequence number.
LEMMA CrashKeeps ==
    ASSUME IInv, TypeOK', Geometry', LoseMemory,
           OnDisk' \subseteq OnDisk, OnStableDisk \subseteq OnStableDisk',
           \A f \in OnDisk', g \in OnDisk : g.seq < f.seq => g \in OnDisk'
    PROVE  /\ Numbering' /\ Order' /\ Covered' /\ HeadHeld' /\ MarkHeld'
           /\ PendingHeld' /\ Modes'
<1>1. TypeOK /\ Geometry /\ Numbering /\ head \in Nat /\ End \in Nat
  BY HeldFrames DEF IInv, Geometry, TypeOK
<1>2. /\ up' = FALSE /\ pc' = "idle" /\ spill' = <<>> /\ pending_commit' = NoCommit
      /\ last_commit' = NoCommit /\ stalled' = FALSE
      /\ cur' = cur /\ next_seq' = next_seq /\ durable' = durable /\ head' = head
  BY DEF LoseMemory
<1>3. Held' = OnDisk'
  <2>1. Staged' = {}
    BY <1>2 DEF Staged
  <2> QED
    BY <2>1 DEF Held
<1>4. \A f \in OnDisk', g \in Held : g.seq < f.seq => g \in OnDisk'
  <2> SUFFICES ASSUME NEW f \in OnDisk', NEW g \in Held, g.seq < f.seq
               PROVE  g \in OnDisk'
    OBVIOUS
  <2>1. f.seq < End /\ f.seq \in Nat /\ g.seq \in Nat
    BY <1>1, HeldBelow, HeldFrames, FrameFields DEF Held
  <2>2. g \notin Staged
    BY <1>1, <2>1, HeldBelow
  <2> QED
    BY <2>2 DEF Held
<1>5. OrderIn(Held) /\ CoveredIn(Held) /\ BelowHead(Held, head)
  BY HeldInv DEF IInv
<1>6. Held \in SUBSET Frame /\ OnDisk' \in SUBSET Held
  BY <1>1, HeldFrames DEF Held
<1>7. OrderIn(Held') /\ CoveredIn(Held') /\ BelowHead(Held', head')
  BY <1>1, <1>2, <1>3, <1>4, <1>5, <1>6, CutHeld
<1>8. Order' /\ Covered' /\ HeadHeld'
  BY <1>2, <1>7 DEF Order, Covered, HeadHeld, OrderIn, CoveredIn, BelowHead
<1>9. MarkHeld'
  BY <1>2 DEF IInv, MarkHeld
<1>10. Numbering' /\ PendingHeld' /\ Modes'
  BY <1>2 DEF Numbering, PendingHeld, Modes
<1> QED
  BY <1>8, <1>9, <1>10

LEMMA NumberingFromEnd ==
    ASSUME TypeOK', spill' = <<>>, End' = next_seq'
    PROVE  Numbering'
<1>1. Len(spill') = 0 /\ next_seq' \in Nat
  BY DEF TypeOK
<1>2. PICK k \in Nat : k = next_seq'
  BY <1>1
<1>3. k = k + 0
  OBVIOUS
<1>4. next_seq' = End' + Len(spill')
  BY <1>1, <1>2, <1>3
<1>5. \A i \in 1..Len(spill') : FALSE
  BY <1>1
<1> QED
  BY <1>4, <1>5 DEF Numbering

\* Resuming after the last commit frame: its transaction is the head and the
\* mark, and the mark did not go back.
LEMMA ResumeAtKeeps ==
    ASSUME IInv, TypeOK', Resume, NEW n \in DOMAIN files, NEW i \in DOMAIN files[n],
           IsBoundary(n, i), ResumeAt(n, i)
    PROVE  /\ Geometry' /\ Numbering' /\ Order' /\ Covered' /\ HeadHeld' /\ MarkHeld'
           /\ durable.lsn <= files[n][i].txn /\ files[n][i].txn <= head
<1> DEFINE b == files[n][i]
<1>1. TypeOK /\ Geometry /\ Numbering /\ spill = <<>>
  BY DEF IInv, Geometry, Resume, Modes
<1>2. /\ Geometry' /\ End' = next_seq' /\ b \in OnDisk
      /\ \A f : f \in OnDisk' <=> f \in OnDisk /\ f.seq <= b.seq
      /\ \A f \in OnDisk : f.txn_complete => f.seq <= b.seq
      /\ OnStableDisk' = OnDisk'
  BY <1>1, ResumeAtEffect
<1>3. /\ head' = b.txn /\ durable' = Mark(<<b.seq, b.txn>>) /\ b.txn_complete
      /\ spill' = <<>> /\ up'
  BY <1>1 DEF ResumeAt, Cut, IsBoundary, Resume
<1>4. b \in Frame /\ b.seq \in Nat /\ b.txn \in Nat
  BY <1>1, <1>2, DiskPlaces, FrameFields
<1> HIDE DEF b
<1>5. Held = OnDisk /\ Held' = OnDisk'
  BY <1>1, <1>3 DEF Held, Staged
<1>6. OrderIn(Held) /\ CoveredIn(Held) /\ BelowHead(Held, head) /\ head \in Nat
  BY HeldInv DEF IInv, TypeOK
<1>7. Held \in SUBSET Frame /\ OnDisk' \in SUBSET Held /\ b \in OnDisk'
  BY <1>1, <1>2, <1>4, <1>5, HeldFrames
<1>8. \A f \in Held : f.seq \in Nat
  BY <1>7, FrameFields
<1>9. OrderIn(Held') /\ CoveredIn(Held')
  <2>1. \A f \in OnDisk', g \in Held : g.seq < f.seq => g \in OnDisk'
    BY <1>2, <1>4, <1>5, <1>7, <1>8
  <2> QED
    BY <1>5, <1>6, <1>7, <2>1, CutHeld
<1>10. BelowHead(Held', head') /\ FullTo(Held', head')
  <2>1. \A f \in OnDisk' : f.seq = b.seq => f = b
    BY <1>1, <1>2, SeqUnique
  <2>2. \A f \in OnDisk' : f.seq <= b.seq
    BY <1>2
  <2>3. \A f \in Held : f.seq <= b.seq => f \in OnDisk'
    BY <1>2, <1>5
  <2> QED
    BY <1>3, <1>5, <1>6, <1>7, <2>1, <2>2, <2>3, CutAtCommit
<1>11. Order' /\ Covered' /\ HeadHeld'
  BY <1>9, <1>10 DEF Order, Covered, HeadHeld, OrderIn, CoveredIn, BelowHead, FullTo
<1>12. MarkHeld'
  <2>1. durable'.valid /\ durable'.seq = b.seq /\ durable'.lsn = b.txn
    BY <1>3, <1>4, MarkType
  <2> QED
    BY <1>2, <1>3, <1>7, <2>1 DEF MarkHeld
<1>13. Numbering'
  BY <1>2, <1>3, NumberingFromEnd
<1>14. durable.lsn <= b.txn
  <2>1. durable.lsn \in Nat /\ durable.valid \in BOOLEAN
    BY <1>1 DEF TypeOK, DurableMark
  <2>2. CASE durable.valid
    <3>1. PICK f \in OnStableDisk : f.txn_complete /\ f.txn = durable.lsn
      BY <2>2 DEF IInv, MarkHeld
    <3>2. f \in OnDisk /\ f.seq <= b.seq /\ f.seq \in Nat
      BY <1>1, <1>2, <1>5, <1>8, <3>1, StableOnDisk
    <3>3. CASE f.seq < b.seq
      BY <1>2, <1>5, <1>6, <3>1, <3>2, <3>3 DEF OrderIn
    <3>4. CASE f.seq = b.seq
      <4>1. f = b
        BY <1>1, <1>2, <3>2, <3>4, SeqUnique
      <4> QED
        BY <1>4, <3>1, <4>1
    <3> QED
      BY <1>4, <3>2, <3>3, <3>4
  <2>3. CASE ~durable.valid
    <3>1. durable.lsn = 0
      BY <2>3 DEF IInv, MarkHeld
    <3> QED
      BY <1>4, <3>1
  <2> QED
    BY <2>1, <2>2, <2>3
<1>15. b.txn <= head
  BY <1>2, <1>3, <1>5, <1>6 DEF BelowHead
<1> QED
  BY <1>2, <1>11, <1>12, <1>13, <1>14, <1>15 DEF b

\* A directory without a commit frame never carried a mark.
LEMMA ResumeEmptyKeeps ==
    ASSUME IInv, TypeOK', Resume, ResumeEmpty, \A f \in OnDisk : ~f.txn_complete
    PROVE  /\ Geometry' /\ Numbering' /\ Order' /\ Covered' /\ HeadHeld' /\ MarkHeld'
           /\ durable.lsn = 0
<1>1. TypeOK /\ Geometry /\ spill = <<>>
  BY DEF IInv, Geometry, Resume, Modes
<1>2. Geometry' /\ End' = next_seq' /\ OnDisk' = {} /\ OnStableDisk' = {}
  BY ResumeEmptyEffect
<1>3. head' = 0 /\ durable' = Unset /\ spill' = <<>> /\ next_seq' = 0
  BY <1>1 DEF ResumeEmpty, Resume
<1>4. Held' = {}
  BY <1>2, <1>3 DEF Held, Staged
<1>5. Order' /\ Covered' /\ HeadHeld'
  BY <1>3, <1>4 DEF Order, Covered, HeadHeld
<1>6. MarkHeld'
  BY <1>3 DEF MarkHeld, Unset
<1>7. Numbering'
  <2>1. Len(spill') = 0 /\ End' = 0
    BY <1>2, <1>3
  <2> QED
    BY <1>3, <2>1 DEF Numbering
<1>8. ~durable.valid
  BY <1>1, StableOnDisk DEF IInv, MarkHeld
<1>9. durable.lsn = 0
  BY <1>8 DEF IInv, MarkHeld
<1> QED
  BY <1>2, <1>5, <1>6, <1>7, <1>9

-----------------------------------------------------------------------------
\* An empty directory, whether or not somebody owns it yet.
LEMMA EmptyIInv == Empty /\ up \in BOOLEAN => IInv
<1> SUFFICES ASSUME Empty, up \in BOOLEAN PROVE IInv
  OBVIOUS
<1>1. TypeOK
  BY DEF Empty, TypeOK, Unset, DurableMark
<1>2. DOMAIN files = {0} /\ files[0] = <<>> /\ synced[0] = 0 /\ cur = 0 /\ next_seq = 0
      /\ spill = <<>> /\ head = 0 /\ durable = Unset
      /\ pending_commit = NoCommit /\ last_commit = NoCommit /\ pc = "idle"
      /\ stalled = FALSE
  BY DEF Empty
<1>3. Len(files[0]) = 0 /\ DOMAIN files[0] = {} /\ End = 0 /\ Len(spill) = 0
  BY <1>2 DEF End
<1>4. Contiguous /\ Tiled /\ EarlierSynced
  BY <1>2, <1>3 DEF Contiguous, Tiled, EarlierSynced
<1>5. Held = {} /\ OnStableDisk = {}
  BY <1>2, <1>3 DEF Held, Staged, OnDisk, OnStableDisk
<1>6. Order /\ Covered /\ HeadHeld
  BY <1>2, <1>5 DEF Order, Covered, HeadHeld
<1>7. MarkHeld
  BY <1>2 DEF MarkHeld, Unset
<1>8. Numbering /\ PendingHeld /\ Modes
  BY <1>2, <1>3 DEF Numbering, PendingHeld, Modes
<1> QED
  BY <1>1, <1>4, <1>6, <1>7, <1>8 DEF IInv

LEMMA EmptyIInvNext == (Empty /\ up \in BOOLEAN)' => IInv'
BY EmptyIInv, PTL

LEMMA InitIInv == Create => IInv
BY EmptyIInv DEF Create

LEMMA NextIInv ==
    ASSUME IInv, [Next]_logVars
    PROVE  IInv'
<1>1. TypeOK'
  BY NextTypeOK DEF IInv, Modes, SyncHasCommit
<1>2. TypeOK /\ stalled \in BOOLEAN /\ up \in BOOLEAN
  BY DEF IInv, TypeOK
<1>3. SUFFICES /\ Geometry' /\ Numbering' /\ Order' /\ Covered' /\ HeadHeld' /\ MarkHeld'
               /\ PendingHeld' /\ Modes'
  BY <1>1 DEF IInv, Geometry
<1> DEFINE G == /\ Geometry' /\ Numbering' /\ Order' /\ Covered' /\ HeadHeld' /\ MarkHeld'
                /\ PendingHeld' /\ Modes'
<1>4. ASSUME NEW c \in BOOLEAN, NEW p \in Payload, AppendFrame(c, p) PROVE G
  <2>1. Modes'
    BY <1>2, <1>4, NoCommitAssumption, DeferredAssumption DEF IInv, TypeOK, Modes, AppendFrame, Take
  <2> QED
    BY <1>1, <1>4, <2>1, AppendKeeps DEF AppendFrame
<1>5. ASSUME NEW c \in BOOLEAN, NEW p \in Payload, AppendDeferred(c, p) PROVE G
  <2>1. Modes'
    BY <1>2, <1>5, NoCommitAssumption, DeferredAssumption DEF IInv, TypeOK, Modes, AppendDeferred, Take
  <2> QED
    BY <1>1, <1>5, <2>1, AppendKeeps DEF AppendDeferred
<1>6. CASE SyncCommit
  <2>1. pending_commit \in Nat \X Nat /\ HasCommit(files[cur], pending_commit)
        /\ up /\ spill = <<>> /\ last_commit = NoCommit
    BY <1>6 DEF IInv, TypeOK, Modes, PendingHeld, SyncCommit
  <2>2. /\ Geometry' /\ Numbering' /\ Order' /\ Covered' /\ HeadHeld'
        /\ OnStableDisk' = OnDisk
    BY <1>1, <1>6, <2>1, SyncKeeps DEF SyncCommit
  <2>3. MarkHeld'
    BY <1>6, <2>1, <2>2, PublishKeeps DEF SyncCommit
  <2>4. PendingHeld' /\ Modes'
    BY <1>6, <2>1 DEF IInv, Modes, PendingHeld, SyncCommit
  <2> QED
    BY <2>2, <2>3, <2>4
<1>7. CASE FlushPending
  <2>1. pending_commit \in Nat \X Nat /\ HasCommit(files[cur], pending_commit)
        /\ up /\ spill = <<>> /\ last_commit = NoCommit
    BY <1>2, <1>7 DEF IInv, TypeOK, Modes, PendingHeld, FlushPending
  <2>2. /\ Geometry' /\ Numbering' /\ Order' /\ Covered' /\ HeadHeld'
        /\ OnStableDisk' = OnDisk
    BY <1>1, <1>7, <2>1, SyncKeeps DEF FlushPending
  <2>3. MarkHeld'
    BY <1>7, <2>1, <2>2, PublishKeeps DEF FlushPending
  <2>4. PendingHeld' /\ Modes'
    BY <1>7, <2>1 DEF IInv, Modes, PendingHeld, FlushPending
  <2> QED
    BY <2>2, <2>3, <2>4
<1>8. CASE Stall \/ DrainStart \/ UNCHANGED logVars
  <2>1. /\ UNCHANGED <<files, synced, cur, next_seq, pending_commit, durable, spill, up, head>>
        /\ last_commit' = last_commit \/ last_commit' = NoCommit
    BY <1>8 DEF Stall, DrainStart, logVars
  <2>2. End' = End /\ Held' = Held /\ OnStableDisk' = OnStableDisk
    BY <2>1 DEF End, Held, OnDisk, Staged, OnStableDisk
  <2>3. Geometry' /\ Numbering'
    BY <2>1 DEF IInv, Geometry, Contiguous, Tiled, EarlierSynced, Numbering, End
  <2>4. Order' /\ Covered' /\ HeadHeld' /\ MarkHeld'
    BY <2>1, <2>2 DEF IInv, Order, Covered, HeadHeld, MarkHeld
  <2>5. PendingHeld'
    BY <2>1 DEF IInv, PendingHeld
  <2>6. Modes'
    BY <1>2, <1>8, DeferredAssumption DEF IInv, Modes, Stall, DrainStart, logVars
  <2> QED
    BY <2>3, <2>4, <2>5, <2>6
<1>9. CASE DrainFrame
  <2>1. Modes'
    BY <1>2, <1>9 DEF IInv, Modes, DrainFrame
  <2> QED
    BY <1>1, <1>9, <2>1, DrainFrameKeeps
<1>10. CASE DrainSync
  <2>1. up /\ spill = <<>> /\ pending_commit = NoCommit
    BY <1>10, DeferredAssumption DEF IInv, Modes, DrainSync
  <2>2. /\ Geometry' /\ Numbering' /\ Order' /\ Covered' /\ HeadHeld'
        /\ OnStableDisk' = OnDisk
    BY <1>1, <1>10, <2>1, SyncKeeps DEF DrainSync
  <2>3. MarkHeld'
    <3>1. CASE last_commit = NoCommit
      <4>1. durable' = durable /\ OnStableDisk \subseteq OnStableDisk'
        BY <1>2, <1>10, <2>2, <3>1, StableOnDisk DEF IInv, Geometry, DrainSync
      <4> QED
        BY <4>1 DEF IInv, MarkHeld
    <3>2. CASE last_commit # NoCommit
      <4>1. last_commit \in Nat \X Nat /\ HasCommit(files[cur], last_commit)
            /\ durable' = Mark(last_commit)
        BY <1>10, <3>2 DEF IInv, TypeOK, PendingHeld, DrainSync
      <4> QED
        BY <2>2, <4>1, PublishKeeps
    <3> QED
      BY <3>1, <3>2
  <2>4. PendingHeld' /\ Modes'
    BY <1>10, <2>1 DEF IInv, Modes, PendingHeld, DrainSync
  <2> QED
    BY <2>2, <2>3, <2>4
<1>11. CASE Kill
  <2>1. files' = files /\ synced' = synced /\ cur' = cur /\ LoseMemory
    BY <1>11 DEF Kill, LoseMemory
  <2>2. Geometry' /\ OnDisk' = OnDisk /\ OnStableDisk' = OnStableDisk
    BY <2>1 DEF IInv, Geometry, Contiguous, Tiled, EarlierSynced, End, OnDisk, OnStableDisk
  <2> QED
    BY <1>1, <2>1, <2>2, CrashKeeps
<1>12. CASE PowerLoss
  <2>1. /\ Geometry' /\ OnDisk' \subseteq OnDisk /\ OnStableDisk \subseteq OnStableDisk'
        /\ \A f \in OnDisk', g \in OnDisk : g.seq < f.seq => g \in OnDisk'
    BY <1>2, <1>12, PowerLossEffect DEF IInv, Geometry
  <2>2. LoseMemory
    BY <1>12 DEF PowerLoss
  <2> QED
    BY <1>1, <2>1, <2>2, CrashKeeps
<1>13. CASE Resume
  <2>1. /\ Geometry' /\ Numbering' /\ Order' /\ Covered' /\ HeadHeld' /\ MarkHeld'
    BY <1>1, <1>13, ResumeAtKeeps, ResumeEmptyKeeps DEF Resume
  <2>2. ~up /\ pc = "idle" /\ pending_commit = NoCommit /\ ~stalled /\ last_commit = NoCommit
        /\ spill = <<>>
    BY <1>13 DEF IInv, Modes, Resume
  <2>3. PendingHeld' /\ Modes'
    BY <1>13, <2>2 DEF PendingHeld, Modes, Resume
  <2> QED
    BY <2>1, <2>3
<1> QED
  BY <1>4, <1>5, <1>6, <1>7, <1>8, <1>9, <1>10, <1>11, <1>12, <1>13 DEF Next, Owner

\* The inductive invariant: the files tile the numbering, only the open one
\* has unsynced frames, transactions stand in delivery order without holes,
\* and every waiting commit is in the open file.
THEOREM Inductive == Spec => []IInv
<1>1. IInv /\ [Next]_logVars => IInv'
  BY NextIInv
<1> QED
  BY <1>1, InitIInv, PTL DEF Spec

-----------------------------------------------------------------------------
(***************************************************************************)
(* What the invariant says of the mark.                                    *)
(***************************************************************************)
LEMMA IInvMark ==
    ASSUME IInv
    PROVE  MarkIsSyncedPrefix
<1> SUFFICES ASSUME durable.valid, NEW s \in 0..durable.seq
             PROVE  \E f \in OnStableDisk : f.seq = s
  BY DEF MarkIsSyncedPrefix, IInv, MarkHeld
<1>1. TypeOK /\ Geometry /\ Numbering /\ End \in Nat /\ durable.seq \in Nat /\ s \in Nat
  BY HeldFrames DEF IInv, Geometry, TypeOK, DurableMark
<1>2. PICK f \in OnStableDisk : f.seq = durable.seq
  BY DEF IInv, MarkHeld
<1>3. PICK n \in DOMAIN files : \E i \in 1..synced[n] : f = files[n][i]
  BY <1>1, <1>2, DiskPlaces
<1>4. PICK i \in 1..synced[n] : f = files[n][i]
  BY <1>3
<1>5. /\ n \in Nat /\ Len(files[n]) \in Nat /\ synced[n] \in Nat
      /\ synced[n] <= Len(files[n]) /\ cur \in Nat
  BY <1>1, DiskPlaces DEF TypeOK, Geometry, EarlierSynced
<1>6. durable.seq = n + i - 1
  <2>1. i \in 1..Len(files[n])
    BY <1>5
  <2> QED
    BY <1>1, <1>2, <1>4, <2>1 DEF Geometry, Contiguous
<1>7. s \in 0..(End - 1)
  <2>1. durable.seq < End
    BY <1>1, <1>2, StableOnDisk, HeldBelow
  <2> QED
    BY <1>1, <2>1
<1>8. PICK m \in DOMAIN files : m <= s /\ s < m + Len(files[m])
  BY <1>1, <1>7 DEF Geometry, Tiled
<1>9. m \in Nat /\ Len(files[m]) \in Nat /\ synced[m] \in Nat
  BY <1>1, DiskPlaces DEF TypeOK
<1>10. (s - m + 1) \in 1..Len(files[m]) /\ files[m][s - m + 1].seq = s
  <2>1. (s - m + 1) \in 1..Len(files[m])
    BY <1>1, <1>8, <1>9
  <2>2. files[m][s - m + 1].seq = m + (s - m + 1) - 1
    BY <1>1, <2>1 DEF Geometry, Contiguous
  <2> QED
    BY <1>1, <1>9, <2>1, <2>2
<1>11. (s - m + 1) \in 1..synced[m]
  <2>1. CASE m # cur
    BY <1>1, <1>10, <2>1 DEF Geometry, EarlierSynced
  <2>2. CASE m = cur
    <3>1. n <= cur /\ (n < cur => n + Len(files[n]) <= cur)
      BY <1>1 DEF Geometry, Tiled, TypeOK
    <3>2. n = cur
      BY <1>4, <1>5, <1>6, <1>8, <2>2, <3>1
    <3> QED
      BY <1>4, <1>5, <1>6, <1>8, <1>9, <2>2, <3>2
  <2> QED
    BY <2>1, <2>2
<1> QED
  BY <1>1, <1>10, <1>11, DiskPlaces

LEMMA IInvOnce ==
    ASSUME IInv
    PROVE  ExactlyOnce
<1> SUFFICES ASSUME NEW t \in 1..durable.lsn
             PROVE  \E f \in OnDisk : /\ f.txn_complete /\ f.txn = t
                                      /\ \A g \in OnDisk : g.txn_complete /\ g.txn = t => g = f
  BY DEF ExactlyOnce
<1>1. TypeOK /\ Geometry /\ Numbering /\ End \in Nat /\ durable.lsn \in Nat
      /\ durable.valid \in BOOLEAN
  BY HeldFrames DEF IInv, Geometry, TypeOK, DurableMark
<1>2. durable.valid
  BY <1>1 DEF IInv, MarkHeld
<1>3. PICK b \in OnStableDisk : b.txn_complete /\ b.txn = durable.lsn
  BY <1>2 DEF IInv, MarkHeld
<1>4. b \in OnDisk /\ b \in Held
  BY <1>1, <1>3, StableOnDisk DEF Held
<1>5. \A f \in Held : f.seq \in Nat /\ f.txn \in Nat
  BY <1>1, HeldFrames, FrameFields
<1>6. \E f \in OnDisk : f.txn_complete /\ f.txn = t
  <2>1. CASE t = durable.lsn
    BY <1>3, <1>4, <2>1
  <2>2. CASE t # durable.lsn
    <3>1. t \in 1..(b.txn - 1)
      BY <1>1, <1>3, <2>2
    <3>2. PICK g \in Held : g.txn_complete /\ g.txn = t /\ g.seq < b.seq
      BY <1>4, <3>1 DEF IInv, Covered
    <3>3. b.seq < End
      BY <1>1, <1>4, HeldBelow
    <3>4. g \notin Staged
      BY <1>1, <1>4, <1>5, <3>2, <3>3, HeldBelow
    <3> QED
      BY <3>2, <3>4 DEF Held
  <2> QED
    BY <2>1, <2>2
<1>7. ASSUME NEW f \in OnDisk, NEW g \in OnDisk, f.txn_complete, g.txn_complete,
             f.txn = t, g.txn = t
      PROVE  g = f
  <2>1. f \in Held /\ g \in Held
    BY DEF Held
  <2>2. ~(f.seq < g.seq) /\ ~(g.seq < f.seq)
    BY <1>5, <1>7, <2>1 DEF IInv, Order
  <2>3. f.seq = g.seq
    BY <1>5, <2>1, <2>2
  <2> QED
    BY <1>1, <2>3, SeqUnique
<1> QED
  BY <1>6, <1>7

\* The order verify_log reads the frames in is the order of the numbering.
LEMMA PlaceOrder ==
    ASSUME IInv
    PROVE  /\ \A p \in Places : FrameAt(p) \in OnDisk /\ FrameAt(p).seq \in Nat
           /\ \A p, q \in Places : ReadBefore(p, q) <=> FrameAt(p).seq < FrameAt(q).seq
           /\ \A s \in 0..(End - 1) : \E p \in Places : FrameAt(p).seq = s
<1>1. TypeOK /\ Geometry /\ End \in Nat
  BY HeldFrames DEF IInv, Geometry
<1>2. ASSUME NEW p \in Places
      PROVE  /\ p[1] \in DOMAIN files /\ p[2] \in 1..Len(files[p[1]])
             /\ p[1] \in Nat /\ Len(files[p[1]]) \in Nat
             /\ FrameAt(p).seq = p[1] + p[2] - 1
             /\ FrameAt(p) \in OnDisk
  <2>1. p[1] \in DOMAIN files /\ p[2] \in DOMAIN files[p[1]]
    BY <1>2 DEF Places
  <2>2. p[2] \in 1..Len(files[p[1]]) /\ p[1] \in Nat /\ Len(files[p[1]]) \in Nat
    BY <1>1, <2>1, DiskPlaces
  <2>3. FrameAt(p).seq = p[1] + p[2] - 1
    BY <1>1, <2>1, <2>2 DEF FrameAt, Geometry, Contiguous
  <2>4. FrameAt(p) \in OnDisk
    BY <1>1, <2>1, <2>2, DiskPlaces DEF FrameAt
  <2> QED
    BY <2>1, <2>2, <2>3, <2>4
<1>3. ASSUME NEW p \in Places, NEW q \in Places
      PROVE  ReadBefore(p, q) <=> FrameAt(p).seq < FrameAt(q).seq
  <2>1. (p[1] < q[1] => p[1] + Len(files[p[1]]) <= q[1])
        /\ (q[1] < p[1] => q[1] + Len(files[q[1]]) <= p[1])
    BY <1>1, <1>2 DEF Geometry, Tiled
  <2>6. p[1] \in Nat /\ p[2] \in Nat /\ q[1] \in Nat /\ q[2] \in Nat
    BY <1>2
  <2>2. PICK a \in Nat, i \in Nat, b \in Nat, j \in Nat :
           a = p[1] /\ i = p[2] /\ b = q[1] /\ j = q[2]
    BY <2>6, Zenon
  <2>3. i >= 1 /\ i <= Len(files[a]) /\ j >= 1 /\ j <= Len(files[b])
        /\ Len(files[a]) \in Nat /\ Len(files[b]) \in Nat
    BY <1>2, <2>2
  <2>4. (a < b => a + Len(files[a]) <= b) /\ (b < a => b + Len(files[b]) <= a)
    BY <2>1, <2>2
  <2>5. (a < b \/ (a = b /\ i < j)) <=> a + i - 1 < b + j - 1
    BY <2>3, <2>4
  <2> QED
    BY <1>2, <2>2, <2>5 DEF ReadBefore
<1>4. ASSUME NEW s \in 0..(End - 1)
      PROVE  \E p \in Places : FrameAt(p).seq = s
  <2>1. PICK n \in DOMAIN files : n <= s /\ s < n + Len(files[n])
    BY <1>1 DEF Geometry, Tiled
  <2>2. n \in Nat /\ Len(files[n]) \in Nat /\ s \in Nat /\ DOMAIN files[n] = 1..Len(files[n])
    BY <1>1, DiskPlaces
  <2>3. (s - n + 1) \in DOMAIN files[n]
    BY <2>1, <2>2
  <2>4. <<n, s - n + 1>> \in Places
    BY <2>3 DEF Places
  <2>5. FrameAt(<<n, s - n + 1>>).seq = n + (s - n + 1) - 1
    BY <1>2, <2>4
  <2> QED
    BY <2>2, <2>4, <2>5
<1>5. \A p \in Places : FrameAt(p).seq \in Nat
  BY <1>1, <1>2, DiskPlaces, FrameFields
<1> QED
  BY <1>2, <1>3, <1>4, <1>5

LEMMA IInvVerify ==
    ASSUME IInv
    PROVE  VerifyLogPasses
<1>1. TypeOK /\ Geometry /\ Numbering /\ End \in Nat
  BY HeldFrames DEF IInv, Geometry
<1>2. LsnMonotone
  <2> SUFFICES ASSUME NEW p \in Places, NEW q \in Places, ReadBefore(p, q)
               PROVE  FrameAt(p).txn <= FrameAt(q).txn
    BY DEF LsnMonotone
  <2>1. FrameAt(p).seq < FrameAt(q).seq /\ FrameAt(p) \in Held /\ FrameAt(q) \in Held
    BY PlaceOrder DEF Held
  <2> QED
    BY <2>1 DEF IInv, Order
<1>3. SeqContiguous
  <2> SUFFICES ASSUME NEW p \in Places, NEW q \in Places, ReadBefore(p, q),
                      \A r \in Places : ~(ReadBefore(p, r) /\ ReadBefore(r, q))
               PROVE  FrameAt(q).seq = FrameAt(p).seq + 1
    BY DEF SeqContiguous
  <2>1. PICK a \in Nat, b \in Nat : a = FrameAt(p).seq /\ b = FrameAt(q).seq
    BY PlaceOrder
  <2>2. a < b /\ b < End
    BY <1>1, <2>1, PlaceOrder, HeldBelow
  <2>3. a + 1 \in 0..(End - 1)
    BY <1>1, <2>2
  <2>4. PICK r \in Places : FrameAt(r).seq = a + 1
    BY <2>3, PlaceOrder
  <2>5. ReadBefore(p, r)
    <3>1. FrameAt(p).seq < FrameAt(r).seq
      BY <2>1, <2>4
    <3> QED
      BY <3>1, PlaceOrder
  <2>6. ~(a + 1 < b)
    <3>1. ~ReadBefore(r, q)
      BY <2>5
    <3>2. ~(FrameAt(r).seq < FrameAt(q).seq)
      BY <3>1, PlaceOrder
    <3> QED
      BY <2>1, <2>4, <3>2
  <2> QED
    BY <2>1, <2>2, <2>6
<1> QED
  BY <1>2, <1>3 DEF VerifyLogPasses

\* The ack invariant (lib.rs 3-6): at every moment, after any number of
\* crashes, stalls and resumes, the published mark names a commit frame that
\* no power loss can take, and none of the frames before it either.
THEOREM AckInvariant == Spec => []MarkIsSyncedPrefix
BY Inductive, IInvMark, PTL

\* Zero loss, zero duplication: each transaction the mark covers has exactly
\* one commit frame on disk.
THEOREM OnceEach == Spec => []ExactlyOnce
BY Inductive, IInvOnce, PTL

\* verify_log reports no gap and no LSN regression, whenever it is run.
THEOREM VerifyPasses == Spec => []VerifyLogPasses
BY Inductive, IInvVerify, PTL

MarkBounded == durable.lsn \in Nat /\ durable.lsn <= head

LEMMA MarkIsBounded == IInv => MarkBounded
BY MarkBelowHead DEF MarkBounded

LEMMA MarkStaysBounded == IInv' => MarkBounded'
BY MarkIsBounded, PTL

\* Every step of the log is a step of Custody, or changes nothing it sees.
LEMMA CustodyStep ==
    ASSUME IInv, [Next]_logVars
    PROVE  [C!Next]_<<head, durable.lsn>>
<1>0. IInv' /\ MarkBounded'
  BY NextIInv, MarkStaysBounded
<1>1. head \in Nat /\ durable.lsn \in Nat /\ durable.lsn <= head /\ TypeOK
  BY MarkBelowHead DEF IInv, TypeOK
<1>2. head' \in Nat /\ durable'.lsn \in Nat /\ durable'.lsn <= head'
  BY <1>0 DEF IInv, TypeOK, MarkBounded
<1>3. ASSUME NEW c \in BOOLEAN, NEW p \in Payload, AppendFrame(c, p) \/ AppendDeferred(c, p)
      PROVE  [C!Next]_<<head, durable.lsn>>
  <2>1. durable' = durable /\ head' = IF c THEN head + 1 ELSE head
    BY <1>3 DEF AppendFrame, AppendDeferred, Take
  <2> QED
    BY <2>1 DEF C!Next, C!Receive
<1>4. CASE SyncCommit \/ FlushPending
  <2>1. head' = head /\ durable' = Mark(pending_commit) /\ pending_commit # NoCommit
    BY <1>4 DEF SyncCommit, FlushPending, IInv, Modes
  <2>2. durable'.lsn = pending_commit[2] /\ durable.lsn <= pending_commit[2]
    BY <1>1, <2>1, MarkType DEF IInv, PendingHeld, TypeOK
  <2> QED
    BY <1>1, <1>2, <2>1, <2>2 DEF C!Next, C!Promise
<1>5. CASE DrainSync
  <2>1. head' = head /\ durable' = IF last_commit = NoCommit THEN durable ELSE Mark(last_commit)
    BY <1>5 DEF DrainSync
  <2>2. CASE last_commit = NoCommit
    BY <2>1, <2>2
  <2>3. CASE last_commit # NoCommit
    <3>1. durable'.lsn = last_commit[2] /\ durable.lsn <= last_commit[2]
      BY <1>1, <2>1, <2>3, MarkType DEF IInv, PendingHeld, TypeOK
    <3> QED
      BY <1>1, <1>2, <2>1, <3>1 DEF C!Next, C!Promise
  <2> QED
    BY <2>2, <2>3
<1>6. CASE Stall \/ DrainStart \/ DrainFrame \/ Kill \/ PowerLoss \/ UNCHANGED logVars
  BY <1>6 DEF Stall, DrainStart, DrainFrame, Kill, PowerLoss, LoseMemory, logVars
<1>7. CASE Resume
  <2>1. TypeOK'
    BY <1>0 DEF IInv
  <2>2. ASSUME NEW n \in DOMAIN files, NEW i \in DOMAIN files[n],
               IsBoundary(n, i), ResumeAt(n, i)
        PROVE  [C!Next]_<<head, durable.lsn>>
    <3>1. durable.lsn <= files[n][i].txn /\ files[n][i].txn <= head
      BY <1>7, <2>1, <2>2, ResumeAtKeeps
    <3>2. files[n][i] \in Frame
      BY <1>1, DiskPlaces DEF TypeOK
    <3>3. files[n][i].txn \in Nat /\ files[n][i].seq \in Nat
      BY <3>2, FrameFields
    <3>4. head' = files[n][i].txn /\ durable'.lsn = files[n][i].txn
      BY <2>2, <3>3, MarkType DEF ResumeAt, Cut
    <3> QED
      BY <1>1, <3>1, <3>3, <3>4 DEF C!Next, C!Recover
  <2>3. ASSUME ResumeEmpty, \A f \in OnDisk : ~f.txn_complete
        PROVE  [C!Next]_<<head, durable.lsn>>
    <3>1. durable.lsn = 0
      BY <1>7, <2>1, <2>3, ResumeEmptyKeeps
    <3>2. head' = 0 /\ durable'.lsn = 0
      BY <2>3 DEF ResumeEmpty, Unset
    <3> QED
      BY <1>1, <3>1, <3>2 DEF C!Next, C!Recover
  <2> QED
    BY <1>7, <2>2, <2>3 DEF Resume
<1> QED
  BY <1>3, <1>4, <1>5, <1>6, <1>7 DEF Next, Owner

\* No step takes back a published mark.
LEMMA MarkNeverBack ==
    ASSUME IInv, [Next]_logVars
    PROVE  durable'.lsn \in Nat /\ durable.lsn <= durable'.lsn
<1>1. /\ durable.lsn \in Nat /\ durable.lsn <= head /\ head \in Nat
      /\ durable'.lsn \in Nat
  BY MarkBelowHead, NextIInv, MarkStaysBounded DEF MarkBounded, IInv, TypeOK
<1> QED
  BY <1>1, CustodyStep DEF C!Next, C!Receive, C!Promise, C!Recover

\* Every transaction up to the mark is a complete one no power loss can take.
LEMMA CommitsStable ==
    ASSUME IInv, NEW t \in 1..durable.lsn
    PROVE  \E f \in OnStableDisk : f.txn_complete /\ f.txn = t
<1>1. TypeOK /\ Geometry /\ Numbering /\ durable.lsn \in Nat /\ durable.seq \in Nat
      /\ durable.valid \in BOOLEAN
  BY DEF IInv, Geometry, TypeOK, DurableMark
<1>2. durable.valid
  BY <1>1 DEF IInv, MarkHeld
<1>3. PICK b \in OnStableDisk : b.seq = durable.seq /\ b.txn_complete /\ b.txn = durable.lsn
  BY <1>2 DEF IInv, MarkHeld
<1>4. b \in Held
  BY <1>1, <1>3, StableOnDisk DEF Held
<1>5. CASE t = durable.lsn
  BY <1>3, <1>5
<1>6. CASE t # durable.lsn
  <2>1. t \in 1..(b.txn - 1)
    BY <1>1, <1>3, <1>6
  <2>2. PICK g \in Held : g.txn_complete /\ g.txn = t /\ g.seq < b.seq
    BY <1>4, <2>1 DEF IInv, Covered
  <2>3. g.seq \in Nat
    BY <1>1, HeldFrames, FrameFields
  <2>4. g.seq \in 0..durable.seq
    BY <1>1, <1>3, <2>2, <2>3
  <2>5. PICK h \in OnStableDisk : h.seq = g.seq
    BY <1>2, <2>4, IInvMark DEF MarkIsSyncedPrefix
  <2>6. h \in Held
    BY <1>1, StableOnDisk DEF Held
  <2>7. h = g
    BY <1>1, <2>5, <2>6, HeldUnique
  <2> QED
    BY <2>2, <2>7
<1> QED
  BY <1>5, <1>6

\* FrameLog implements Custody: every step receives, promises, recovers or
\* leaves both alone, and no resume takes back a published mark.
THEOREM Refinement == Spec => KeepsCustody
<1>1. Create => C!Init
  BY DEF Create, Empty, Unset, C!Init
<1>2. IInv /\ [Next]_logVars => [C!Next]_<<head, durable.lsn>>
  BY CustodyStep
<1> QED
  BY <1>1, <1>2, Inductive, PTL DEF Spec, KeepsCustody, C!Spec
=============================================================================
