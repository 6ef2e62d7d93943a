------------------------------ MODULE LogTail -------------------------------
(***************************************************************************)
(* graydb-log's LogTail: the apply loop's incremental reader.  It keeps a  *)
(* cursor [current, offset] into the segment files and returns what has    *)
(* been appended since the last call.  The offset is in bytes, so frames   *)
(* have sizes here: after a resume has recreated a file the cursor is in,  *)
(* it may point into the middle of a frame.                                *)
(***************************************************************************)
EXTENDS Integers, Sequences, FiniteSets, SequencesExt

CONSTANTS
    NoSegment,    \* current = None
    RelationSize  \* bytes of a Relation frame; every other frame has one

ASSUME RelationSizeAssumption == RelationSize \in Nat \ {0}
ASSUME NoSegmentAssumption == NoSegment \notin Nat

LogCursor == [current : Nat \union {NoSegment}, offset : Nat]

NewTail == [current |-> NoSegment, offset |-> 0]

Bytes(s) ==
    Len(s) + (RelationSize - 1) * Cardinality({i \in DOMAIN s : s[i].payload = "relation"})

\* How many frames end before byte o of s, if o is a frame boundary.
FramesBefore(s, o) == {i \in 0..Len(s) : Bytes(SubSeq(s, 1, i)) = o}

\* decode_frame, over and over, from byte o on: in the middle of a frame
\* neither the magic nor the checksum matches and nothing is decoded.
Decodes(s, o) == FramesBefore(s, o) # {}

From(s, o) == SubSeq(s, (CHOOSE i \in FramesBefore(s, o) : TRUE) + 1, Len(s))

FirstSegment(fs) == CHOOSE n \in DOMAIN fs : \A m \in DOMAIN fs : n <= m

LastSegment(fs) == CHOOSE n \in DOMAIN fs : \A m \in DOMAIN fs : m <= n

\* Every frame of the segments after n, in name order.
FramesAfter(fs, n) ==
    FlattenSeq([k \in 1..(LastSegment(fs) - n) |->
                    IF n + k \in DOMAIN fs THEN fs[n + k] ELSE <<>>])

\* What verify_log hands its callers: the frames of every segment, in name order.
AllFrames(fs) == fs[FirstSegment(fs)] \o FramesAfter(fs, FirstSegment(fs))

\* The cursor segment is established, or replaced when it was deleted.
Gone(fs, t) == t.current # NoSegment /\ t.current \notin DOMAIN fs

Established(fs, t) ==
    IF t.current = NoSegment
    THEN [current |-> FirstSegment(fs), offset |-> 0]
    ELSE IF Gone(fs, t)
         THEN [current |-> LastSegment(fs), offset |-> Bytes(fs[LastSegment(fs)])]
         ELSE t

\* A file shorter than the offset: the cursor goes to its end.
Shrunk(fs, c) == Bytes(fs[c.current]) < c.offset

\* Mutant of Clamped: the offset becomes what is left, not where the file ends.
ClampedToRest(fs, c) ==
    IF Shrunk(fs, c) THEN [c EXCEPT !.offset = Bytes(fs[c.current]) - c.offset] ELSE c

Clamped(fs, c) == IF Shrunk(fs, c) THEN [c EXCEPT !.offset = Bytes(fs[c.current])] ELSE c

\* Mutant of ReadNew: the cursor never moves on to the next segment.
ReadCurrentOnly(fs, t, c) ==
    LET ok == Decodes(fs[c.current], c.offset)
    IN  [frames  |-> IF ok THEN From(fs[c.current], c.offset) ELSE <<>>,
         rewound |-> Gone(fs, t) \/ Shrunk(fs, Established(fs, t)),
         corrupt |-> FALSE,
         tail    |-> IF ok THEN [c EXCEPT !.offset = Bytes(fs[c.current])] ELSE c]

(***************************************************************************)
(* read_new, from the cursor t; c is where it stands in the files that are *)
(* there.  A frame that does not decode stops the call: silently in the    *)
(* last segment (it may still be being written), with an error before it.  *)
(***************************************************************************)
Cursor(fs, t) == Clamped(fs, Established(fs, t))

ReadNew(fs, t, c) ==
    LET last == LastSegment(fs)
        ok   == Decodes(fs[c.current], c.offset)
    IN  [frames  |-> IF ok THEN From(fs[c.current], c.offset) \o FramesAfter(fs, c.current)
                           ELSE <<>>,
         rewound |-> Gone(fs, t) \/ Shrunk(fs, Established(fs, t)),
         corrupt |-> ~ok /\ c.current # last,
         tail    |-> IF ok THEN [current |-> last, offset |-> Bytes(fs[last])] ELSE c]
=============================================================================
