------------------------------ MODULE MCShapes ------------------------------
(***************************************************************************)
(* Shapes on small instances, and the texts of the rows they load.  Keys   *)
(* and values are interchangeable.                                         *)
(***************************************************************************)
EXTENDS Shapes, RowText, TLC

Interchangeable == Permutations(Key) \union Permutations(Val)

TextsOver(bytes) == UNION {[1..n -> bytes] : n \in 0..2}

Columns(bytes) == TextsOver(bytes) \union {Null}

\* Loading a part gives the values COPY was given, also those that look like
\* escapes, separators or NULL (copytext.rs, "backfill values byte-match the raw
\* renderings pgoutput delivers for the same data").
ASSUME CopyRoundTrip ==
    LET columns == Columns({"N", "t", "TAB", "LF", "BACKSLASH"}) IN
    \A a, b \in columns :
        /\ RowsOfPart(CopyPart(<<<<a, b>>>>)) = <<<<a, b>>>>
        /\ RowsOfPart(CopyPart(<<<<a>>, <<b>>>>)) = <<<<a>>, <<b>>>>

\* Different keys have different bytes, whatever a single key column contains,
\* and for several columns as long as their text has no 0x1F: one with it can
\* be another key's separator (key_of).
ASSUME KeysApart ==
    LET Apart(rows, key_idx) ==
            \A r, s \in rows : KeyBytes(r, key_idx) = KeyBytes(s, key_idx) => r = s
        plain == Columns({"a", "0x00", "0x01"})
        any == Columns({"a", "0x01", "0x1F"})
    IN  /\ Apart({<<a>> : a \in any}, <<1>>)
        /\ Apart(plain \X plain, <<1, 2>>)
        /\ KeyBytes(<<<<"a">>, <<"0x1F", "0x01", "a">>>>, <<1, 2>>)
             = KeyBytes(<<<<"a", "0x1F", "0x01">>, <<"a">>>>, <<1, 2>>)
=============================================================================
