------------------------------ MODULE RowText -------------------------------
(***************************************************************************)
(* The text a staged part and a key consist of: how load_copy_part splits  *)
(* a part into lines and fields and unescapes them, and the bytes key_of   *)
(* makes of a row's key columns.  A text is a sequence of bytes, and a     *)
(* byte that means something here has a name.                              *)
(***************************************************************************)
EXTENDS Naturals, Sequences, SequencesExt

CONSTANT Null   \* None, a column without a value

Escapes == [n |-> "LF", t |-> "TAB", b |-> "BS", f |-> "FF", r |-> "CR", v |-> "VT"]

\* slice::split: the pieces between the separators, one more than these.
Split(text, separator) ==
    LET cuts == {i \in DOMAIN text : text[i] = separator}
        ends == SetToSortSeq(cuts \union {0, Len(text) + 1}, <)
    IN [k \in 1..(Len(ends) - 1) |-> SubSeq(text, ends[k] + 1, ends[k + 1] - 1)]

\* graydb_check_split: the end of the part begins no line.
Lines(part) ==
    LET pieces == Split(part, "LF") IN IF Last(pieces) = <<>> THEN Front(pieces) ELSE pieces

\* A backslash at the very end, and an escape that is not known, stand for
\* themselves.
Unescape(field) ==
    LET Step(seen, byte) ==
            IF seen.escaped
            THEN [text |-> Append(seen.text, IF byte \in DOMAIN Escapes THEN Escapes[byte] ELSE byte),
                  escaped |-> FALSE]
            ELSE IF byte = "BACKSLASH" THEN [seen EXCEPT !.escaped = TRUE]
            ELSE [seen EXCEPT !.text = Append(@, byte)]
        seen == FoldLeft(Step, [text |-> <<>>, escaped |-> FALSE], field)
    IN IF field = <<"BACKSLASH", "N">> THEN Null
       ELSE IF seen.escaped THEN Append(seen.text, "BACKSLASH") ELSE seen.text

ParseCopyLine(line) ==
    LET fields == Split(line, "TAB") IN [c \in DOMAIN fields |-> Unescape(fields[c])]

\* load_copy_part, up to inserting the rows; a line of another width is refused.
RowsOfPart(part) == [i \in DOMAIN Lines(part) |-> ParseCopyLine(Lines(part)[i])]

\* key_of: a column is marked as present or absent, and ends with 0x1F.
KeyBytes(values, key_idx) ==
    FlattenSeq([i \in DOMAIN key_idx |->
        LET value == values[key_idx[i]] IN
        (IF value = Null THEN <<"0x00">> ELSE <<"0x01">> \o value) \o <<"0x1F">>])

-----------------------------------------------------------------------------
\* PostgreSQL's COPY TO in text format.
Escaped(byte) ==
    CASE byte = "BACKSLASH" -> <<"BACKSLASH", "BACKSLASH">>
      [] \E e \in DOMAIN Escapes : Escapes[e] = byte ->
            <<"BACKSLASH", CHOOSE e \in DOMAIN Escapes : Escapes[e] = byte>>
      [] OTHER -> <<byte>>

CopyField(value) ==
    IF value = Null THEN <<"BACKSLASH", "N">>
    ELSE FlattenSeq([i \in DOMAIN value |-> Escaped(value[i])])

CopyLine(row) ==
    FlattenSeq([c \in DOMAIN row |->
        CopyField(row[c]) \o IF c = Len(row) THEN <<"LF">> ELSE <<"TAB">>])

CopyPart(rows) == FlattenSeq([i \in DOMAIN rows |-> CopyLine(rows[i])])
=============================================================================
