---------------------------- MODULE PgTextFormat ----------------------------
(***************************************************************************)
(* Arrays, records and ranges in PostgreSQL's text format, which simple    *)
(* queries return: the scanners of types/array.rs, types/record.rs and     *)
(* types/range.rs against the server's quoting rules.  A text is a         *)
(* sequence of characters; QuoteText, EscapeText, Comma and Blank are the  *)
(* ones that the formats treat apart, and Wide one that is not ASCII and   *)
(* takes two bytes.                                                        *)
(***************************************************************************)
EXTENDS Integers, Sequences, SequencesExt

CONSTANT MaxElements

ASSUME TextAssumption == MaxElements \in Nat

VARIABLE text      \* the value the server holds and what the client read

QuoteText == "q"
EscapeText == "e"
Comma == ","
Blank == " "
Wide == "w"
NullWord == <<"N", "U", "L", "L">>

\* The texts of elements, fields and bounds.
Elements ==
    {<<>>, NullWord, <<"a">>, <<Wide>>, <<"a", Blank>>, <<QuoteText>>, <<EscapeText>>, <<Comma>>}
        \cup [1..2 -> {"a", QuoteText, EscapeText, Comma}] \cup [1..3 -> {QuoteText, EscapeText}]

Nothing == [null |-> TRUE, chars |-> <<>>]
Just(chars) == [null |-> FALSE, chars |-> chars]
Unread == [form |-> "none", shape |-> <<>>, parts |-> <<>>, read |-> <<>>]

TextInit == text = Unread

-----------------------------------------------------------------------------
(* The server's output functions                                           *)

Needs(chars, special) == chars = <<>> \/ \E i \in DOMAIN chars : chars[i] \in special
Special == {QuoteText, EscapeText, Comma, Blank}

\* Quoted with each quote and escape behind `before(c)'.
Quoted(chars, Before(_)) ==
    <<QuoteText>> \o FlattenSeq([i \in DOMAIN chars |-> IF chars[i] \in {QuoteText, EscapeText} THEN <<Before(chars[i]), chars[i]>> ELSE <<chars[i]>>])
              \o <<QuoteText>>
Joined(parts) == FlattenSeq([i \in DOMAIN parts |-> IF i = 1 THEN parts[i] ELSE <<Comma>> \o parts[i]])

\* array_out, without the braces.
ArrayOut(vs) ==
    Joined([i \in DOMAIN vs |->
        IF vs[i].null THEN NullWord
        ELSE IF Needs(vs[i].chars, Special) \/ vs[i].chars = NullWord
        THEN Quoted(vs[i].chars, LAMBDA c : EscapeText) ELSE vs[i].chars])

\* record_out and range_out, without the brackets: a quote and an escape
\* are doubled.
RecordOut(vs) ==
    Joined([i \in DOMAIN vs |->
        IF vs[i].null THEN <<>>
        ELSE IF Needs(vs[i].chars, Special) THEN Quoted(vs[i].chars, LAMBDA c : c) ELSE vs[i].chars])

-----------------------------------------------------------------------------
(* The client's scanners                                                   *)

ScanStart == [value |-> <<>>, in_quotes |-> FALSE, in_escape |-> FALSE, quoted |-> FALSE, prev |-> "", out |-> <<>>]

\* The end of an element of an array: the bare or quoted word NULL is NULL.
EndElement(s) ==
    [s EXCEPT !.out = Append(@, IF s.value = NullWord THEN Nothing ELSE Just(s.value)), !.value = <<>>]

\* One character of an array.
ScanArray(s, ch) ==
    CASE s.in_escape -> [s EXCEPT !.value = Append(@, ch), !.in_escape = FALSE]
      [] ~s.in_escape /\ ch = QuoteText -> [s EXCEPT !.in_quotes = ~@]
      [] ~s.in_escape /\ ch = EscapeText -> [s EXCEPT !.in_escape = TRUE]
      [] ~s.in_escape /\ ch = Comma /\ ~s.in_quotes -> EndElement(s)
      [] OTHER -> [s EXCEPT !.value = Append(@, ch)]

DecodeArray(chars) == IF chars = <<>> THEN <<>> ELSE EndElement(FoldLeft(ScanArray, ScanStart, chars)).out

\* The end of a field or a bound: completely empty input means NULL.
EndField(s) ==
    [s EXCEPT !.out = Append(@, IF s.value = <<>> /\ ~s.quoted THEN Nothing ELSE Just(s.value)), !.value = <<>>]

\* One character of a record's field or a range's bound; a quote right
\* after a closing one is a quote.
ScanField(s, ch) ==
    LET t == [s EXCEPT !.prev = ch] IN
    CASE s.in_escape -> [t EXCEPT !.value = Append(@, ch), !.in_escape = FALSE]
      [] ~s.in_escape /\ ch = QuoteText /\ s.in_quotes -> [t EXCEPT !.in_quotes = FALSE]
      [] ~s.in_escape /\ ch = QuoteText /\ ~s.in_quotes ->
            [t EXCEPT !.in_quotes = TRUE, !.quoted = TRUE, !.value = IF s.prev = QuoteText THEN Append(@, QuoteText) ELSE @]
      [] ~s.in_escape /\ ch = EscapeText -> [t EXCEPT !.in_escape = TRUE]
      [] OTHER -> [t EXCEPT !.value = Append(@, ch)]

Ends(s, ch) == ch = Comma /\ ~s.in_quotes /\ ~s.in_escape

\* PgRecordDecoder: every try_decode() begins with fresh flags, and finds no
\* field where no character is left.
ScanRecord(s, ch) ==
    IF Ends(s, ch) THEN [ScanStart EXCEPT !.out = EndField(s).out] ELSE ScanField(s, ch)
\* The bytes of a text, each as the character of that code: `get_u8() as char'.
ByteChars(chars) ==
    FlattenSeq([i \in DOMAIN chars |-> IF chars[i] = Wide THEN <<"w1", "w2">> ELSE <<chars[i]>>])
DecodeRecord(chars) ==
    LET s == FoldLeft(ScanRecord, ScanStart, ByteChars(chars))
    IN  IF s.prev = "" THEN s.out ELSE EndField(s).out

\* PgRange: `quoted', `in_quotes', `in_escape' and the previous character go
\* on from the first bound to the second.
ScanRange(s, ch) == IF Ends(s, ch) THEN EndField(s) ELSE ScanField(s, ch)
DecodeBounds(chars) == EndField(FoldLeft(ScanRange, ScanStart, chars)).out

\* parse_bound.
ParseBound(ch, value) ==
    IF value.null THEN "unbounded" ELSE IF ch \in {"(", ")"} THEN "excluded" ELSE "included"

-----------------------------------------------------------------------------
\* A simple query returns an array, a record or a range.
ReadArray(vs) ==
    /\ text = Unread
    /\ text' = [form |-> "array", shape |-> <<>>, parts |-> vs, read |-> DecodeArray(ArrayOut(vs))]
ReadRecord(vs) ==
    /\ text = Unread /\ vs # <<>>
    /\ text' = [form |-> "record", shape |-> <<>>, parts |-> vs, read |-> DecodeRecord(RecordOut(vs))]
ReadRange(vs, low, high) ==
    /\ text = Unread /\ Len(vs) = 2
    /\ LET read == DecodeBounds(RecordOut(vs))
       IN  text' = [form |-> "range", parts |-> vs, read |-> read,
                    shape |-> IF Len(read) = 2 THEN <<low, high, ParseBound(low, read[1]), ParseBound(high, read[2])>> ELSE <<>>]

Cells == {Nothing} \cup {Just(e) : e \in Elements}
Rows == UNION {[1..n -> Cells] : n \in 0..MaxElements}
TextNext ==
    \E vs \in Rows : \/ ReadArray(vs)
                     \/ ReadRecord(vs)
                     \/ \E low \in {"[", "("}, high \in {"]", ")"} : ReadRange(vs, low, high)
TextSpec == TextInit /\ [][TextNext]_text

-----------------------------------------------------------------------------
\* An array reads back as it was, but for one thing: the scanner has no
\* flag for quotes, so that the string "NULL" reads as NULL.  (array.rs:290-352)
ArrayReadsBack ==
    text.form = "array" =>
        text.read = [i \in DOMAIN text.parts |-> IF text.parts[i] = Just(NullWord) THEN Nothing ELSE text.parts[i]]

\* A record reads back as it was, but for two things: a NULL in its last field is reported by
\* try_decode() as missing, and a character that is not ASCII comes back as one character for
\* each of its bytes.  (record.rs:93-97, 137-200)
RecordReadsBack ==
    text.form = "record" =>
        text.read = [i \in 1..(IF Last(text.parts).null THEN Len(text.parts) - 1 ELSE Len(text.parts)) |->
                        [text.parts[i] EXCEPT !.chars = ByteChars(@)]]

\* What parse_bound() is to find of each end.
BoundsKept ==
    /\ text.read = text.parts
    /\ text.shape[3] = (IF text.parts[1].null THEN "unbounded" ELSE IF text.shape[1] = "(" THEN "excluded" ELSE "included")
    /\ text.shape[4] = (IF text.parts[2].null THEN "unbounded" ELSE IF text.shape[2] = ")" THEN "excluded" ELSE "included")

\* A range whose start the server does not quote reads back with both bounds
\* and their kinds.  (range.rs:398-506)
PlainRangeReadsBack ==
    (text.form = "range" /\ (text.parts[1].null \/ ~Needs(text.parts[1].chars, Special))) => BoundsKept

=============================================================================
