------------------------------ MODULE Framing ------------------------------
(* The wire format, byte by byte: frames, rows, row descriptions, result   *)
(* formats and diagnostics (protocol.rs).                                  *)
(*                                                                         *)
(* A byte is a digit in base Base, a length word is Word of them and a     *)
(* count Half of them, big-endian two's complement; the wire has 256, 4    *)
(* and 2.  A parser takes bytes off the front of a cursor and fails for    *)
(* good at the first thing it cannot read.                                 *)
EXTENDS Integers, Sequences, SequencesExt

CONSTANTS
    Base, Word, Half,
    Unread,         \* what a parser returns when it gives up
    Null,           \* the value of a field of length -1
    DataRowTag,     \* the tag of a DataRow
    LEAKY_FIELDS,   \* tags of diagnostic fields that can echo a value
    MessageTag,     \* the tag of the primary message
    CodeTag,        \* the tag of the SQLSTATE
    ContextTag,     \* the tag of the traceback
    Withheld        \* the bytes written in place of what SQL can choose

Byte == 0 .. Base - 1

ASSUME FramingAssumption ==
    /\ Base \in Nat \ {0, 1} /\ Word \in Nat \ {0} /\ Half \in Nat \ {0}
    /\ {MessageTag, CodeTag, ContextTag, DataRowTag} \subseteq Byte
    /\ LEAKY_FIELDS \subseteq Byte
    /\ ContextTag \in LEAKY_FIELDS /\ {MessageTag, CodeTag} \cap LEAKY_FIELDS = {}
    /\ Withheld \in Seq(Byte \ {0})

\* Base ^ n, which the provers do not know.
Power(n) == LET of[i \in 0 .. n] == IF i = 0 THEN 1 ELSE of[i - 1] * Base IN of[n]

Unsigned(digits) ==
    LET upTo[i \in 0 .. Len(digits)] == IF i = 0 THEN 0 ELSE upTo[i - 1] * Base + digits[i]
    IN upTo[Len(digits)]

\* from_be_bytes, get_i16, get_i32.
Signed(digits) ==
    LET u == Unsigned(digits) IN
    IF 2 * u >= Power(Len(digits)) THEN u - Power(Len(digits)) ELSE u

\* put_i16, put_i32: n as width digits, wrapped.
Digits(n, width) ==
    [i \in 1 .. width |-> ((n % Power(width)) \div Power(width - i)) % Base]

Drop(bytes, n) == SubSeq(bytes, n + 1, Len(bytes))

-----------------------------------------------------------------------------
(* Frames.                                                                 *)

NotYet == [is |-> "not yet", frame |-> << >>, rest |-> << >>]
Malformed == [is |-> "malformed", frame |-> << >>, rest |-> << >>]

\* A header that is not all there is "not yet"; the length counts itself and
\* not the tag.
TryTakeMessage(buf) ==
    LET len == Signed(SubSeq(buf, 2, 1 + Word)) IN
    IF Len(buf) < 1 + Word THEN NotYet
    ELSE IF len < Word THEN Malformed
    ELSE IF Len(buf) < len + 1 THEN NotYet
    ELSE [is |-> "frame", frame |-> SubSeq(buf, 1, len + 1), rest |-> Drop(buf, len + 1)]

\* Message::new.
Encode(tag, body) == << tag >> \o Digits(Len(body) + Word, Word) \o body

Body(frame) == Drop(frame, 1 + Word)

-----------------------------------------------------------------------------
(* Cursors.                                                                *)

Cursor(bytes) == [rest |-> bytes, out |-> << >>, ok |-> TRUE]

Failed(cursor) == [cursor EXCEPT !.ok = FALSE]

Has(cursor, n) == cursor.ok /\ Len(cursor.rest) >= n

Peek(cursor, n) == Signed(SubSeq(cursor.rest, 1, n))

Skip(cursor, n) == IF Has(cursor, n) THEN [cursor EXCEPT !.rest = Drop(@, n)] ELSE Failed(cursor)

Yield(cursor, value) == [cursor EXCEPT !.out = Append(@, value)]

\* read_cstring_bytes: up to the first NUL, which it eats.
ReadCString(cursor) ==
    LET nul == SelectInSeq(cursor.rest, LAMBDA b : b = 0) IN
    IF ~cursor.ok \/ nul = 0 THEN Failed(cursor)
    ELSE Skip(Yield(cursor, SubSeq(cursor.rest, 1, nul - 1)), nul)

\* read_i16 and get_i16 with their length checks.
ReadHalf(cursor) ==
    IF Has(cursor, Half) THEN Skip(Yield(cursor, Peek(cursor, Half)), Half) ELSE Failed(cursor)

\* A loop over a declared count.
Repeat(n, Step(_), cursor) ==
    LET after[i \in 0 .. n] ==
            IF i = 0 THEN cursor
            ELSE LET before == after[i - 1] IN IF before.ok THEN Step(before) ELSE before
    IN after[n]

AtLeastZero(n) == IF n < 0 THEN 0 ELSE n

-----------------------------------------------------------------------------
(* Rows.                                                                   *)

\* Mutant: a length below -1 is taken for NULL.
LaxField(cursor) ==
    IF ~Has(cursor, Word) THEN Failed(cursor)
    ELSE LET len == Peek(cursor, Word)
             after == Skip(cursor, Word)
         IN IF len < 0 THEN Yield(after, Null)
            ELSE IF ~Has(after, len) THEN Failed(cursor)
            ELSE Skip(Yield(after, SubSeq(after.rest, 1, len)), len)

\* The body of parse_data_row's loop.
RowField(cursor) ==
    IF ~Has(cursor, Word) THEN Failed(cursor)
    ELSE LET len == Peek(cursor, Word)
             after == Skip(cursor, Word)
         IN IF len = -1 THEN Yield(after, Null)
            ELSE IF len < -1 \/ ~Has(after, len) THEN Failed(cursor)
            ELSE Skip(Yield(after, SubSeq(after.rest, 1, len)), len)

\* parse_data_row: a count, the fields, nothing behind them.
ParseDataRow(body) ==
    IF Len(body) < Half THEN Unread
    ELSE LET count == Signed(SubSeq(body, 1, Half))
             row == Repeat(AtLeastZero(count), RowField, Skip(Cursor(body), Half))
         IN IF count < 0 \/ ~row.ok \/ row.rest # << >> THEN Unread ELSE row.out

\* DataRowReader::new.
NewReader(body) ==
    IF Len(body) < Half \/ Signed(SubSeq(body, 1, Half)) < 0 THEN Unread
    ELSE [buf |-> Drop(body, Half), remaining_fields |-> Signed(SubSeq(body, 1, Half))]

\* DataRowReader::next_field: a value, the end of the row, or an error.
NextField(reader) ==
    LET left == [reader EXCEPT !.remaining_fields = @ - 1, !.buf = Drop(@, Word)]
        len == Signed(SubSeq(reader.buf, 1, Word))
    IN IF reader.remaining_fields = 0
       THEN [is |-> IF reader.buf = << >> THEN "end" ELSE "error", reader |-> reader]
       ELSE IF Len(reader.buf) < Word THEN [is |-> "error", reader |-> reader]
       ELSE IF len = -1 THEN [is |-> "field", value |-> Null, reader |-> left]
       ELSE IF len < -1 \/ Len(left.buf) < len THEN [is |-> "error", reader |-> left]
       ELSE [is |-> "field", value |-> SubSeq(left.buf, 1, len),
             reader |-> [left EXCEPT !.buf = Drop(@, len)]]

\* The masking loop's reading of a row: next_field until it says stop.
ReadRow(body) ==
    LET start == NewReader(body)
        after[i \in 0 .. Power(Half)] ==
            IF i = 0 THEN [is |-> "field", reader |-> start, out |-> << >>]
            ELSE LET before == after[i - 1]
                     next == NextField(before.reader)
                 IN IF before.is # "field" THEN before
                    ELSE [is |-> next.is, reader |-> next.reader,
                          out |-> IF next.is = "field" THEN Append(before.out, next.value)
                                  ELSE before.out]
        last == after[Power(Half)]
    IN IF start = Unread \/ last.is # "end" THEN Unread ELSE last.out

\* build_data_row: count and lengths are what is written, not what was read.
BuildDataRow(values) ==
    LET field(v) == IF v = Null THEN Digits(-1, Word) ELSE Digits(Len(v), Word) \o v IN
    Encode(DataRowTag,
           Digits(Len(values), Half) \o FlattenSeq([i \in DOMAIN values |-> field(values[i])]))

-----------------------------------------------------------------------------
(* Row descriptions and result formats.                                    *)

\* A field of a RowDescription: name, table, column, type, size, modifier,
\* format.
DescribedField(cursor) ==
    LET name == ReadCString([cursor EXCEPT !.out = << >>])
        at(n) == SubSeq(name.rest, n + 1, Len(name.rest))
        size == 3 * Word + 3 * Half
    IN IF ~name.ok \/ ~Has(name, size) THEN Failed(cursor)
       ELSE [cursor EXCEPT
                !.rest = at(size),
                !.out = Append(@,
                    [name |-> name.out[1],
                     table_oid |-> Unsigned(SubSeq(at(0), 1, Word)),
                     column_id |-> Signed(SubSeq(at(Word), 1, Half)),
                     type_oid |-> Unsigned(SubSeq(at(Word + Half), 1, Word)),
                     type_mod |-> Signed(SubSeq(at(2 * Word + 2 * Half), 1, Word)),
                     format |-> Signed(SubSeq(at(3 * Word + 2 * Half), 1, Half))])]

\* Mutant: bytes behind the last field are ignored.
ParseRowDescriptionLoosely(body) ==
    IF Len(body) < Half THEN Unread
    ELSE LET count == Signed(SubSeq(body, 1, Half))
             fields == Repeat(AtLeastZero(count), DescribedField, Skip(Cursor(body), Half))
         IN IF count < 0 \/ ~fields.ok THEN Unread ELSE fields.out

\* parse_row_description.
ParseRowDescription(body) ==
    IF Len(body) < Half THEN Unread
    ELSE LET count == Signed(SubSeq(body, 1, Half))
             fields == Repeat(AtLeastZero(count), DescribedField, Skip(Cursor(body), Half))
         IN IF count < 0 \/ ~fields.ok \/ fields.rest # << >> THEN Unread ELSE fields.out

\* A parameter of a Bind: a length that is not positive has no bytes.
BoundParameter(cursor) ==
    IF ~Has(cursor, Word) THEN Failed(cursor)
    ELSE Skip(Skip(cursor, Word), AtLeastZero(Peek(cursor, Word)))

\* The count at the cursor and a step for each of them.
Counted(cursor, Step(_)) ==
    IF ~Has(cursor, Half) THEN Failed(cursor)
    ELSE Repeat(AtLeastZero(Peek(cursor, Half)), Step, Skip(cursor, Half))

\* Mutant: the parameter values are not skipped.
BindFormatsPastNames(body) ==
    LET names == ReadCString(ReadCString(Cursor(body)))
        results == Counted(Counted(names, ReadHalf), ReadHalf)
    IN IF results.ok THEN Drop(results.out, 2) ELSE Unread

\* parse_bind_result_formats.
ParseBindResultFormats(body) ==
    LET names == ReadCString(ReadCString(Cursor(body)))
        param_formats == Counted(names, LAMBDA c : Skip(c, Half))
        params == Counted(param_formats, BoundParameter)
        results == Counted(params, ReadHalf)
    IN IF results.ok THEN Drop(results.out, 2) ELSE Unread

\* format_for.
FormatFor(formats, index) ==
    IF formats = << >> THEN 0
    ELSE IF Len(formats) = 1 THEN formats[1]
    ELSE IF index \in DOMAIN formats THEN formats[index] ELSE 0

-----------------------------------------------------------------------------
(* Diagnostics.                                                            *)

\* The complete fields up to the terminator: what a client reads.
DiagnosticFields(body) ==
    LET step(cursor) ==
            IF ~Has(cursor, 1) \/ cursor.rest[1] = 0 THEN Failed(cursor)
            ELSE LET value == ReadCString(Skip([cursor EXCEPT !.out = << >>], 1)) IN
                 IF ~value.ok THEN Failed(cursor)
                 ELSE [value EXCEPT !.out = Append(cursor.out, << cursor.rest[1], value.out[1] >>)]
    IN Repeat(Len(body), step, Cursor(body)).out

\* has_field.
HasField(body, wanted) == \E i \in DOMAIN DiagnosticFields(body) : DiagnosticFields(body)[i][1] = wanted

\* Mutant: the traceback is looked for after it has been dropped.
ScrubWithoutContext(body, notice) ==
    LET rewritten(field) ==
            IF field[1] = MessageTag \/ (notice /\ field[1] = CodeTag)
            THEN << field[1], Withheld >> ELSE field
        kept == SelectSeq(DiagnosticFields(body), LAMBDA f : f[1] \notin LEAKY_FIELDS)
        encode(field) == << field[1] >> \o field[2] \o << 0 >>
    IN FlattenSeq([i \in DOMAIN kept |-> encode(rewritten(kept[i]))]) \o << 0 >>

\* scrub_diagnostic: leaky fields dropped, the message replaced, and the code
\* too when SQL may have chosen it; nothing to change forwards the original.
ScrubDiagnostic(body, notice) ==
    LET fields == DiagnosticFields(body)
        from_user_sql == notice \/ HasField(body, ContextTag)
        replaced(field) == field[1] = MessageTag \/ (from_user_sql /\ field[1] = CodeTag)
        rewritten(field) == IF replaced(field) THEN << field[1], Withheld >> ELSE field
        leaky(field) == field[1] \in LEAKY_FIELDS
        kept == SelectSeq(fields, LAMBDA f : ~leaky(f))
        encode(field) == << field[1] >> \o field[2] \o << 0 >>
    IN IF \A i \in DOMAIN fields : ~leaky(fields[i]) /\ ~replaced(fields[i])
       THEN body
       ELSE FlattenSeq([i \in DOMAIN kept |-> encode(rewritten(kept[i]))]) \o << 0 >>
=============================================================================
