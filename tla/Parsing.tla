------------------------------ MODULE Parsing ------------------------------
(* The parsers of Framing against what the two ends of the wire mean by    *)
(* the same bytes.  A body grows a byte at a time: freely while it is      *)
(* short, then only towards one of the Samples.                            *)
EXTENDS Framing, Functions

CONSTANTS
    MaxBody,    \* bytes of a body that grows freely
    Binds,      \* Bind messages: portal, statement, parameter formats, parameters, formats
    Columns     \* RowDescriptions: sequences of fields

VARIABLE body

-----------------------------------------------------------------------------
(* What a client or a server writes (external).                            *)

Counts(seq) == Digits(Len(seq), Half)
Text(name) == name \o << 0 >>
Value(v) == IF v = Null THEN Digits(-1, Word) ELSE Digits(Len(v), Word) \o v
Each(seq, Written(_)) == FlattenSeq([i \in DOMAIN seq |-> Written(seq[i])])
Format(f) == Digits(f, Half)

BindBody(bind) ==
    Text(bind.portal) \o Text(bind.statement)
        \o Counts(bind.param_formats) \o Each(bind.param_formats, Format)
        \o Counts(bind.params) \o Each(bind.params, Value)
        \o Counts(bind.formats) \o Each(bind.formats, Format)

Column(field) ==
    Text(field.name) \o Digits(field.table_oid, Word) \o Digits(field.column_id, Half)
        \o Digits(field.type_oid, Word) \o Digits(-1, Half)
        \o Digits(field.type_mod, Word) \o Digits(field.format, Half)

DescriptionBody(fields) == Counts(fields) \o Each(fields, Column)

BindBodies == [b \in Binds |-> BindBody(b)]
DescriptionBodies == [c \in Columns |-> DescriptionBody(c)]

Samples == Range(BindBodies) \cup Range(DescriptionBodies)

\* The format PostgreSQL gives output column i under a Bind's codes.
ServerFormat(formats, i) ==
    CASE Len(formats) = 0 -> 0
      [] Len(formats) = 1 -> formats[1]
      [] OTHER -> formats[i]

-----------------------------------------------------------------------------

Empty == body = << >>

Grows ==
    \E b \in Byte :
        /\ body' = Append(body, b)
        /\ Len(body') <= MaxBody \/ \E sample \in Samples : IsPrefix(body', sample)

-----------------------------------------------------------------------------
(* Properties.                                                             *)

\* The incremental reader of the masking loop and the parser that collects a
\* row accept the same bodies and find the same fields in them, for every
\* count and length that can be written down, negative ones included; and what
\* is rebuilt from the fields of a row is that row, as one frame.
RowsSurviveReading ==
    /\ ReadRow(body) = ParseDataRow(body)
    /\ LET values == ParseDataRow(body)
           frame == BuildDataRow(values)
       IN values # Unread =>
            /\ Body(frame) = body
            /\ TryTakeMessage(frame) = [is |-> "frame", frame |-> frame, rest |-> << >>]

\* The proxy masks every column in the format the server will encode it in: it
\* reads the result formats of a Bind past parameters of any length, and gives
\* up on a message that is cut short rather than take part of it for the codes.
FormatsReadAlike ==
    \A bind \in Binds :
        LET whole == BindBodies[bind]
            formats == ParseBindResultFormats(body)
        IN /\ IsStrictPrefix(body, whole) => formats = Unread
           /\ body = whole =>
                /\ formats = bind.formats
                /\ \A i \in 1 .. Len(formats) : FormatFor(formats, i) = ServerFormat(formats, i)

\* A RowDescription gives every column the provenance the server wrote, or
\* nothing at all: neither a cut message nor one with bytes behind it is read.
DescriptionsReadAlike ==
    \A fields \in Columns :
        LET whole == DescriptionBodies[fields] IN
        /\ body = whole => ParseRowDescription(body) = fields
        /\ IsStrictPrefix(body, whole) \/ IsStrictPrefix(whole, body)
            => ParseRowDescription(body) = Unread

\* Whatever a server packs into an error or a notice, in whatever order and
\* however often, no field a client can read from what is relayed carries text
\* that SQL may have chosen.
DiagnosticsSayNothing ==
    \A notice \in BOOLEAN :
        LET before == DiagnosticFields(body)
            after == DiagnosticFields(ScrubDiagnostic(body, notice))
            raised == notice \/ \E i \in DOMAIN before : before[i][1] = ContextTag
        IN \A i \in DOMAIN after :
            /\ after[i][1] \notin LEAKY_FIELDS
            /\ after[i][1] = MessageTag => after[i][2] = Withheld
            /\ raised /\ after[i][1] = CodeTag => after[i][2] = Withheld

\* The proxy and the two ends of the wire mean the same by every body, whole,
\* cut short or with lengths that make no sense: rows, the formats of a Bind,
\* descriptions and diagnostics.
BodiesReadAlike ==
    /\ RowsSurviveReading
    /\ FormatsReadAlike
    /\ DescriptionsReadAlike
    /\ DiagnosticsSayNothing
=============================================================================
