-------------------------------- MODULE Masks --------------------------------
(* mask.rs: what one mask makes of one value.  A value is modelled as it   *)
(* stands on the wire: text as a sequence of characters in both formats, a *)
(* uuid as nibbles with hyphens in text and as bytes in binary, a date as  *)
(* the civil date the server printed in text and as an instant in binary,  *)
(* a number as a count of halves.  A digest is the pair of the key and     *)
(* the bytes absorbed, so two are equal only when nothing tells them apart.*)
EXTENDS Classification, FiniteSetsExt

CONSTANTS
    Null,           \* SQL NULL, the field of length -1
    Infinity,       \* 'infinity' of a date or of a number
    UuidBytes,      \* bytes of a uuid
    HandleWidth,    \* PSEUDONYM_MAX_CHARS
    MaxYear,        \* the last year of jiff's civil dates
    MonthsPerYear,
    HoursPerMonth,  \* the days of a month and their hours, counted together
    Int64Min,       \* i64::MIN
    Int2Min         \* i16::MIN

ASSUME CalendarAssumption ==
    MaxYear \in Nat /\ MonthsPerYear \in Nat \ {0} /\ HoursPerMonth \in Nat \ {0}

ASSUME IntegerAssumption == Int64Min \in Int /\ Int2Min \in Int64Min .. -1

TextFamily == {"text", "varchar", "bpchar"}
DateTypes == {"date", "timestamp", "timestamptz"}
IpTypes == {"inet", "cidr"}

Supports(kind, type, format) ==
    CASE kind \in {"none", "null"} -> TRUE
      [] kind \in {"redact", "partial", "inner", "outer", "range", "hash", "scrub"} ->
            type \in TextFamily
      [] kind = "pseudonym" -> type \in TextFamily \cup {"uuid"}
      [] kind \in {"date_year", "date_month"} -> type \in DateTypes
      [] kind = "numeric_bucket" ->
            type \in {"int2", "int8", "float8"} \/ (type = "numeric" /\ format = "text")
      [] kind = "ip_prefix" -> type \in TextFamily \/ (type \in IpTypes /\ format = "text")
      [] kind = "json" -> type \in {"json", "jsonb"}

-----------------------------------------------------------------------------
(* The fallback for a column that no rule names.  A width of 0 is a column *)
(* without a declared limit; a name is NoDomain when the snapshot has none.*)

PseudonymFitsDeclaredWidth(type, width) ==
    type \in {"varchar", "bpchar"} /\ width # 0 => width >= HandleWidth

ForUnclassified(type, format, width, name) ==
    CASE /\ Supports("pseudonym", type, format)
         /\ name # NoDomain
         /\ PseudonymFitsDeclaredWidth(type, width) ->
            [NewSpec("pseudonym") EXCEPT !.domain = name]
      [] Supports("date_year", type, format) -> NewSpec("date_year")
      [] Supports("ip_prefix", type, format) /\ type \in IpTypes -> NewSpec("ip_prefix")
      [] OTHER -> NewSpec("null")

-----------------------------------------------------------------------------
(* Text masks: the positions each leaves readable.                         *)

Stars == << "*", "*", "*" >>

LastChars(text, keep) == (Len(text) - keep + 1) .. Len(text)

PartialShows(text, keep) == IF Len(text) > keep THEN LastChars(text, keep) ELSE {}

InnerShows(text, keep) ==
    IF Len(text) > 2 * keep THEN 1 .. keep \cup LastChars(text, keep) ELSE {}

OuterShows(text, keep) ==
    IF keep # 0 /\ Len(text) > 2 * keep THEN (keep + 1) .. (Len(text) - keep) ELSE {}

RangeShows(text, start, end) ==
    IF start >= Len(text) THEN {} ELSE {i \in DOMAIN text : i <= start \/ i > end}

Starred(text, shown) == [i \in DOMAIN text |-> IF i \in shown THEN text[i] ELSE "*"]

\* Capital letters stand for identifiers that a pattern recognises and its
\* checksum accepts; a candidate that the checksum rejects is left alone.
ScrubFreeText(text) ==
    [i \in DOMAIN text |-> IF text[i] \in {"E", "C", "P"} THEN "<>" ELSE text[i]]

\* An address is [groups, zone, prefix]; what does not parse has no groups.
IpPrefix(address) ==
    IF address.groups = << >>
    THEN Stars
    ELSE [groups |-> << address.groups[1], 0 >>, prefix |-> address.prefix]

-----------------------------------------------------------------------------
(* Digests and handles.                                                    *)

Separated(domain) == IF domain = NoDomain THEN << >> ELSE << domain, "NUL" >>

\* prime: the state of a plan's digests, with its domain absorbed.
Prime(key, spec) ==
    IF spec.kind \in {"hash", "pseudonym"}
    THEN [key |-> key, absorbed |-> Separated(spec.domain)]
    ELSE Null

\* Mutant: the key of the row in place of the key of the plan.
DigestOfNow(key, spec, primed, input) ==
    [key |-> key, absorbed |-> Separated(spec.domain) \o input]

Digest(key, spec, primed, input) ==
    LET mac == IF primed = Null THEN [key |-> key, absorbed |-> Separated(spec.domain)] ELSE primed
    IN  [mac EXCEPT !.absorbed = @ \o input]

CanonicalUuid(value, format) ==
    IF format = "binary"
    THEN IF Len(value) = UuidBytes
         THEN FoldLeft(LAMBDA digits, byte : digits \o byte, << >>, value)
         ELSE Refused
    ELSE LET nibbles == SelectSeq(value, LAMBDA c : c # "-")
         IN  IF Len(nibbles) = 2 * UuidBytes THEN nibbles ELSE Refused

\* Where the local part of an address ends, 0 for a text that is not one.
AtSign(text) ==
    LET ats == {i \in DOMAIN text : text[i] = "@"}
    IN  IF ats # {} /\ Min(ats) > 1 /\ Min(ats) < Len(text) THEN Min(ats) ELSE 0

\* Mutant: the half of the employer is keyed without the column's domain.
EmployerUnseparated(key, spec, domain) ==
    [key |-> key, absorbed |-> << "domain", "NUL" >> \o domain]

Employer(key, spec, domain) ==
    [key |-> key, absorbed |-> Separated(spec.domain) \o << "domain", "NUL" >> \o domain]

Pseudonym(key, spec, primed, type, format, value) ==
    IF type = "uuid"
    THEN LET canonical == CanonicalUuid(value, format)
         IN  IF canonical = Refused
             THEN Refused
             ELSE [tag |-> "uuid", digest |-> Digest(key, spec, primed, canonical)]
    ELSE LET at == AtSign(value)
             domain == SubSeq(value, at + 1, Len(value))
             digest == Digest(key, spec, primed, value)
         IN  CASE at = 0 -> [tag |-> "handle", digest |-> digest]
               [] at # 0 /\ ~ spec.keep_domain ->
                    [tag |-> "email", digest |-> digest, employer |-> Employer(key, spec, domain)]
               [] at # 0 /\ spec.keep_domain ->
                    [tag |-> "contact", digest |-> digest, domain |-> domain]

-----------------------------------------------------------------------------
(* Dates.  Year 0 is 1 BC; the text gives the year of the era.             *)

HoursPerYear == MonthsPerYear * HoursPerMonth

Civil(instant) ==
    [year |-> instant \div HoursPerYear,
     month |-> (instant % HoursPerYear) \div HoursPerMonth,
     hours |-> instant % HoursPerMonth]

At(year, month) == year * HoursPerYear + month * HoursPerMonth

Coarsened(month, to_month) == IF to_month THEN month ELSE 0

\* Mutant: the era comes off and is not put back.
TruncateDateTextErased(printed, to_month) ==
    IF printed = Infinity \/ printed.year > MaxYear
    THEN Refused
    ELSE [printed EXCEPT !.month = Coarsened(@, to_month), !.hours = 0, !.bc = FALSE]

TruncateDateText(printed, to_month) ==
    IF printed = Infinity \/ printed.year > MaxYear
    THEN Refused
    ELSE [printed EXCEPT !.month = Coarsened(@, to_month), !.hours = 0]

TruncateDateBinary(instant, to_month) ==
    IF instant = Infinity \/ Civil(instant).year \notin - MaxYear .. MaxYear
    THEN Refused
    ELSE At(Civil(instant).year, Coarsened(Civil(instant).month, to_month))

TruncateDate(value, format, kind) ==
    IF format = "text"
    THEN TruncateDateText(value, kind = "date_month")
    ELSE TruncateDateBinary(value, kind = "date_month")

-----------------------------------------------------------------------------
(* Buckets.  Numbers are counted in halves, an integer being even.         *)

\* Mutant: division towards zero.
FloorToZero(v, bucket) == IF v < 0 THEN - ((- v) \div bucket) * bucket ELSE (v \div bucket) * bucket

\* div_euclid and a multiplication that saturates.
FloorTo(v, bucket) == LET floor == (v \div bucket) * bucket
                      IN  IF floor < Int64Min THEN Int64Min ELSE floor

FloorWithin(v, bucket, min) == IF FloorTo(v, bucket) < min THEN Refused ELSE FloorTo(v, bucket)

\* The decimal and the float path: not an integer, or a binary float.
FloorHalves(halves, bucket) == (halves \div (2 * bucket)) * (2 * bucket)

Halves(v) == IF v = Refused THEN Refused ELSE 2 * v

BucketNumber(halves, type, format, size) ==
    LET bucket == IF size < 1 THEN 1 ELSE size
    IN  CASE halves = Infinity -> Infinity
          [] halves # Infinity /\ format = "text" /\ halves % 2 = 0 ->
                Halves(FloorTo(halves \div 2, bucket))
          [] halves # Infinity /\ format = "binary" /\ type = "int2" ->
                Halves(FloorWithin(halves \div 2, bucket, Int2Min))
          [] halves # Infinity /\ format = "binary" /\ type = "int8" ->
                Halves(FloorTo(halves \div 2, bucket))
          [] OTHER -> FloorHalves(halves, bucket)

-----------------------------------------------------------------------------

\* apply_planned of every mask but json: Null, Refused, or the new value.
ApplyScalar(key, spec, primed, type, format, value) ==
    CASE spec.kind = "none" -> value
      [] spec.kind = "null" -> Null
      [] spec.kind \notin {"none", "null"} /\ ~ Supports(spec.kind, type, format) -> Refused
      [] spec.kind \notin {"none", "null"} /\ Supports(spec.kind, type, format) ->
            IF value = Null THEN Null
            ELSE CASE spec.kind = "redact" -> Stars
                   [] spec.kind = "partial" -> Starred(value, PartialShows(value, spec.keep))
                   [] spec.kind = "inner" -> Starred(value, InnerShows(value, spec.keep))
                   [] spec.kind = "outer" -> Starred(value, OuterShows(value, spec.keep))
                   [] spec.kind = "range" ->
                        Starred(value, RangeShows(value, spec.start, spec.end))
                   [] spec.kind = "scrub" -> ScrubFreeText(value)
                   [] spec.kind = "hash" ->
                        [tag |-> "hash", digest |-> Digest(key, spec, primed, value)]
                   [] spec.kind = "pseudonym" ->
                        Pseudonym(key, spec, primed, type, format, value)
                   [] spec.kind \in {"date_year", "date_month"} ->
                        TruncateDate(value, format, spec.kind)
                   [] spec.kind = "numeric_bucket" ->
                        BucketNumber(value, type, format, spec.bucket)
                   [] spec.kind = "ip_prefix" -> IpPrefix(value)
=============================================================================
