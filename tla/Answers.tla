------------------------------- MODULE Answers -------------------------------
(* One statement from the client's text to the rows it gets: the gates of  *)
(* refuse_frontend_sql, the decisions of handle_row_description, and       *)
(* handle_data_row under the plan they make, while a reload may rotate the *)
(* pseudonym key.  The protocol around it is module Session's; the catalog *)
(* snapshot is module Catalog's to keep current, and here every refresh    *)
(* finds the same.  `seen` is what clients received, so that two answers   *)
(* can be compared.                                                        *)
EXTENDS Surface, Hostile, Lineage, Attribution

CONSTANTS
    Texts,          \* the statements, by name
    Deployments,    \* [live, snapshot, loads, db, texts, people, formats, values, compared],
                    \* by name; `compared` bounds the answers that are compared
    MaxRotations    \* bound on the reloads that change the key

VARIABLES
    deployment,     \* the name of the deployment
    key,            \* Policy::masker
    phase,          \* idle, sent, described or refused
    result,         \* the statement and what was decided of it
    seen

vars == << deployment, key, phase, result, seen >>

NoResult == << >>

here == Deployments[deployment]
asked == Texts[result.text]

\* A configuration whose rules do not classify is refused at startup.
Init ==
    /\ deployment \in {d \in DOMAIN Deployments : Deployments[d].loads}
    /\ key = 0 /\ phase = "idle" /\ result = NoResult /\ seen = << >>

-----------------------------------------------------------------------------
(* The gates.                                                              *)

HostileRefuses(snapshot, relations, text, roles) ==
    LET masked == MaskedBareNames(snapshot, roles)
    IN  \/ MaskedExceedsOuterProjection(text, masked)
        \/ UsesWholeRow(text, relations)
        \/ JoinOrRenameMasked(text, relations, masked)

RefuseFrontendSql(live, snapshot, relations, text, roles) ==
    \/ IsWriteStatement(text)
    \/ IsSqlPrepareOrCursor(text)
    \/ CallsUntrustedFunction(text)
    \/ TouchesLeakySystemCatalog(text)
    \/ live.posture = "hostile" /\ HostileRefuses(snapshot, relations, text, roles)

Submit(text, person) ==
    /\ phase \in {"idle", "refused", "described"}
    /\ \E relations \in Walks(here.snapshot.relation_columns) :
           phase' = IF RefuseFrontendSql(here.live, here.snapshot, relations, Texts[text],
                                         person.roles)
                    THEN "refused" ELSE "sent"
    /\ result' = [text |-> text, person |-> person]
    /\ UNCHANGED << deployment, key, seen >>

-----------------------------------------------------------------------------
(* The description the backend answers with (external).                    *)

ResultType(e) ==
    CASE e.node = "FuncCall" /\ Last(e.path) \in ReducingAggregates -> "numeric"
      [] ParseExtract(e) # Nothing -> IF ParseExtract(e)[1].text THEN "text" ELSE "jsonb"
      [] OTHER -> "text"

\* The type and the declared width of an output column.
TypeOf(db, output, expressions, i) ==
    IF output.origin # NoOrigin THEN db.types[output.origin[1]]
    ELSE [type |-> IF i \in DOMAIN expressions THEN ResultType(expressions[i]) ELSE "text",
          width |-> 0]

ServerOutputs(db, text) == Outputs(db, text.server, << >>, Nothing)

\* The expressions of a select without stars, which are its output columns.
Expressions(stmt) ==
    IF stmt.node # "SelectStmt" \/ \E i \in DOMAIN stmt.targets : IsStar(stmt.targets[i])
    THEN Nothing
    ELSE [i \in DOMAIN stmt.targets |-> stmt.targets[i].value]

FieldsOf(db, text, outputs, format) ==
    [i \in DOMAIN outputs |->
        LET of == TypeOf(db, outputs[i], Expressions(text.server), i)
        IN  [column |-> IF outputs[i].origin = NoOrigin THEN Null ELSE outputs[i].origin[1],
             type |-> of.type, width |-> of.width, format |-> format]]

-----------------------------------------------------------------------------
(* handle_row_description.                                                 *)

IsSystemRelation(snapshot, column) == column[1] \in snapshot.system

SystemCatalog(live, snapshot, text, fields) ==
    LET provenanced == {i \in DOMAIN fields : HasProvenance(fields[i])}
    IN  /\ live.system_catalogs = "allow"
        /\ ReadsOnlyServerMetadata(text)
        /\ ~ MentionsUserRelation(snapshot, text)
        /\ \A i \in provenanced : IsSystemRelation(snapshot, fields[i].column)
        /\ provenanced # {} \/ EveryRelationIsUnambiguous(text)

\* A grouping that cannot be read covers every key the statement names.
SingletonGroups(snapshot, text) ==
    LET group == GroupByColumns(text)
    IN  IF group.readable
        THEN group.names # {} /\ GroupingCoversAUniqueKey(snapshot, group.names)
        ELSE ~ text.scans \/ GroupingCoversAUniqueKey(snapshot, Range(text.identifiers))

Relaxations(live, snapshot, text, roles) ==
    [summaries |-> live.summaries = "allow" /\ ~ SingletonGroups(snapshot, text),
     fine_date_trunc |-> ~ ReferencesMaskedColumn(snapshot, text, roles)]

TrustProvenance(snapshot, text) ==
    StatementProvenanceIsTrustworthy(text) /\ ~ TouchesOpaqueView(snapshot, text)

NeedsLineage(live, fields, safety, trusted) ==
    /\ live.lineage = "allow"
    /\ \E i \in DOMAIN fields : (~ HasProvenance(fields[i]) \/ ~ trusted) /\ safety[i] # "Releasable"

\* What the analysis of the statement says of every field.
FieldAnalysis(live, snapshot, text, fields, roles, trusted) ==
    LET count == Len(fields)
        safety == OutputSafety(text, count, Relaxations(live, snapshot, text, roles))
        lineage == IF NeedsLineage(live, fields, safety, trusted)
                   THEN ResolveInspected(snapshot, text, count, roles)
                   ELSE [i \in 1 .. count |-> "Unresolved"]
        policies == ExpressionPolicies(snapshot, text, safety, roles)
    IN  [i \in 1 .. count |-> [safe |-> safety[i] = "Releasable", lineage |-> lineage[i],
                               expression |-> policies[i]]]

Passthrough(field) == FieldPlan(NewSpec("none"), << >>, field, FALSE, Null)

\* Refused, or the plan of the result set.
Planned(live, snapshot, relations, text, fields, roles, system) ==
    LET trusted == TrustProvenance(snapshot, text)
    IN  CASE live.posture = "hostile" /\ HostileRefuses(snapshot, relations, text, roles) -> Refused
          [] OTHER ->
                IF system THEN [i \in DOMAIN fields |-> Passthrough(fields[i])]
                ELSE PlanForWith(live, snapshot, roles, key, fields,
                                 FieldAnalysis(live, snapshot, text, fields, roles, trusted), trusted)

\* A result is told from another by how many answers came before it.
Describe(format) ==
    /\ phase = "sent"
    /\ \E outputs \in {ServerOutputs(here.db, asked)} :
       \E fields \in {FieldsOf(here.db, asked, outputs, format)} :
       \E system \in {SystemCatalog(here.live, here.snapshot, asked, fields)} :
       \E relations \in Walks(here.snapshot.relation_columns) :
       \E plan \in {Planned(here.live, here.snapshot, relations, asked, fields,
                            result.person.roles, system)} :
            /\ phase' = IF plan = Refused THEN "refused" ELSE "described"
            /\ result' = [text |-> result.text, person |-> result.person, outputs |-> outputs,
                          fields |-> fields, system |-> system, plan |-> plan, after |-> Len(seen)]
    /\ UNCHANGED << deployment, key, seen >>

-----------------------------------------------------------------------------
(* How the backend writes a stored value in the format asked for           *)
(* (external).                                                             *)

Hyphenated(nibbles) ==
    SubSeq(nibbles, 1, UuidBytes) \o << "-" >> \o SubSeq(nibbles, UuidBytes + 1, 2 * UuidBytes)

Printed(instant, zone) ==
    LET civil == Civil(instant + zone)
    IN  [year |-> IF civil.year > 0 THEN civil.year ELSE 1 - civil.year,
         month |-> civil.month, hours |-> civil.hours, bc |-> civil.year <= 0, tz |-> zone]

Wire(type, stored, format, zone) ==
    CASE stored = Null \/ stored = Infinity -> stored
      [] stored # Null /\ stored # Infinity /\ type = "uuid" ->
            IF format = "text" THEN Hyphenated(stored)
            ELSE [i \in 1 .. UuidBytes |-> SubSeq(stored, 2 * i - 1, 2 * i)]
      [] stored # Null /\ stored # Infinity /\ type \in DateTypes /\ format = "text" ->
            Printed(stored, IF type = "timestamptz" THEN zone ELSE 0)
      [] OTHER -> stored

\* The paths of a document below the node that an extract names.
Reaches(path, at) ==
    /\ Len(at) >= Len(path)
    /\ \A i \in DOMAIN path : path[i].value = at[i].value /\ path[i].by \in {at[i].by, "either"}

PathsBelow(document, path) == {at \in DOMAIN document : Reaches(path, at)}

Below(document, path) ==
    LET Rest(at) == SubSeq(at, Len(path) + 1, Len(at))
    IN  [rest \in {Rest(at) : at \in PathsBelow(document, path)} |->
            document[CHOOSE at \in PathsBelow(document, path) : Rest(at) = rest]]

\* ->> of a string is the string, of a number its digits, of an object or
\* an array its text.
Serialized == << "{", "}" >>

AsTextOf(node) ==
    CASE DOMAIN node = {} -> Null
      [] DOMAIN node = {<< >>} ->
            LET scalar == node[<< >>]
            IN  IF scalar.t \in {"string", "null"} THEN scalar.v ELSE << ToString(scalar.v) >>
      [] OTHER -> Serialized

Extracted(extract, document) ==
    LET node == Below(document, extract.path)
    IN  IF extract.text THEN AsTextOf(node)
        ELSE IF DOMAIN node = {} THEN Null ELSE node

\* The stored column, and the extract, that the only field of a result is.
ExtractOfField == LET e == Expressions(asked.server)
                  IN  IF e = Nothing THEN Nothing ELSE ParseExtract(e[1])

StoredColumn == IF Len(result.outputs) = 1 THEN result.outputs[1].flow ELSE {}

\* handle_data_row on a row with this stored value; `of` is the column.
Row(of, stored) ==
    /\ phase = "described" /\ Len(seen) < here.compared
    /\ \E extract \in {ExtractOfField}, field \in {result.fields[1]} :
       \E wire \in {IF extract # Nothing /\ stored # Null THEN Extracted(extract[1], stored)
                    ELSE Wire(field.type, stored, field.format, result.person.zone)} :
       \E masked \in {MaskRow(result.plan, key, << wire >>)} :
            /\ phase' = IF masked = Refused THEN "refused" ELSE phase
            /\ seen' = IF masked = Refused THEN seen
                       ELSE Append(seen, [column |-> of, stored |-> stored, wire |-> wire,
                                          out |-> masked[1], plan |-> result.plan[1],
                                          person |-> result.person, result |-> result.after,
                                          extract |-> extract])
    /\ UNCHANGED << deployment, key, result >>

\* A reload that changes the pseudonym key stores a new masker.
Rotate ==
    /\ key < MaxRotations /\ here.values # << >>
    /\ key' = key + 1
    /\ UNCHANGED << deployment, phase, result, seen >>

Next ==
    \/ \E text \in here.texts, person \in here.people : Submit(text, person)
    \/ \E format \in here.formats : Describe(format)
    \/ /\ phase = "described"
       /\ \E of \in StoredColumn \cap DOMAIN here.values :
            \E stored \in here.values[of] : Row(of, stored)
    \/ Rotate

Spec == Init /\ [][Next]_vars

-----------------------------------------------------------------------------
(* Properties of the statement that was sent, and of the plan of its       *)
(* result: what the gates and the shapes let through, against what the     *)
(* server really reads.                                                    *)

\* The type invariant of the results: every row the client got has a value for
\* each field of its plan.
TypeOK ==
    /\ phase \in {"idle", "sent", "described", "refused"}
    /\ key \in 0 .. MaxRotations /\ Len(seen) <= here.compared
    /\ phase = "described" => /\ Len(result.plan) = Len(result.fields)
                              /\ \A i \in DOMAIN result.plan : result.plan[i] # Refused
    /\ \A i \in DOMAIN seen : seen[i].out # Refused

MayBeShown(column, roles) ==
    \/ column[1] \in here.snapshot.system
    \/ IF column \in DOMAIN here.snapshot.by_column
       THEN PassesFor(here.snapshot.by_column[column], roles)
       ELSE here.live.unclassified = "allow"

InTheClear(i) == IsPassthrough(result.plan[i].spec)

\* Whether an alias in FROM, or a CTE, has a column list: the shapes that
\* are judged by name do not look for one.
RenamesColumns(text) ==
    TreeAny(text, LAMBDA n : n.node \in {"RangeVar", "RangeSubselect", "RangeFunction", "JoinExpr",
                                         "CommonTableExpr"} /\ n.colnames # Nothing)

JudgedByName(i) ==
    LET said == OutputSafety(asked, Len(result.fields), [summaries |-> TRUE, fine_date_trunc |-> TRUE])[i]
    IN  said = "JsonExtract" \/ (said \in {"Summary", "Releasable"} /\ RenamesColumns(asked))

\* A field goes out unmasked only when every stored column whose value it
\* carries, by the server's own resolution of the statement, is released to
\* the session: however CTEs, subqueries, aliases, views and search_path
\* hide it from the analysis, the lineage and the reported provenance.
\* Extracts have a property of their own; a summary under a column list is
\* attributed by name alone, as the README says.
NothingMaskedInTheClear ==
    /\ TypeOK
    /\ phase = "described" =>
        \A i \in DOMAIN result.plan : InTheClear(i) /\ ~ JudgedByName(i) =>
            \A column \in result.outputs[i].flow : MayBeShown(column, result.person.roles)

RangesOf(text) ==
    LET walk == Walk(text.server)
    IN  {walk[i] : i \in {j \in DOMAIN walk : /\ walk[j].node = "RangeVar"
                                              /\ walk[j].schema # "" \/ walk[j].relname \notin CteNames(text)}}

\* A result released whole as the server's own metadata reads no relation of
\* the users, wherever search_path sends its unqualified names: the four
\* conditions of system_catalog together, on statements whose fields carry
\* no provenance that could tell.
SystemPathReadsNoUserTable ==
    phase = "described" /\ result.system =>
        \A range \in RangesOf(asked) :
            ResolveRelation(here.db, range) \subseteq here.snapshot.system

\* A column masked for these roles; a column that no rule names is not, when
\* its name is released somewhere (masked_bare_names_for_roles).
MaskedColumns(roles) ==
    LET snapshot == here.snapshot
        passing == {n \in DOMAIN snapshot.by_name : PassesFor(snapshot.by_name[n], roles)}
    IN  {c \in DOMAIN snapshot.all_columns :
            IF c \in DOMAIN snapshot.by_column
            THEN ~ PassesFor(snapshot.by_column[c], roles)
            ELSE \A n \in passing : n[2] # c[2]}

\* Whether a statement is refused hangs on the order of a hash map: it leaves
\* out the schema of a name that several relations have, and the one met
\* first may have no masked column (columns_for_relation).
OrderDecides ==
    {HostileRefuses(here.snapshot, relations, asked, result.person.roles) :
        relations \in Walks(here.snapshot.relation_columns)} = BOOLEAN

\* Under posture = "hostile" a statement that reaches the server uses no
\* masked column beyond putting it out or sorting by it: no predicate,
\* grouping, expression, join or subquery at any depth reads one, under
\* whatever name the statement gives it.  A statement that the code refuses
\* with one order of its map and sends with another is left out: it is sent
\* although it does.
HostileUsesOnlyProjections ==
    phase \in {"sent", "described"} /\ here.live.posture = "hostile" =>
        \/ OrderDecides
        \/ Uses(here.db, asked.server, << >>, Nothing) \cap MaskedColumns(result.person.roles) = {}

\* The stored columns that a grouping item reads: an input column comes
\* before an output alias, a number is a position.
Grouped(db, select, item) ==
    LET scopes == FromScopes(db, select, << >>, Nothing)
        aliased == {i \in DOMAIN select.targets : item.node = "ColumnRef"
                                                  /\ item.fields = << select.targets[i].name >>}
        by == CASE item.node = "AConst" -> {item.value}
                [] item.node = "ColumnRef" /\ Candidates(scopes, item.fields) = {} -> aliased
                [] OTHER -> {}
    IN  IF by # {} THEN Flow(db, select.targets[CHOOSE i \in by : TRUE].value, scopes, << >>)
        ELSE Flow(db, item, scopes, << >>)

GroupsAreSingletons(db, select) ==
    LET grouped == UNION {Grouped(db, select, select.group[i]) : i \in DOMAIN select.group}
    IN  \E unique \in db.keys : unique \subseteq grouped

\* When the groups of a statement are single rows, whatever the grouping is
\* spelled with, no summary over a masked column goes out unmasked: a
\* summary of one row is the row.
SingletonGroupsAreWithheld ==
    phase = "described" /\ asked.server.node = "SelectStmt" =>
        LET select == UnwrapStarOverSubquery(asked.server)
            world == [here.db EXCEPT !.reader = "predicate"]
        IN  GroupsAreSingletons(here.db, select) =>
                \A i \in DOMAIN result.plan :
                    /\ i \in DOMAIN select.targets
                    /\ InTheClear(i) /\ Peel(select.targets[i].value).node = "FuncCall" =>
                        \A column \in Flow(world, Peel(select.targets[i].value),
                                           FromScopes(world, select, << >>, Nothing), << >>) :
                            MayBeShown(column, result.person.roles)

BuiltinPath(path) == Len(path) = 1 \/ path[1] \in {"pg_catalog", "information_schema"}

\* What reaches the server of a text that parses only reads: no write is
\* nested in a CTE or below EXPLAIN, no function is one a user may have
\* defined or one that takes a query as its argument, and no relation is a
\* catalog that holds rows of user tables, under any spelling.
OnlyReadsReachTheServer ==
    phase \in {"sent", "described"} /\ asked.parses =>
        LET walk == Walk(asked.server)
        IN  /\ \A i \in DOMAIN walk :
                /\ ~ NodeIsWrite(walk[i])
                /\ walk[i].node = "FuncCall" =>
                        /\ BuiltinPath(walk[i].path)
                        /\ Last(walk[i].path) \notin CatalogEscapeFunctions
            /\ \A range \in RangesOf(asked) :
                    ResolveRelation(here.db, range) \cap here.db.leaky = {}

-----------------------------------------------------------------------------
(* Properties of the values that clients received.                         *)

OfKind(i, kinds) == seen[i].plan.spec.kind \in kinds /\ seen[i].wire # Null /\ seen[i].out # Null

\* A mask that the catalog accepted hides something of every text that is
\* not empty, however short the text and whatever its parameters; a scrubbed
\* text keeps no identifier, and an address keeps no host.
EveryAcceptedMaskHides ==
    \A i \in DOMAIN seen :
        /\ OfKind(i, {"partial", "inner", "outer", "range"}) /\ seen[i].wire # << >> =>
                "*" \in Range(seen[i].out)
        /\ OfKind(i, {"scrub"}) => Range(seen[i].out) \cap {"E", "C", "P"} = {}
        /\ OfKind(i, {"ip_prefix"}) /\ seen[i].wire.groups # << >> => seen[i].out.groups[2] = 0

\* A bucketed number is the bottom of the bucket it falls in, on both sides
\* of zero, for every numeric type and in both formats; only i64::MIN may
\* stand for a bottom below it.
BucketsAreSound ==
    \A i \in DOMAIN seen : OfKind(i, {"numeric_bucket"}) /\ seen[i].wire # Infinity =>
        LET size == 2 * seen[i].plan.spec.bucket
        IN  /\ seen[i].out <= seen[i].wire /\ seen[i].wire < seen[i].out + size
            /\ seen[i].out % size = 0 \/ seen[i].out = 2 * Int64Min

\* The value that an answer in text or in binary denotes.
Instant(printed) ==
    At(IF printed.bc THEN 1 - printed.year ELSE printed.year, printed.month) + printed.hours

Meaning(answer) ==
    IF answer.plan.type \in DateTypes /\ answer.plan.format = "text" /\ answer.out \notin {Null, Infinity}
    THEN Instant(answer.out)
    ELSE answer.out

SamePlan(s, t) == s.plan.spec = t.plan.spec /\ s.column = t.column /\ s.person = t.person

\* The protocol format does not show in what is masked: one stored value,
\* served in text and in binary under one mask, has one meaning.  A
\* timestamptz is printed in the session's zone, so only zone 0 compares.
FormatsAgree ==
    \A i, j \in DOMAIN seen :
        LET s == seen[i]
            t == seen[j]
        IN  /\ SamePlan(s, t) /\ s.stored = t.stored /\ s.plan.format # t.plan.format
            /\ s.plan.spec.kind \in {"date_year", "date_month", "numeric_bucket", "none"}
            /\ s.plan.type # "timestamptz" \/ s.person.zone = 0
            => Meaning(s) = Meaning(t)

\* The digests of an answer, each with what it stands for.
Handle(half, domain, value, digest) ==
    [half |-> half, domain |-> domain, value |-> value, digest |-> digest]

HandlesOf(answer) ==
    LET domain == answer.plan.spec.domain
        whole == Handle("whole", domain, answer.stored, answer.out.digest)
    IN  IF answer.out = Null \/ answer.plan.spec.kind \notin {"hash", "pseudonym"} THEN {}
        ELSE {whole} \cup
                IF answer.out.tag # "email" THEN {}
                ELSE {Handle("employer", domain,
                             SubSeq(answer.stored, AtSign(answer.stored) + 1, Len(answer.stored)),
                             answer.out.employer)}

\* Two handles are derived from the same bytes exactly when they stand for
\* the same value of one domain: rows join across tables and formats inside
\* a domain, and neither a value nor an employer links two domains.
LinksStayInTheirDomain ==
    \A i, j \in DOMAIN seen : \A h \in HandlesOf(seen[i]), k \in HandlesOf(seen[j]) :
        h.digest.absorbed = k.digest.absorbed
            <=> << h.half, h.domain, h.value >> = << k.half, k.domain, k.value >>

\* One result set links equal values to one handle even when a reload
\* changes the key between two of its rows.
ResultsKeepTheirHandles ==
    \A i, j \in DOMAIN seen :
        /\ seen[i].result = seen[j].result /\ seen[i].stored = seen[j].stored
        /\ OfKind(i, {"hash", "pseudonym"})
        => seen[i].out.digest = seen[j].out.digest

\* A column that is NOT NULL and that no rule names is never answered with
\* NULL: its clients cannot decode one.
NoNullForNotNull ==
    \A i \in DOMAIN seen :
        /\ seen[i].column \in here.snapshot.not_null \ DOMAIN here.snapshot.by_column
        /\ here.live.unclassified_mask = "type_aware" /\ seen[i].extract = Nothing
        => seen[i].out # Null

\* More roles never show more: what is clear for all roles of a principal is
\* clear for each group of them that a rule names, and what a group of them
\* is refused stays refused.
RolesNeverAddUp ==
    \A i, j \in DOMAIN seen :
        LET few == seen[i]
            many == seen[j]
            named == DOMAIN here.snapshot.by_column[few.column].by_role
        IN  /\ few.column = many.column /\ few.stored = many.stored
            /\ few.column \in DOMAIN here.snapshot.by_column
            /\ few.person.roles \subseteq many.person.roles /\ few.person.roles \cap named # {}
            => /\ IsPassthrough(many.plan.spec) => IsPassthrough(few.plan.spec)
               /\ few.out = Null => many.out = Null

\* The mask of the stored column that an answer comes from.
ColumnSpec(answer) == ForRoles(here.snapshot.by_column[answer.column], answer.person.roles)

Leaf(answer, at) == MaskJsonLeaf(0, ColumnSpec(answer), at, answer.stored[at])

\* An extract shows no more of a document than the document does: -> of a
\* path gives every scalar what masking the whole gives it, ->> of a scalar
\* gives that or NULL, and the text of an object is clear only when all of
\* it is.
ExtractsRevealNoMore ==
    \A i \in DOMAIN seen :
        LET answer == seen[i]
            extract == answer.extract[1]
            reached == PathsBelow(answer.stored, extract.path)
            Rest(at) == SubSeq(at, Len(extract.path) + 1, Len(at))
        IN  answer.extract # Nothing /\ answer.wire # Null /\ answer.out # Null =>
                CASE ~ extract.text -> \A at \in reached : answer.out[Rest(at)] = Leaf(answer, at)
                  [] extract.text /\ answer.wire = Serialized ->
                        IsPassthrough(answer.plan.spec) =>
                            \A at \in reached : Leaf(answer, at) = answer.stored[at]
                  [] extract.text /\ answer.wire # Serialized ->
                        \A at \in reached : answer.stored[at].t = "string" => answer.out = Leaf(answer, at).v

\* The order of the pointers in the configuration decides nothing: of the
\* ones that reach a scalar the most specific does, and a table where two
\* tie is not accepted.
MostSpecificRuleDecides ==
    \A i \in DOMAIN seen : OfKind(i, {"json"}) =>
        LET plan == seen[i].plan
            reversed == [plan.spec EXCEPT !.json = Reverse(@), !.json_keys = Reverse(@)]
        IN  MaskJson(0, reversed, plan.projection, seen[i].wire) = seen[i].out

\* Every value a client was sent is what its mask promises when the catalog
\* accepts it: something is hidden, a bucket's bottom is below its members,
\* text and binary mean the same, and NULL stands only where it may.
MasksDoAsAccepted ==
    /\ EveryAcceptedMaskHides
    /\ BucketsAreSound
    /\ FormatsAgree
    /\ NoNullForNotNull

\* A handle stands for one value of one domain for as long as a client can
\* compare it: across columns and formats, and across the rows of a result
\* whose key a reload replaces.
HandlesLinkAsPromised == LinksStayInTheirDomain /\ ResultsKeepTheirHandles

\* Where several rules bear on one value the strict one decides: several roles
\* of a principal, the path of an extract and the document around it, several
\* pointers into one document.
RulesComposeStrictly ==
    /\ RolesNeverAddUp
    /\ ExtractsRevealNoMore
    /\ MostSpecificRuleDecides
=============================================================================
