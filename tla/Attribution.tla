----------------------------- MODULE Attribution -----------------------------
(* policy.rs and policy/json_extract.rs: which stored column a summary or  *)
(* an extract is taken over, and so whose mask governs it.                 *)
EXTENDS Safety, Questions, Planning

RelationOf(range) == [schema |-> range.schema, name |-> range.relname]

ColumnsOf(snapshot, range) ==
    IF FoldRelation(RelationOf(range)) \in DOMAIN snapshot.relation_columns
    THEN snapshot.relation_columns[FoldRelation(RelationOf(range))]
    ELSE {}

KnowsRelation(snapshot, range) ==
    FoldRelation(RelationOf(range)) \in DOMAIN snapshot.relation_columns

\* resolve_summary_source: the one relation of FROM that has the column.
ResolveSummarySource(snapshot, relations, argument, roles) ==
    LET owners == {i \in DOMAIN relations : argument[1] \in ColumnsOf(snapshot, relations[i])}
    IN  IF \/ argument = Nothing \/ relations = Nothing
           \/ \E i \in DOMAIN relations : ~ KnowsRelation(snapshot, relations[i])
           \/ Cardinality(owners) # 1
        THEN Opaque
        ELSE SummaryOf(LookupByName(snapshot, RelationOf(relations[CHOOSE i \in owners : TRUE]),
                                    argument[1]), roles)

\* unique_extract_owner: by the column, by alias or name, by schema and name.
ExtractOwners(snapshot, relations, fields) ==
    {i \in DOMAIN relations :
        CASE Len(fields) = 1 -> fields[1] \in ColumnsOf(snapshot, relations[i])
          [] Len(fields) = 2 -> fields[1] \in {relations[i].alias, relations[i].relname}
          [] Len(fields) = 3 -> SubSeq(fields, 1, 2) = << relations[i].schema, relations[i].relname >>}

ResolveJsonExtractSource(snapshot, relations, extract, roles) ==
    LET owners == ExtractOwners(snapshot, relations, extract.column)
    IN  IF Cardinality(owners) # 1
        THEN Opaque
        ELSE ExtractOf(LookupByName(snapshot, RelationOf(relations[CHOOSE i \in owners : TRUE]),
                                    Last(extract.column)),
                       roles, extract.path, extract.text)

\* resolve_expression_policies.  A safety of Summary or JsonExtract is only
\* given to a select whose positions can be trusted.
ExpressionPolicies(snapshot, text, safety, roles) ==
    [i \in DOMAIN safety |->
        LET select == DescribedSelect(text, Len(safety))[1]
            value == select.targets[i].value
        IN  CASE safety[i] = "Summary" ->
                    ResolveSummarySource(snapshot, SummaryRelations(select),
                                         SummaryArgumentName(value), roles)
              [] safety[i] = "JsonExtract" ->
                    ResolveJsonExtractSource(snapshot, CollectQualifiedFrom(select.from),
                                             ParseExtract(value)[1], roles)
              [] OTHER -> NotApplicable]
=============================================================================
