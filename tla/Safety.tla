------------------------------- MODULE Safety -------------------------------
(* analysis/safety.rs, names.rs and json_extract: which output expressions *)
(* carry no column's value, which are summaries or JSON extracts, and what *)
(* a statement groups by.  An optional result is a sequence of at most one *)
(* element.  Each list of function names is represented by a few of its    *)
(* members, and a name in none of them by itself.                          *)
EXTENDS Sql

SizeFunctions == {"pg_table_size"}
ContextFunctions == {"now", "version"}
ReducingAggregates == {"count", "sum", "avg"}
NonValueReducingAggregates == {"count"}
RankingWindows == {"rank", "row_number"}
GeneratorsInFrom == {"generate_series", "aclexplode"}
PureScalars == {"round", "to_char"}
TextFunctions == {"upper", "lower"}
JsonExtractFunctions == {"jsonb_extract_path", "jsonb_extract_path_text"}
CatalogHelperFunctions == {"format_type", "pg_get_viewdef", "obj_description", "aclexplode"}
CatalogEscapeFunctions == {"query_to_xml", "pg_read_file"}

YearOrCoarser == {"year", "century"}
CoarseDateUnits == {"day", "month"} \cup YearOrCoarser

IsTrustedFunctionName(name) ==
    name \in UNION {ContextFunctions, SizeFunctions, ReducingAggregates, RankingWindows,
                    PureScalars, TextFunctions, {"date_trunc"}, JsonExtractFunctions}

\* function_name: unqualified, or of pg_catalog; Nothing for any other.
FunctionName(path) ==
    IF Len(path) = 1 \/ (Len(path) = 2 /\ path[1] = "pg_catalog")
    THEN << path[Len(path)] >>
    ELSE Nothing

\* Casts and collations peeled off an expression.
RECURSIVE Peel(_)
Peel(e) == IF e.node = "TypeCast" THEN Peel(e.args[1]) ELSE e

-----------------------------------------------------------------------------
(* JSON extracts: [column, path, text] with the names of the column.  A    *)
(* subscript is #> of its keys: both leave the parent's kind open.         *)

Key(literal, by) ==
    LET value == IF literal.type = "int" THEN ToString(literal.value) ELSE literal.value
        own == IF literal.type = "int" THEN "index" ELSE "key"
    IN  [value |-> value, by |-> IF by = "syntax" THEN own ELSE by]

IsKey(e) == e.node = "AConst" /\ (e.type = "int" => e.value >= 0)

\* The path segments an operator or a function applies, Nothing if some is
\* not a literal.
KeySegments(e) ==
    LET each == CASE e.node = "FuncCall" -> [i \in DOMAIN Tail(e.args) |-> Peel(Tail(e.args)[i])]
                  [] e.node = "AExpr" /\ e.op \in {"->", "->>"} -> << e.args[2] >>
                  [] e.node = "AExpr" /\ e.op \in {"#>", "#>>"} ->
                        IF Peel(e.args[2]).node = "AArrayExpr"
                        THEN [i \in DOMAIN Peel(e.args[2]).args |-> Peel(Peel(e.args[2]).args[i])]
                        ELSE Nothing
        literal == e.node = "FuncCall" => \A i \in DOMAIN each : each[i].node = "AConst"
                                                                 /\ each[i].type = "string"
        by == IF e.node = "AExpr" /\ e.op \in {"->", "->>"} THEN "syntax" ELSE "either"
    IN  IF literal /\ \A i \in DOMAIN each : IsKey(each[i])
        THEN [i \in DOMAIN each |-> Key(each[i], by)]
        ELSE Nothing

MayExtract(e) ==
    \/ e.node = "AExpr" /\ e.op \in {"->", "->>", "#>", "#>>"}
    \/ /\ e.node = "FuncCall" /\ e.over = Nothing /\ ~ e.star /\ e.args # Nothing
       /\ FunctionName(e.path) # Nothing /\ FunctionName(e.path)[1] \in JsonExtractFunctions

AsText(e) ==
    IF e.node = "AExpr" THEN e.op \in {"->>", "#>>"}
    ELSE FunctionName(e.path)[1] = "jsonb_extract_path_text"

\* finish: the segments of one step after those of the extract below it.
FinishExtract(e, keys, inner) ==
    LET column == Peel(e.args[1])
    IN  CASE inner # Nothing ->
                IF inner[1].text THEN Nothing
                ELSE << [inner[1] EXCEPT !.path = @ \o keys, !.text = AsText(e)] >>
          [] inner = Nothing ->
                IF column.node = "ColumnRef" /\ Last(column.fields) # "*"
                THEN << [column |-> column.fields, path |-> keys, text |-> AsText(e)] >>
                ELSE Nothing

RECURSIVE ParseExtract(_)
ParseExtract(e) ==
    CASE e.node = "TypeCast" -> ParseExtract(e.args[1])
      [] e.node # "TypeCast" /\ MayExtract(e) ->
            IF KeySegments(e) = Nothing THEN Nothing
            ELSE FinishExtract(e, KeySegments(e), ParseExtract(e.args[1]))
      [] OTHER -> Nothing

-----------------------------------------------------------------------------
(* classify.                                                               *)

LiteralIn(e, units) == e.node = "AConst" /\ e.type = "string" /\ e.value \in units

RECURSIVE ClassifyExpr(_, _)

AllReleasable(exprs, allow) ==
    \A i \in DOMAIN exprs : ClassifyExpr(exprs[i], allow) = "Releasable"

\* A call that is not an extract and whose name is a builtin's.
ClassifyCall(call, name, allow) ==
    LET windowed == call.over # Nothing
        trunc == name = "date_trunc" /\ ~ windowed /\ Len(call.args) >= 2
    IN  CASE \/ name \in ContextFunctions /\ call.args = Nothing /\ ~ windowed /\ ~ call.star
             \/ name \in SizeFunctions /\ ~ windowed
             \/ name = "count" /\ call.star -> "Releasable"
          [] OTHER ->
             CASE ~ allow.summaries -> "Unknown"
               [] allow.summaries /\ ~ windowed /\ name \in ReducingAggregates ->
                    IF name \in NonValueReducingAggregates THEN "Releasable" ELSE "Summary"
               [] allow.summaries /\ windowed /\ name \in RankingWindows -> "Releasable"
               [] allow.summaries /\ trunc ->
                    IF \/ LiteralIn(call.args[1], YearOrCoarser)
                       \/ allow.fine_date_trunc /\ LiteralIn(call.args[1], CoarseDateUnits)
                    THEN "Releasable" ELSE "Unknown"
               [] allow.summaries /\ ~ windowed /\ name \in PureScalars /\ call.args # Nothing ->
                    IF AllReleasable(call.args, allow) THEN "Releasable" ELSE "Unknown"
               [] OTHER -> "Unknown"

ClassifyExpr(e, allow) ==
    CASE e.node = "AConst" -> "Releasable"
      [] e.node = "TypeCast" -> ClassifyExpr(e.args[1], allow)
      [] e.node \in {"FuncCall", "AExpr"} /\ ParseExtract(e) # Nothing -> "JsonExtract"
      [] e.node = "FuncCall" /\ ParseExtract(e) = Nothing ->
            IF FunctionName(e.path) = Nothing THEN "Unknown"
            ELSE ClassifyCall(e, FunctionName(e.path)[1], allow)
      [] e.node = "CaseExpr" -> IF AllReleasable(e.results, allow) THEN "Releasable" ELSE "Unknown"
      [] (e.node = "AExpr" /\ ParseExtract(e) = Nothing) \/ e.node = "CoalesceExpr" ->
            IF AllReleasable(e.args, allow) THEN "Releasable" ELSE "Unknown"
      [] OTHER -> "Unknown"

-----------------------------------------------------------------------------
(* Positions: which target is which field.                                 *)

IsStar(target) == target.value.node = "ColumnRef" /\ Last(target.value.fields) = "*"

\* SELECT * FROM (subquery): the subquery describes the fields.
WrapsSubquery(select) ==
    /\ ~ IsSetOperation(select)
    /\ Len(select.from) = 1 /\ select.from[1].node = "RangeSubselect"
    /\ Len(select.targets) = 1
    /\ select.targets[1].value.node = "ColumnRef"
    /\ select.targets[1].value.fields = << "*" >>

RECURSIVE UnwrapStarOverSubquery(_)
UnwrapStarOverSubquery(select) ==
    IF WrapsSubquery(select) THEN UnwrapStarOverSubquery(select.from[1].query) ELSE select

PositionsAreTrustworthy(select, field_count) ==
    /\ ~ IsSetOperation(select)
    /\ Len(select.targets) = field_count
    /\ \A i \in DOMAIN select.targets : ~ IsStar(select.targets[i])

\* The select whose targets are the fields of the description, or Nothing.
DescribedSelect(text, field_count) ==
    LET sole == SoleSelect(text)
        inner == UnwrapStarOverSubquery(sole[1])
    IN  IF sole = Nothing \/ ~ PositionsAreTrustworthy(inner, field_count)
        THEN Nothing ELSE << inner >>

OutputSafety(text, field_count, allow) ==
    LET select == DescribedSelect(text, field_count)
    IN  [i \in 1 .. field_count |->
            IF select = Nothing THEN "Unknown"
            ELSE ClassifyExpr(select[1].targets[i].value, allow)]

-----------------------------------------------------------------------------
(* What a summary or an extract is taken over.                             *)

\* summary_argument_name: the one bare column of an aggregate.
SummaryArgumentName(e) ==
    LET call == Peel(e)
        argument == Peel(call.args[1])
    IN  IF /\ call.node = "FuncCall" /\ Len(call.args) = 1
           /\ argument.node = "ColumnRef" /\ Len(argument.fields) = 1 /\ argument.fields # << "*" >>
        THEN argument.fields ELSE Nothing

\* The relations of FROM, Nothing unless each is spelled with its schema.
SummaryRelations(select) ==
    IF \A i \in DOMAIN select.from : select.from[i].node = "RangeVar" /\ select.from[i].schema # ""
    THEN select.from ELSE Nothing

RECURSIVE CollectQualifiedFrom(_)
CollectQualifiedFrom(items) ==
    LET Of(item) ==
            CASE item.node = "RangeVar" /\ item.schema # "" -> << item >>
              [] item.node = "JoinExpr" -> CollectQualifiedFrom(item.sides)
              [] OTHER -> Nothing
        Upto[i \in 0 .. Len(items)] ==
            IF i = 0 THEN Nothing
            ELSE LET before == Upto[i - 1]
                 IN  IF Of(items[i]) = Nothing \/ (i > 1 /\ before = Nothing)
                     THEN Nothing ELSE before \o Of(items[i])
    IN  Upto[Len(items)]

-----------------------------------------------------------------------------
(* group_by_columns: a set of names, or Unreadable.                        *)

GroupDepth == 16

RECURSIVE GroupItemNames(_, _, _, _)

UnreadableGroup == [readable |-> FALSE, names |-> {}]
NamesOf(names) == [readable |-> TRUE, names |-> names]

AllOf(groups) ==
    IF \E g \in groups : ~ g.readable THEN UnreadableGroup
    ELSE NamesOf(UNION {g.names : g \in groups})

\* Mutant: GROUP BY of an output alias is the name of the alias.
GroupAliasUnresolved(name, targets) == {}

\* The targets that an unqualified grouping name is an output alias of.
GroupAlias(name, targets) == {i \in DOMAIN targets : targets[i].name = name}

\* An ordinal may name another ordinal, so the depth is bounded.
GroupItemNames(item, targets, element, depth) ==
    CASE depth > GroupDepth -> UnreadableGroup
      [] depth <= GroupDepth /\ item.node = "ColumnRef" /\ Last(item.fields) # "*" ->
            LET name == Last(item.fields)
                aliased == IF element /\ Len(item.fields) = 1 THEN GroupAlias(name, targets) ELSE {}
            IN  AllOf({NamesOf({name})}
                        \cup {GroupItemNames(targets[i].value, targets, FALSE, depth + 1) :
                                 i \in aliased})
      [] depth <= GroupDepth /\ item.node = "AConst" /\ item.type = "int" ->
            IF item.value \in DOMAIN targets /\ \A i \in DOMAIN targets : ~ IsStar(targets[i])
            THEN GroupItemNames(targets[item.value].value, targets, FALSE, depth + 1)
            ELSE UnreadableGroup
      [] depth <= GroupDepth /\ item.node \in {"GroupingSet", "RowExpr"} ->
            AllOf({GroupItemNames(item.args[i], targets, element, depth + 1) :
                     i \in DOMAIN item.args})
      [] OTHER -> UnreadableGroup

GroupByColumns(text) ==
    LET sole == SoleSelect(text)
        select == UnwrapStarOverSubquery(sole[1])
    IN  CASE ~ text.parses -> UnreadableGroup
          [] text.parses /\ sole = Nothing -> NamesOf({})
          [] text.parses /\ sole # Nothing ->
                AllOf({GroupItemNames(select.group[i], select.targets, TRUE, 0) :
                          i \in DOMAIN select.group})
=============================================================================
