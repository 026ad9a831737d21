------------------------------- MODULE Lineage -------------------------------
(* lineage.rs and analysis/lineage_shape.rs: whether every stored column   *)
(* an output derives from is released.  The library that reports the       *)
(* sources is external; the guards around it are the code's.               *)
EXTENDS Engine, Questions

FollowDepth == 32

-----------------------------------------------------------------------------
(* output_lineage_is_closed: no node of the expression hides a query.      *)

Base == [is |-> "Base"]
Incomplete == [is |-> "Incomplete"]
Nested(query, index) == [is |-> "Nested", query |-> query, index |-> index]

ResTargetName(target) ==
    CASE target.name # "" -> << target.name >>
      [] target.name = "" /\ target.value.node = "ColumnRef" /\ ~ IsStar(target) ->
            << Last(target.value.fields) >>
      [] OTHER -> Nothing

\* output_index: an optional position.
OutputIndex(query, colnames, name) ==
    LET listed == {i \in DOMAIN colnames : colnames[i] = name}
        named == {i \in DOMAIN query.targets : ResTargetName(query.targets[i]) = << name >>}
    IN  CASE colnames # Nothing ->
                IF listed = {} THEN Nothing ELSE << CHOOSE i \in listed : \A j \in listed : i <= j >>
          [] colnames = Nothing ->
                IF Cardinality(named) = 1 THEN << CHOOSE i \in named : TRUE >> ELSE Nothing

\* The output of a subquery or a CTE that a name means there.
OutputOf(query, colnames, qualifier, name) ==
    LET index == OutputIndex(query, colnames, name)
    IN  CASE index # Nothing -> << Nested(query, index[1]) >>
          [] index = Nothing /\ qualifier # Nothing -> << Incomplete >>
          [] index = Nothing /\ qualifier = Nothing -> Nothing

RECURSIVE FlattenFrom(_)
FlattenFrom(item) ==
    IF item.node = "JoinExpr" /\ item.colnames = Nothing
    THEN FlattenFrom(item.sides[1]) \o FlattenFrom(item.sides[2])
    ELSE << item >>

\* The last CTE with the name of the table or of its alias, 0 if there is none.
VisibleCte(range, ctes) ==
    SelectLastInSeq(ctes, LAMBDA cte : cte.name \in {range.relname, range.alias})

\* Mutant: the column list of a table's alias is not noticed.
ClassifyTableUnrenamed(range, ctes, qualifier, name) ==
    LET visible == VisibleCte(range, ctes)
    IN  CASE qualifier # Nothing /\ qualifier[1] \notin {AliasOr(range.alias, range.relname), range.relname} ->
                Nothing
          [] OTHER ->
                IF visible = 0 THEN << Base >>
                ELSE OutputOf(ctes[visible].query, ctes[visible].colnames, qualifier, name)

ClassifyTable(range, ctes, qualifier, name) ==
    LET visible == VisibleCte(range, ctes)
    IN  CASE qualifier # Nothing /\ qualifier[1] \notin {AliasOr(range.alias, range.relname), range.relname} ->
                Nothing
          [] range.colnames # Nothing -> << Incomplete >>
          [] OTHER ->
                IF visible = 0 THEN << Base >>
                ELSE OutputOf(ctes[visible].query, ctes[visible].colnames, qualifier, name)

\* What an item of FROM makes of a reference: an optional origin.
ClassifyFromItem(item, ctes, qualifier, name) ==
    LET other == qualifier # Nothing /\ qualifier[1] # item.alias
    IN  CASE item.node = "RangeVar" -> ClassifyTable(item, ctes, qualifier, name)
          [] item.node = "RangeSubselect" ->
                IF item.alias = "" \/ other THEN Nothing
                ELSE OutputOf(item.query, item.colnames, qualifier, name)
          [] item.node = "RangeFunction" ->
                IF item.alias = "" \/ other THEN Nothing
                ELSE IF qualifier # Nothing \/ name \in Range(item.colnames)
                     THEN << Incomplete >> ELSE Nothing
          [] item.node = "JoinExpr" -> IF qualifier # Nothing THEN << Incomplete >> ELSE Nothing

ResolveColumn(select, ctes, qualifier, name) ==
    LET items == Concatenated([i \in DOMAIN select.from |-> FlattenFrom(select.from[i])])
        said == Concatenated([i \in DOMAIN items |-> ClassifyFromItem(items[i], ctes, qualifier, name)])
        nested == {i \in DOMAIN said : said[i].is = "Nested"}
        Some(is) == \E i \in DOMAIN said : said[i].is = is
    IN  CASE \/ Some("Incomplete") \/ Cardinality(nested) > 1
             \/ nested # {} /\ Some("Base") /\ qualifier = Nothing -> Incomplete
          [] OTHER -> IF nested = {} THEN Base ELSE said[CHOOSE i \in nested : TRUE]

\* extend_ctes: a later CTE of the same name shadows, as the last one is read.
ExtendCtes(ctes, select) ==
    ctes \o SelectSeq(select.with, LAMBDA cte : cte.query.node = "SelectStmt")

RECURSIVE FieldIsClosed(_, _, _, _)
RECURSIVE ExprIsClosed(_, _, _, _)

FieldIsClosed(wrapped, index, outer, depth) ==
    LET select == UnwrapStarOverSubquery(wrapped)
        ctes == ExtendCtes(outer, select)
    IN  /\ depth < FollowDepth
        /\ IF IsSetOperation(select)
           THEN \A i \in 1 .. 2 : FieldIsClosed(select.branches[i], index, ctes, depth + 1)
           ELSE /\ index \in DOMAIN select.targets
                /\ ExprIsClosed(select.targets[index].value, select, ctes, depth)

\* Nodes that are closed when their operands are; a subquery is not.
IsClosedNode(e) ==
    \/ e.node \in {"TypeCast", "AExpr", "CoalesceExpr", "CaseExpr", "RowExpr", "AArrayExpr"}
    \/ e.node = "FuncCall" /\ e.over = Nothing

ExprIsClosed(e, select, ctes, depth) ==
    CASE e.node = "AConst" -> TRUE
      [] e.node = "ColumnRef" ->
            LET fields == e.fields
                qualifier == IF Len(fields) > 1 THEN << fields[Len(fields) - 1] >> ELSE Nothing
                origin == ResolveColumn(select, ctes, qualifier, Last(fields))
            IN  /\ Last(fields) # "*"
                /\ \/ origin.is = "Base"
                   \/ /\ origin.is = "Nested"
                      /\ FieldIsClosed(origin.query, origin.index, ctes, depth + 1)
      [] IsClosedNode(e) ->
            \A i \in DOMAIN Kids(e) : ExprIsClosed(Kids(e)[i], select, ctes, depth)
      [] OTHER -> FALSE

OutputLineageIsClosed(text, index) ==
    SoleSelect(text) # Nothing /\ FieldIsClosed(text.stmts[1], index, << >>, 0)

-----------------------------------------------------------------------------
(* resolve_inspected.                                                      *)

\* The catalog handed to the library; a bare name is taken for public's.
LibraryWorld(snapshot) ==
    [reader |-> "library", path |-> << "public" >>, views |-> << >>, flavour |-> "postgres",
     tables |-> [r \in DOMAIN snapshot.relation_columns |->
                    SetToSeq(snapshot.relation_columns[r])]]

\* Guards 6 and 7, which turn a release down.
SourcesAreComplete(snapshot, text, roles, index) ==
    /\ ~ ReferencesMaskedColumn(snapshot, text, roles)
    /\ OutputLineageIsClosed(text, index)

\* Guards 1, 2 and 5 on the sources of one field, then 6 and 7.
Verdict(snapshot, text, roles, sources, index) ==
    CASE \/ sources = {}
         \/ \E s \in sources : RelationIsOpaqueView(snapshot, s[1]) -> "Unresolved"
      [] OTHER ->
            IF \E s \in sources : IsMaskedName(snapshot, roles, s[1], s[2]) THEN "Blocked"
            ELSE IF SourcesAreComplete(snapshot, text, roles, index) THEN "Release"
            ELSE "Unresolved"

\* Guards 3 and 4: the text parses, and every field has a mapping.
ResolveInspected(snapshot, text, field_count, roles) ==
    LET outputs == Outputs(LibraryWorld(snapshot), text.stmts[1], << >>, Nothing)
        mapped == SoleSelect(text) # Nothing /\ Len(outputs) = field_count
    IN  [i \in 1 .. field_count |->
            IF mapped THEN Verdict(snapshot, text, roles, outputs[i].flow, i) ELSE "Unresolved"]
=============================================================================
