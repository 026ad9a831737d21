------------------------------- MODULE Hostile -------------------------------
(* analysis/hostile.rs: under posture = "hostile" a masked column may only *)
(* be an output of the outermost SELECT, or a plain sort key.  Relations   *)
(* is Snapshot::relation_columns in the order a walk over it takes, masked *)
(* the bare names masked for the session's roles.                          *)
EXTENDS Safety, FiniteSetsExt

Occurrences(names, name) == Cardinality({i \in DOMAIN names : names[i] = name})

\* masked_column_ref_counts: last names of references, and name lists.
TreeNames(text) ==
    LET walk == text.walk
        Upto[i \in 0 .. Len(walk)] ==
            IF i = 0 THEN Nothing
            ELSE LET before == Upto[i - 1]
                 IN  before \o (CASE walk[i].node = "ColumnRef" /\ Last(walk[i].fields) # "*" ->
                                        << Last(walk[i].fields) >>
                                  [] walk[i].node = "String" -> << walk[i].value >>
                                  [] OTHER -> Nothing)
    IN  Upto[Len(walk)]

MentionCount(text, name) ==
    Max({Occurrences(text.identifiers, name), Occurrences(TreeNames(text), name)})

\* simple_sort_key_masked_name.
IsSimpleSortKey(e, name) ==
    Peel(e).node = "ColumnRef" /\ Last(Peel(e).fields) = name

\* Of ORDER BY and of the WINDOW clause; a window spelled after OVER has none.
SortKeys(select) ==
    select.sort \o FlattenSeq([i \in DOMAIN select.windows |-> select.windows[i].sort])

SortCredit(text, name) ==
    LET walk == text.walk
        Of(i) == LET keys == SortKeys(walk[i])
                 IN  Cardinality({j \in DOMAIN keys : IsSimpleSortKey(keys[j], name)})
    IN  MapThenSumSet(Of, {i \in DOMAIN walk : walk[i].node = "SelectStmt"})

\* The select below EXPLAIN, too.
OuterSelect(text) ==
    IF Len(text.stmts) # 1 THEN Nothing
    ELSE CASE text.stmts[1].node = "SelectStmt" -> text.stmts
           [] text.stmts[1].node = "ExplainStmt" /\ text.stmts[1].queries[1].node = "SelectStmt" ->
                text.stmts[1].queries
           [] OTHER -> Nothing

ProjectsName(e, name) ==
    \/ e.node = "ColumnRef" /\ Last(e.fields) = name
    \/ ParseExtract(e) # Nothing /\ Last(ParseExtract(e)[1].column) = name

OuterProjections(select, name) ==
    Cardinality({i \in DOMAIN select.targets : ProjectsName(select.targets[i].value, name)})

MaskedExceedsOuterProjection(text, masked) ==
    /\ masked # {}
    /\ \/ ~ text.parses \/ ~ text.scans
       \/ LET mentioned == {name \in masked : MentionCount(text, name) > 0}
              outer == OuterSelect(text)
          IN  /\ mentioned # {}
              /\ \/ outer = Nothing \/ IsSetOperation(outer[1])
                 \/ \E name \in mentioned :
                        MentionCount(text, name) - SortCredit(text, name)
                            > OuterProjections(outer[1], name)

-----------------------------------------------------------------------------
(* Names that hide a masked column: column lists of aliases, NATURAL JOIN. *)

NamedAlike(columns, name) == {r \in DOMAIN columns : r.name = name}

\* The map as a walk over it may find it: of a name that several relations
\* have, first is the one it meets first.  Every snapshot has a map of its
\* own, with an order of its own.
Walks(columns) ==
    LET shared == {r.name : r \in {q \in DOMAIN columns :
                                       Cardinality(NamedAlike(columns, q.name)) > 1}}
    IN  {[columns |-> columns, first |-> first] :
            first \in {f \in [shared -> DOMAIN columns] : \A n \in shared : f[n].name = n}}

FirstNamed(relations, name) ==
    IF name \in DOMAIN relations.first THEN {relations.first[name]}
    ELSE NamedAlike(relations.columns, name)

\* columns_for_relation: the spelled schema, or else the first one so named.
ColumnsForRelation(relations, range) ==
    LET spelled == [schema |-> range.schema, name |-> range.relname]
    IN  IF spelled \in DOMAIN relations.columns THEN relations.columns[spelled]
        ELSE UNION {relations.columns[r] : r \in FirstNamed(relations, range.relname)}

RangeIsMasked(range, relations, masked) ==
    ColumnsForRelation(relations, range) \cap masked # {}

ContainsMaskedRelation(node, relations, masked) ==
    SubtreeAny(node, LAMBDA n : n.node = "RangeVar" /\ RangeIsMasked(n, relations, masked))

SelectNamesMasked(select, masked) ==
    \E i \in DOMAIN select.targets :
        \/ select.targets[i].name \in masked
        \/ SubtreeAny(select.targets[i].value, LAMBDA n :
                \/ n.node = "ColumnRef" /\ Last(n.fields) \in masked
                \/ n.node = "String" /\ n.value \in masked)

RECURSIVE JoinSideIsMasked(_, _, _)
JoinSideIsMasked(side, relations, masked) ==
    CASE side.node = "RangeVar" -> RangeIsMasked(side, relations, masked)
      [] side.node = "JoinExpr" ->
            \E i \in 1 .. 2 : JoinSideIsMasked(side.sides[i], relations, masked)
      [] side.node = "RangeSubselect" ->
            Range(side.colnames) \cap masked # {} \/ SelectNamesMasked(side.query, masked)
      [] side.node = "RangeFunction" -> Range(side.colnames) \cap masked # {}
      [] OTHER -> FALSE

\* Mutant: only a table's own alias is looked at for a column list.
TableIsRenamed(n, relations, masked) ==
    /\ n.node = "RangeVar" /\ n.colnames # Nothing
    /\ ColumnsForRelation(relations, n) = {} \/ RangeIsMasked(n, relations, masked)

Renaming == {"JoinExpr", "RangeSubselect", "RangeFunction", "CommonTableExpr"}

NodeIsJoinOrRename(n, relations, masked) ==
    \/ /\ n.node = "RangeVar" /\ n.colnames # Nothing
       /\ ColumnsForRelation(relations, n) = {} \/ RangeIsMasked(n, relations, masked)
    \/ /\ n.node = "JoinExpr" /\ n.natural
       /\ \E i \in 1 .. 2 : JoinSideIsMasked(n.sides[i], relations, masked)
    \/ /\ n.node \in Renaming /\ n.colnames # Nothing
       /\ ContainsMaskedRelation(n, relations, masked)
    \/ /\ n.node = "RangeSubselect" /\ n.colnames # Nothing
       /\ SelectNamesMasked(n.query, masked)

JoinOrRenameMasked(text, relations, masked) ==
    masked # {} /\ (~ text.parses
                    \/ TreeAny(text, LAMBDA n : NodeIsJoinOrRename(n, relations, masked)))

-----------------------------------------------------------------------------
(* References to a whole row.                                              *)

RowBinders(n, relations) ==
    CASE n.node = "RangeVar" ->
            Range(Named(n.alias) \o << n.relname >>) \ ColumnsForRelation(relations, n)
      [] n.node \in {"RangeSubselect", "RangeFunction", "JoinExpr"} -> Range(Named(n.alias))
      [] OTHER -> {}

UsesWholeRow(text, relations) ==
    \/ ~ text.parses
    \/ LET walk == text.walk
           names == UNION {RowBinders(walk[i], relations) : i \in DOMAIN walk}
           ranges == {i \in DOMAIN walk : walk[i].node = "RangeVar" /\ walk[i].schema # ""}
           qualified == {<< walk[i].schema, walk[i].relname >> : i \in ranges}
           Fields(n) == SelectSeq(n.fields, LAMBDA f : f # "*")
       IN  \E i \in DOMAIN walk :
            /\ walk[i].node = "ColumnRef"
            /\ \/ Len(Fields(walk[i])) = 1 /\ Fields(walk[i])[1] \in names
               \/ Len(Fields(walk[i])) = 2 /\ Fields(walk[i]) \in qualified
=============================================================================
