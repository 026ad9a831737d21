------------------------------- MODULE Engine -------------------------------
(* External: how two readers of a statement trace its output columns.  The *)
(* server resolves names through search_path and reports the column that a *)
(* field comes from; sqllineage, which lineage.rs calls, resolves them     *)
(* from the catalog it is handed, does not look into scalar subqueries,    *)
(* and does not apply the column list of a table's alias.                  *)
(*                                                                         *)
(* A world is [reader, tables, views, path, flavour].  A stored column is  *)
(* named << relation, column >>, which stands for its OID and attribute    *)
(* number: no DDL happens between a statement and its description.  An     *)
(* output column is [name, flow, origin]: its flow the stored columns      *)
(* whose values it carries, its origin the one the server reports, if any. *)
EXTENDS Safety

NoOrigin == << >>

Output(name, flow, origin) == [name |-> name, flow |-> flow, origin |-> origin]

Scope(alias, columns) == [alias |-> alias, columns |-> columns]

\* AS t(a, b): the first columns of the item are renamed by position.
Renamed(columns, names) ==
    [i \in DOMAIN columns |->
        IF i \in DOMAIN names THEN [columns[i] EXCEPT !.name = names[i]] ELSE columns[i]]

\* The relation a name means: none, or one.
ResolveRelation(world, range) ==
    LET known == DOMAIN world.tables \cup DOMAIN world.views
        At(schema) == [schema |-> schema, name |-> range.relname]
        hits == {i \in DOMAIN world.path : At(world.path[i]) \in known}
    IN  CASE range.schema # "" -> {At(range.schema)} \cap known
          [] range.schema = "" /\ hits = {} -> {}
          [] range.schema = "" /\ hits # {} ->
                {At(world.path[CHOOSE i \in hits : \A j \in hits : i <= j])}

RECURSIVE Outputs(_, _, _, _)
RECURSIVE ItemScopes(_, _, _)
RECURSIVE Flow(_, _, _, _)

StoredColumns(relation, names) ==
    [i \in DOMAIN names |->
        Output(names[i], {<< relation, names[i] >>}, << << relation, names[i] >> >>)]

\* CockroachDB sees through a view; PostgreSQL reports the view's own columns.
ViewColumns(world, relation) ==
    LET view == world.views[relation]
    IN  IF world.flavour = "cockroach"
        THEN Renamed(Outputs(world, view.query, << >>, Nothing), view.columns)
        ELSE StoredColumns(relation, view.columns)

TableColumns(world, range, ctes) ==
    IF range.schema = "" /\ range.relname \in DOMAIN ctes
    THEN ctes[range.relname]
    ELSE LET relation == ResolveRelation(world, range)
         IN  CASE relation = {} -> Nothing
               [] relation # {} /\ relation \subseteq DOMAIN world.views ->
                    ViewColumns(world, CHOOSE r \in relation : TRUE)
               [] OTHER -> LET r == CHOOSE r \in relation : TRUE
                           IN  StoredColumns(r, world.tables[r])

AliasOr(alias, name) == IF alias = "" THEN name ELSE alias

Concatenated(seqs) ==
    LET Upto[i \in 0 .. Len(seqs)] ==
            IF i = 0 THEN Nothing ELSE LET before == Upto[i - 1] IN before \o seqs[i]
    IN  Upto[Len(seqs)]

AllColumns(scopes) == Concatenated([i \in DOMAIN scopes |-> scopes[i].columns])

ItemScopes(world, item, ctes) ==
    CASE item.node = "RangeVar" ->
            LET columns == TableColumns(world, item, ctes)
                names == IF world.reader = "server" THEN item.colnames ELSE Nothing
            IN  << Scope(AliasOr(item.alias, item.relname), Renamed(columns, names)) >>
      [] item.node = "RangeSubselect" ->
            << Scope(item.alias, Renamed(Outputs(world, item.query, ctes, Nothing), item.colnames)) >>
      [] item.node = "RangeFunction" ->
            << Scope(item.alias, Renamed(<< Output(item.alias, {}, NoOrigin) >>, item.colnames)) >>
      [] item.node = "JoinExpr" ->
            LET below == ItemScopes(world, item.sides[1], ctes) \o ItemScopes(world, item.sides[2], ctes)
            IN  IF item.alias = "" THEN below
                ELSE << Scope(item.alias, Renamed(AllColumns(below), item.colnames)) >>

-----------------------------------------------------------------------------
(* Expressions.                                                            *)

\* The columns of the scopes that a reference may mean; a name that is no
\* column and the alias of an item means the whole row.
Candidates(scopes, fields) ==
    LET name == Last(fields)
        meant == {s \in DOMAIN scopes : Len(fields) = 1 \/ scopes[s].alias = fields[Len(fields) - 1]}
    IN  {<< s, c >> \in UNION {{s} \X (DOMAIN scopes[s].columns) : s \in meant} :
            scopes[s].columns[c].name = name}

WholeRow(scopes, name) ==
    UNION {scopes[s].columns[c].flow :
              << s, c >> \in UNION {{t} \X (DOMAIN scopes[t].columns) :
                                        t \in {u \in DOMAIN scopes : scopes[u].alias = name}}}

\* The first match: the inner scopes come first, USING merges two columns.
Referred(scopes, fields) ==
    LET found == Candidates(scopes, fields)
        at == CHOOSE p \in found : \A q \in found : p[1] < q[1] \/ (p[1] = q[1] /\ p[2] <= q[2])
    IN  IF found = {}
        THEN Output(Last(fields), WholeRow(scopes, Last(fields)), NoOrigin)
        ELSE scopes[at[1]].columns[at[2]]

\* Calls whose result is not a value of their arguments: counts, ranks, the
\* size of a relation, and a date cut to its year.
CarriesNoValue(call) ==
    LET name == Last(call.path)
    IN  \/ name \in NonValueReducingAggregates \cup RankingWindows \cup SizeFunctions
        \/ name = "date_trunc" /\ LiteralIn(call.args[1], YearOrCoarser)

FlowOfAll(world, exprs, scopes, ctes) ==
    UNION {Flow(world, exprs[i], scopes, ctes) : i \in DOMAIN exprs}

Flow(world, e, scopes, ctes) ==
    CASE e.node = "ColumnRef" -> Referred(scopes, e.fields).flow
      [] e.node = "AConst" -> {}
      [] e.node = "FuncCall" ->
            IF world.reader = "server" /\ CarriesNoValue(e) THEN {}
            ELSE FlowOfAll(world, e.args, scopes, ctes)
      [] e.node = "CaseExpr" -> FlowOfAll(world, e.results, scopes, ctes)
      [] e.node = "SubLink" ->
            IF world.reader = "library" THEN {}
            ELSE Outputs(world, e.query, ctes, scopes)[1].flow
      [] OTHER -> FlowOfAll(world, e.args, scopes, ctes)

\* The output columns of one target: a star's, or the one it names.
TargetOutputs(world, target, scopes, ctes) ==
    LET e == target.value
        name == AliasOr(target.name, IF e.node = "ColumnRef" THEN Last(e.fields) ELSE "?column?")
        starred == IF Len(e.fields) = 1 THEN scopes
                   ELSE SelectSeq(scopes, LAMBDA s : s.alias = e.fields[Len(e.fields) - 1])
    IN  CASE e.node = "ColumnRef" /\ Last(e.fields) = "*" ->
                IF world.reader = "library"
                THEN << Output("*", {}, NoOrigin) >>
                ELSE AllColumns(starred)
          [] e.node = "ColumnRef" /\ Last(e.fields) # "*" ->
                << [Referred(scopes, e.fields) EXCEPT !.name = name] >>
          [] OTHER -> << Output(name, Flow(world, e, scopes, ctes), NoOrigin) >>

\* The CTEs in scope, each reading the ones before it.
WithCtes(world, with, ctes) ==
    LET Upto[i \in 0 .. Len(with)] ==
            IF i = 0 THEN ctes
            ELSE LET before == Upto[i - 1]
                     outputs == Outputs(world, with[i].query, before, Nothing)
                 IN  (with[i].name :> Renamed(outputs, with[i].colnames)) @@ before
    IN  Upto[Len(with)]

\* The scopes of FROM, then those of the query around a subquery.
FromScopes(world, select, ctes, outer) ==
    Concatenated([i \in DOMAIN select.from |-> ItemScopes(world, select.from[i], ctes)]) \o outer

Outputs(world, select, ctes, outer) ==
    IF select.node # "SelectStmt" THEN << Output(select.node, {}, NoOrigin) >>
    ELSE LET with == WithCtes(world, select.with, ctes)
         IN  IF IsSetOperation(select)
             THEN LET left == Outputs(world, select.branches[1], with, outer)
                      right == Outputs(world, select.branches[2], with, outer)
                  IN  [i \in DOMAIN left |->
                        Output(left[i].name, left[i].flow \cup right[i].flow,
                               IF world.flavour = "cockroach" THEN left[i].origin ELSE NoOrigin)]
             ELSE LET scopes == FromScopes(world, select, with, outer)
                  IN  Concatenated([i \in DOMAIN select.targets |->
                                        TargetOutputs(world, select.targets[i], scopes, with)])

-----------------------------------------------------------------------------
(* What a statement looks at without putting it out: the columns that its  *)
(* predicates, groupings, expressions and joins read, at any depth.        *)

RECURSIVE Uses(_, _, _, _)

\* Columns that NATURAL JOIN or USING equates.
RECURSIVE JoinUses(_, _, _)
JoinUses(world, item, ctes) ==
    IF item.node # "JoinExpr" THEN {}
    ELSE LET left == AllColumns(ItemScopes(world, item.sides[1], ctes))
             right == AllColumns(ItemScopes(world, item.sides[2], ctes))
             Equated(a, b) == a.name = b.name /\ (item.natural \/ a.name \in Range(item.using))
             pairs == {<< a, b >> \in (DOMAIN left) \X (DOMAIN right) : Equated(left[a], right[b])}
         IN  UNION {left[p[1]].flow \cup right[p[2]].flow : p \in pairs}
                \cup JoinUses(world, item.sides[1], ctes) \cup JoinUses(world, item.sides[2], ctes)

IsPlain(e) == Peel(e).node = "ColumnRef"

\* A target that is neither a column nor an extract of one.
IsComputed(target) == target.value.node # "ColumnRef" /\ ParseExtract(target.value) = Nothing

RECURSIVE SubqueriesOf(_)
SubqueriesOf(n) ==
    LET kids == Kids(n)
    IN  IF n.node \in {"SubLink", "RangeSubselect"} THEN << n.query >>
        ELSE Concatenated([i \in DOMAIN kids |-> SubqueriesOf(kids[i])])

Uses(world, select, ctes, outer) ==
    IF select.node # "SelectStmt" THEN {}
    ELSE LET with == WithCtes(world, select.with, ctes)
             scopes == FromScopes(world, select, with, outer)
             computed == SelectSeq(select.targets, IsComputed)
             sorts == SelectSeq(select.sort, LAMBDA e : ~ IsPlain(e))
             read == select.where \o select.having \o select.group \o sorts
                        \o [i \in DOMAIN computed |-> computed[i].value]
             below == SubqueriesOf([select EXCEPT !.with = Nothing])
         IN  UNION {FlowOfAll([world EXCEPT !.reader = "predicate"], read, scopes, with),
                    UNION {JoinUses(world, select.from[i], with) : i \in DOMAIN select.from},
                    UNION {Uses(world, below[i], with, scopes) : i \in DOMAIN below},
                    UNION {Uses(world, select.with[i].query, with, Nothing) :
                               i \in DOMAIN select.with}}
=============================================================================
