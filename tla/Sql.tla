-------------------------------- MODULE Sql --------------------------------
(* Statements as the proxy sees them: the parse tree of pg_query, down to  *)
(* the node types its analysis tells apart, the walk over it, and the      *)
(* identifiers of the text.  A node is a record whose `node` is the name   *)
(* of its type; TypeCast stands for COLLATE too, AExpr for every operator  *)
(* and test, RangeFunction for every set-returning item of FROM.           *)
EXTENDS Integers, Sequences, FiniteSets, SequencesExt, TLC

Nothing == << >>

-----------------------------------------------------------------------------
(* Expressions.                                                            *)

\* fields: the dotted names, "*" for a star.
Column(fields) == [node |-> "ColumnRef", fields |-> fields]
Literal(value) == [node |-> "AConst", type |-> "string", value |-> value]
Number(value) == [node |-> "AConst", type |-> "int", value |-> value]
Cast(arg) == [node |-> "TypeCast", args |-> << arg >>]
Call(path, args) ==
    [node |-> "FuncCall", path |-> path, args |-> args, star |-> FALSE, over |-> Nothing]
CountStar == [Call(<< "count" >>, Nothing) EXCEPT !.star = TRUE]
Operator(op, args) == [node |-> "AExpr", op |-> op, args |-> args]
\* The results of the arms, the default last, and the conditions.
Case(tests, results) == [node |-> "CaseExpr", tests |-> tests, results |-> results]
Coalesce(args) == [node |-> "CoalesceExpr", args |-> args]
Subquery(query) == [node |-> "SubLink", query |-> query]
Array(args) == [node |-> "AArrayExpr", args |-> args]
RowOf(args) == [node |-> "RowExpr", args |-> args]
GroupingSet(args) == [node |-> "GroupingSet", args |-> args]
Window(partition, sort) == [node |-> "WindowDef", partition |-> partition, sort |-> sort]
Over(call, window) == [call EXCEPT !.over = << window >>]

-----------------------------------------------------------------------------
(* FROM items, CTEs and statements.                                        *)

Table(schema, relname) ==
    [node |-> "RangeVar", schema |-> schema, relname |-> relname, alias |-> "",
     colnames |-> Nothing]
Derived(query, alias) ==
    [node |-> "RangeSubselect", query |-> query, alias |-> alias, colnames |-> Nothing]
FromCall(call, alias) ==
    [node |-> "RangeFunction", call |-> call, alias |-> alias, colnames |-> Nothing]
Join(left, right, natural, using) ==
    [node |-> "JoinExpr", sides |-> << left, right >>, natural |-> natural, using |-> using,
     alias |-> "", colnames |-> Nothing]
As(item, alias, colnames) == [item EXCEPT !.alias = alias, !.colnames = colnames]

Target(name, value) == [node |-> "ResTarget", name |-> name, value |-> value]
Cte(name, query, colnames) ==
    [node |-> "CommonTableExpr", name |-> name, query |-> query, colnames |-> colnames]

Select(targets, from) ==
    [node |-> "SelectStmt", targets |-> targets, from |-> from, where |-> Nothing,
     group |-> Nothing, having |-> Nothing, sort |-> Nothing, windows |-> Nothing,
     with |-> Nothing, branches |-> Nothing, locks |-> FALSE, into |-> FALSE]
SetOperation(left, right) == [Select(Nothing, Nothing) EXCEPT !.branches = << left, right >>]
IsSetOperation(select) == select.branches # Nothing

\* Any other statement, with the queries inside it.
Other(node, queries) == [node |-> node, queries |-> queries]

StatementNodes ==
    {"SelectStmt", "ExplainStmt", "VariableShowStmt", "PrepareStmt", "ExecuteStmt",
     "DeclareCursorStmt", "InsertStmt", "CreateTableAsStmt", "DoStmt"}

-----------------------------------------------------------------------------
(* for_each_child_node and the walks.                                      *)

\* The names that the walk visits as String nodes.
Strings(names) == [i \in DOMAIN names |-> [node |-> "String", value |-> names[i]]]

Kids(n) ==
    CASE n.node \in {"TypeCast", "AExpr", "CoalesceExpr", "AArrayExpr", "RowExpr", "GroupingSet"} ->
            n.args
      [] n.node = "FuncCall" -> n.args \o n.over
      [] n.node = "CaseExpr" -> n.tests \o n.results
      [] n.node = "SubLink" -> << n.query >>
      [] n.node = "WindowDef" -> n.partition \o n.sort
      [] n.node = "ResTarget" -> << n.value >>
      [] n.node = "RangeVar" -> Strings(n.colnames)
      [] n.node = "RangeSubselect" -> << n.query >> \o Strings(n.colnames)
      [] n.node = "RangeFunction" -> << n.call >> \o Strings(n.colnames)
      [] n.node = "JoinExpr" -> n.sides \o Strings(n.using) \o Strings(n.colnames)
      [] n.node = "CommonTableExpr" -> Strings(n.colnames) \o << n.query >>
      [] n.node = "SelectStmt" ->
            n.targets \o n.from \o n.group \o n.windows \o n.sort \o n.where \o n.having
                \o n.with \o n.branches
      [] n.node \in StatementNodes \ {"SelectStmt"} -> n.queries
      [] OTHER -> Nothing

RECURSIVE Walk(_)
Walk(n) == LET kids == Kids(n)
               Below[i \in 0 .. Len(kids)] ==
                    IF i = 0 THEN << n >> ELSE Below[i - 1] \o Walk(kids[i])
           IN  Below[Len(kids)]

WalkAll(stmts) ==
    LET Below[i \in 0 .. Len(stmts)] ==
            IF i = 0 THEN Nothing ELSE Below[i - 1] \o Walk(stmts[i])
    IN  Below[Len(stmts)]

\* Whether a node with the property is anywhere in the text: tree_any.
TreeAny(text, Test(_)) == \E i \in DOMAIN text.walk : Test(text.walk[i])
SubtreeAny(node, Test(_)) == \E n \in Range(Walk(node)) : Test(n)

-----------------------------------------------------------------------------
(* Identifiers.  Spelled is what a node adds to the token stream, beyond   *)
(* what the nodes below it do; a literal's text is no identifier.          *)

Named(name) == IF name = "" THEN Nothing ELSE << name >>

Spelled(n) ==
    CASE n.node = "ColumnRef" -> SelectSeq(n.fields, LAMBDA f : f # "*")
      [] n.node = "FuncCall" -> n.path
      [] n.node = "ResTarget" -> Named(n.name)
      [] n.node = "RangeVar" -> Named(n.schema) \o << n.relname >> \o Named(n.alias)
      [] n.node \in {"RangeSubselect", "RangeFunction", "JoinExpr"} -> Named(n.alias)
      [] n.node = "CommonTableExpr" -> << n.name >>
      [] n.node = "String" -> << n.value >>
      [] OTHER -> Nothing

\* scan_identifiers: the tokens of the text, in order and with repetitions.
ScanIdentifiers(walk) ==
    LET Upto[i \in 0 .. Len(walk)] ==
            IF i = 0 THEN Nothing ELSE LET before == Upto[i - 1] IN before \o Spelled(walk[i])
    IN  Upto[Len(walk)]

\* StatementInspection, which reads a text once: its statements and all their
\* nodes, its identifiers, whether pg_query parses it, whether the scanner
\* reads it (UESCAPE is refused), and the statement as the server reads it.
Inspect(stmt, parses) ==
    LET stmts == IF parses THEN << stmt >> ELSE Nothing
        walk == WalkAll(stmts)
    IN  [stmts |-> stmts, parses |-> parses, scans |-> TRUE, server |-> stmt, walk |-> walk,
         identifiers |-> ScanIdentifiers(walk)]

\* tree_identifier_names: what the parse tree names whatever the spelling.
TreeIdentifierNames(text) ==
    LET walk == text.walk
        named == {i \in DOMAIN walk : walk[i].node \in {"ColumnRef", "String"}}
        ranges == {i \in DOMAIN walk : walk[i].node = "RangeVar"}
    IN  UNION {Range(Spelled(walk[i])) : i \in named}
            \cup UNION {Range(Named(walk[i].schema) \o << walk[i].relname >>) : i \in ranges}

\* backstop_identifiers of a text that scans.
BackstopIdentifiers(text) == Range(text.identifiers) \cup TreeIdentifierNames(text)

\* The single SELECT of a text, or Nothing.
SoleSelect(text) ==
    IF text.parses /\ Len(text.stmts) = 1 /\ text.stmts[1].node = "SelectStmt"
    THEN text.stmts
    ELSE Nothing

CteNames(text) ==
    LET walk == text.walk
    IN  {walk[i].name : i \in {j \in DOMAIN walk : walk[j].node = "CommonTableExpr"}}
=============================================================================
