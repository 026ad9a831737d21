------------------------------ MODULE Surface ------------------------------
(* analysis/catalogs.rs, catalog_surface.rs and frontend.rs: the gates a   *)
(* statement passes before the backend sees it, and the statements that    *)
(* read nothing but the server's own metadata.  Each table of names is     *)
(* represented by a few of its rows.  Text that does not parse passes      *)
(* every gate here.                                                        *)
EXTENDS Safety

\* VANILLA_PG_CATALOG, VANILLA_INFORMATION_SCHEMA, CONTRIB_METADATA_SAFE_PG.
VanillaPg == [pg_class |-> TRUE, pg_database |-> TRUE, pg_type |-> TRUE,
              pg_stats |-> FALSE, pg_stat_activity |-> FALSE]
VanillaInformationSchema == [tables |-> TRUE, user_mapping_options |-> FALSE]
ContribMetadataSafe == {"pg_buffercache"}

\* The prefixes and substrings, as the names of the model that have them.
ToastNames == {"pg_toast_1"}
ExtensionNames == {"pg_dist_authinfo"}
WrapperNames == {"_pg_foreign_tables"}
ForkDumps == {"citus_lock_waits"}
StartsWithPg(name) ==
    name \in DOMAIN VanillaPg \cup ContribMetadataSafe \cup ToastNames \cup ExtensionNames

MetadataSafePg(name) ==
    IF name \in DOMAIN VanillaPg THEN VanillaPg[name] ELSE name \in ContribMetadataSafe

MetadataSafeInformationSchema(name) ==
    name \in DOMAIN VanillaInformationSchema /\ VanillaInformationSchema[name]

ClassifiedLeaky(name) ==
    \/ name \in DOMAIN VanillaPg /\ ~ VanillaPg[name]
    \/ name \in DOMAIN VanillaInformationSchema /\ ~ VanillaInformationSchema[name]

RangeVarIsLeakyCatalog(range) ==
    LET schema == range.schema
        name == range.relname
    IN  \/ schema = "pg_toast" \/ name \in ToastNames
        \/ name \in WrapperNames /\ schema \in {"", "information_schema"}
        \/ name \in ForkDumps
        \/ ClassifiedLeaky(name)
        \/ schema = "information_schema" /\ ~ MetadataSafeInformationSchema(name)
        \/ /\ schema = "pg_catalog" \/ (schema = "" /\ StartsWithPg(name))
           /\ ~ MetadataSafePg(name)

\* Parse failure is no refusal here; the other gates still apply.
TouchesLeakySystemCatalog(text) ==
    TreeAny(text, LAMBDA n : n.node = "RangeVar" /\ RangeVarIsLeakyCatalog(n))

-----------------------------------------------------------------------------
(* reads_only_server_metadata.                                             *)

FuncCallIsCatalogSafe(call) ==
    LET path == call.path
        name == Last(path)
    IN  /\ \/ Len(path) = 1
           \/ Len(path) = 2 /\ path[1] \in {"pg_catalog", "information_schema"}
        /\ name \notin CatalogEscapeFunctions
        /\ \/ IsTrustedFunctionName(name)
           \/ name \in GeneratorsInFrom \cup CatalogHelperFunctions

\* The helpers that look one object up: pg_get_viewdef, obj_description.
IsCatalogObjectLookup(name) ==
    name \notin GeneratorsInFrom /\ name \in {"pg_get_viewdef", "obj_description"}

RelationIsDisqualified(range, ctes) ==
    IF range.schema = ""
    THEN /\ range.relname \notin ctes
         /\ ~ StartsWithPg(range.relname) \/ RangeVarIsLeakyCatalog(range)
    ELSE \/ range.schema \notin {"pg_catalog", "information_schema"}
         \/ RangeVarIsLeakyCatalog(range)

GeneratorIsDisqualified(item) ==
    LET name == FunctionName(item.call.path)
    IN  name = Nothing \/ name[1] \notin GeneratorsInFrom

NodeIsDisqualified(n, ctes) ==
    CASE n.node = "RangeVar" -> RelationIsDisqualified(n, ctes)
      [] n.node = "RangeFunction" -> GeneratorIsDisqualified(n)
      [] n.node = "FuncCall" -> ~ FuncCallIsCatalogSafe(n)
      [] OTHER -> FALSE

\* A relation, or a helper in FROM that is itself the read of a catalog.
ShowsRelation(n, ctes) ==
    CASE n.node = "RangeVar" -> ~ (n.schema = "" /\ n.relname \in ctes)
      [] n.node = "RangeFunction" -> Last(n.call.path) \in CatalogHelperFunctions
      [] OTHER -> FALSE

\* is_simple_empty_from_select with a lookup in it.
IsLookupWithoutFrom(text) ==
    /\ CteNames(text) = {}
    /\ SoleSelect(text) # Nothing
    /\ ~ IsSetOperation(text.stmts[1]) /\ text.stmts[1].from = Nothing
    /\ TreeAny(text, LAMBDA n : n.node = "FuncCall" /\ FunctionName(n.path) # Nothing
                                /\ IsCatalogObjectLookup(FunctionName(n.path)[1]))

ReadsOnlyServerMetadata(text) ==
    /\ text.parses /\ Len(text.stmts) = 1
    /\ \/ text.stmts[1].node = "VariableShowStmt"
       \/ LET ctes == CteNames(text)
          IN  /\ ~ TreeAny(text, LAMBDA n : NodeIsDisqualified(n, ctes))
              /\ \/ TreeAny(text, LAMBDA n : ShowsRelation(n, ctes))
                 \/ IsLookupWithoutFrom(text)

EveryRelationIsUnambiguous(text) ==
    /\ text.parses
    /\ ~ TreeAny(text, LAMBDA n : /\ n.node = "RangeVar" /\ n.schema = ""
                                  /\ n.relname \notin CteNames(text)
                                  /\ ~ MetadataSafePg(n.relname))

\* provenance_is_trustworthy of a statement: no set operation anywhere.
StatementProvenanceIsTrustworthy(text) ==
    /\ text.parses /\ Len(text.stmts) = 1
    /\ ~ TreeAny(text, LAMBDA n : n.node = "SelectStmt" /\ IsSetOperation(n))

-----------------------------------------------------------------------------
(* The statement classes.                                                  *)

ReadStatements ==
    {"ExplainStmt", "VariableShowStmt", "PrepareStmt", "ExecuteStmt", "DeclareCursorStmt"}

NodeIsWrite(n) ==
    IF n.node = "SelectStmt" THEN n.into \/ n.locks
    ELSE n.node \in StatementNodes \ ReadStatements

\* Mutant: only the statement itself is looked at.
IsWriteStatementAtTop(text) == \E i \in DOMAIN text.stmts : NodeIsWrite(text.stmts[i])

IsWriteStatement(text) == TreeAny(text, NodeIsWrite)

IsSqlPrepareOrCursor(text) ==
    TreeAny(text, LAMBDA n : n.node \in {"PrepareStmt", "ExecuteStmt", "DeclareCursorStmt"})

FuncCallIsTrusted(call) ==
    FunctionName(call.path) # Nothing /\ IsTrustedFunctionName(FunctionName(call.path)[1])

CallsUntrustedFunction(text) ==
    /\ ~ ReadsOnlyServerMetadata(text)
    /\ TreeAny(text, LAMBDA n : n.node = "FuncCall" /\ ~ FuncCallIsTrusted(n))
=============================================================================
