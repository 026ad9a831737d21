-------------------------- MODULE CatalogSnapshot --------------------------
(* One Snapshot of the catalog: how it is put together from the rows the   *)
(* database returns, and the questions a session asks of it.  A relation   *)
(* is [schema, name]; a live column is keyed by its OID and attribute      *)
(* number, and maps keyed by names hold them in lower case.                *)
EXTENDS Classification

CONSTANTS
    LowerCase,      \* the lower-case form of every name that has another
    Unreadable,     \* a view definition that is null, empty or does not parse
    EngineSchemas   \* ENGINE_INTERNAL_SCHEMA_TOKENS

Fold(name) == IF name \in DOMAIN LowerCase THEN LowerCase[name] ELSE name
FoldRelation(r) == [schema |-> Fold(r.schema), name |-> Fold(r.name)]

-----------------------------------------------------------------------------
(* Views whose provenance cannot be believed.  A definition says which     *)
(* relations it reads and whether a set operation merges their columns.    *)

ProvenanceIsTrustworthy(def) == def # Unreadable /\ ~ def.setop

ReferencedIdentifiers(def) == {Fold(r.name) : r \in def.reads}

NamesOneOf(identifiers, relations) == \E r \in relations : r.name \in identifiers

\* Mutant: the property is not transitive: only the views that hold the set
\* operation are distrusted.
OpaqueViewsShallow(defs) == {v \in DOMAIN defs : ~ ProvenanceIsTrustworthy(defs[v])}

\* The fixpoint of opaque_views, which takes at most a round for every view.
OpaqueViews(defs) ==
    LET rounds == Cardinality(DOMAIN defs)
        Opaque[n \in 0 .. rounds] ==
            IF n = 0
            THEN {v \in DOMAIN defs : ~ ProvenanceIsTrustworthy(defs[v])}
            ELSE LET known == Opaque[n - 1]
                 IN  known \cup {v \in DOMAIN defs \ known :
                                     NamesOneOf(ReferencedIdentifiers(defs[v]), known)}
    IN  Opaque[rounds]

-----------------------------------------------------------------------------
(* Unique keys: every plain column that indkey lists, those that the index *)
(* only includes after the columns of its key, and the columns below its   *)
(* expressions unless a predicate makes the index partial.                 *)

\* Mutant: the key of an index is everything the index depends on.
KeyColumnsByDepend(index) ==
    index.columns \cup index.included \cup index.expressions \cup index.predicate

KeyColumns(index) ==
    index.columns \cup index.included \cup IF index.predicate = {} THEN index.expressions ELSE {}

-----------------------------------------------------------------------------
(* Putting a snapshot together.  A row of the column query is              *)
(* [relation, column, key]; the rule query returns the rows of the         *)
(* relations that the rules name, spelled as the rules spell them;         *)
(* classified is what classify makes of every rule.                        *)

NameOf(rule) == << rule.relation, rule.column >>

\* Mutant: the rows are matched with the rules in lower case.
LocatedFolded(rules, rows) ==
    LET Fits(row, rule) == << FoldRelation(row.relation), row.column >>
                               = << FoldRelation(rule.relation), rule.column >>
    IN  [rule \in {q \in rules : \E row \in rows : Fits(row, q)} |->
            (CHOOSE row \in rows : Fits(row, rule)).key]

Located(rules, rows) ==
    [rule \in {q \in rules : \E row \in rows : << row.relation, row.column >> = NameOf(q)} |->
        (CHOOSE row \in rows : << row.relation, row.column >> = NameOf(rule)).key]

ByKey(rows) == [key \in {row.key : row \in rows} |-> CHOOSE row \in rows : row.key = key]

SnapshotFrom(spec, classified, columns, opaque, keys, rows) ==
    LET located == Located(spec.rules, rows)
        found == DOMAIN located
        RuleAt(key) == CHOOSE rule \in found : located[rule] = key
        folded == {<< FoldRelation(rule.relation), Fold(rule.column) >> : rule \in found}
        RuleFor(name) ==
            CHOOSE rule \in found : << FoldRelation(rule.relation), Fold(rule.column) >> = name
    IN  [by_column |-> [key \in Range(located) |-> classified[RuleAt(key)]],
         names |-> [key \in Range(located) |-> NameOf(RuleAt(key))],
         all_columns |->
            [key \in DOMAIN ByKey(columns) |->
                << ByKey(columns)[key].relation, ByKey(columns)[key].column >>],
         relation_columns |->
            [r \in {FoldRelation(row.relation) : row \in columns} |->
                {Fold(row.column) : row \in {q \in columns : FoldRelation(q.relation) = r}}],
         by_name |-> [name \in folded |-> classified[RuleFor(name)]],
         unresolved |-> {NameOf(rule) : rule \in spec.rules \ found},
         unique_keys |-> keys,
         opaque_views |-> opaque]

\* Mutant: a rule that does not classify is no failure.
ClassifyFailsNever(spec, classified, rows) == FALSE

\* Whether the loop over the rules meets one that does not classify.  A rule
\* whose column does not exist is not looked at.
ClassifyFails(spec, classified, rows) ==
    \E rule \in DOMAIN Located(spec.rules, rows) : classified[rule] = Refused

-----------------------------------------------------------------------------
(* coverage_changes: what a refresh tells the operator.                    *)

DisplayIndex(names) ==
    [name \in Range(names) |-> CHOOSE key \in DOMAIN names : names[key] = name]

Moved == "moved"
Lost == "lost"
Restored == "restored"

\* Mutant: a relation that was recreated is not reported.
CoverageChangesUnmoved(rules, previous, next) ==
    LET before == DisplayIndex(previous.names)
        after == DisplayIndex(next.names)
        named == {NameOf(rule) : rule \in rules}
    IN  {[change |-> Lost, column |-> n] : n \in named \cap (DOMAIN before \ DOMAIN after)}
            \cup {[change |-> Restored, column |-> n, after |-> after[n]] :
                      n \in named \cap (DOMAIN after \ DOMAIN before)}

CoverageChanges(rules, previous, next) ==
    LET before == DisplayIndex(previous.names)
        after == DisplayIndex(next.names)
        named == {NameOf(rule) : rule \in rules}
        both == {n \in named \cap DOMAIN before \cap DOMAIN after : before[n] # after[n]}
    IN  {[change |-> Moved, column |-> n, after |-> after[n]] : n \in both}
            \cup {[change |-> Lost, column |-> n] : n \in named \cap (DOMAIN before \ DOMAIN after)}
            \cup {[change |-> Restored, column |-> n, after |-> after[n]] :
                      n \in named \cap (DOMAIN after \ DOMAIN before)}

-----------------------------------------------------------------------------
(* The questions.                                                          *)

LookupByName(snapshot, relation, column) ==
    LET name == << FoldRelation(relation), Fold(column) >>
    IN  IF name \in DOMAIN snapshot.by_name THEN snapshot.by_name[name] ELSE Refused

\* is_opaque_view without a schema, which a statement's tokens do not give.
IsOpaqueName(snapshot, identifier) == NamesOneOf({Fold(identifier)}, snapshot.opaque_views)

RelationIsOpaqueView(snapshot, relation) ==
    \/ FoldRelation(relation) \in snapshot.opaque_views
    \/ IsOpaqueName(snapshot, relation.name)

GroupingCoversAUniqueKey(snapshot, grouped) ==
    \E key \in snapshot.unique_keys : key \subseteq grouped
=============================================================================
