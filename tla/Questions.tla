------------------------------ MODULE Questions ------------------------------
(* What a session asks a Snapshot about the text of a statement.  The      *)
(* answers go by names and never by resolving them: a name the statement   *)
(* mentions may be any column, or any relation, that has it.               *)
EXTENDS Sql, CatalogSnapshot

PassesFor(class, roles) == IsPassthrough(ForRoles(class, roles))

IsMaskedName(snapshot, roles, relation, column) ==
    LET class == LookupByName(snapshot, relation, column)
    IN  class = Refused \/ ~ PassesFor(class, roles)

\* inspection_references_masked_column: a classified column by its name, one
\* that no rule names only together with the name of its relation.
ReferencesMaskedColumn(snapshot, text, roles) ==
    \/ ~ text.scans
    \/ LET names == BackstopIdentifiers(text)
       IN  \E relation \in DOMAIN snapshot.relation_columns :
            \E column \in names \cap snapshot.relation_columns[relation] :
                /\ IsMaskedName(snapshot, roles, relation, column)
                /\ LookupByName(snapshot, relation, column) = Refused => relation.name \in names

\* Mutant: only the schemas of the engine are looked for.
MentionsEngineSchema(snapshot, text) ==
    ~ text.scans \/ Range(text.identifiers) \cap EngineSchemas # {}

MentionsUserRelation(snapshot, text) ==
    \/ ~ text.scans
    \/ LET names == Range(text.identifiers)
       IN  \/ names \cap EngineSchemas # {}
           \/ \E relation \in DOMAIN snapshot.relation_columns : relation.name \in names

TouchesOpaqueView(snapshot, text) ==
    /\ snapshot.opaque_views # {}
    /\ \/ ~ text.parses \/ ~ text.scans
       \/ \E name \in Range(text.identifiers) : IsOpaqueName(snapshot, name)

\* masked_bare_names_for_roles.
MaskedBareNames(snapshot, roles) ==
    LET classified == DOMAIN snapshot.by_name
        passing == {name \in classified : PassesFor(snapshot.by_name[name], roles)}
        Columns(names) == {name[2] : name \in names}
        unclassified == UNION {{<< r, c >> : c \in snapshot.relation_columns[r]} :
                                   r \in DOMAIN snapshot.relation_columns} \ classified
    IN  Columns(classified \ passing) \cup (Columns(unclassified) \ Columns(passing))
=============================================================================
