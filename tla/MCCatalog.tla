----------------------------- MODULE MCCatalog -----------------------------
(* An instance of Catalog for TLC: a table, a second one whose name differs *)
(* from it only in case, a view over the table and a view over either.      *)
EXTENDS Catalog

Rel(name) == [schema |-> "s", name |-> name]

MCRelations == {Rel("t"), Rel("T"), Rel("v"), Rel("w")}
MCLowerCase == ("T" :> "t")

Table(cols, indexes) == [oid |-> 0, cols |-> cols, def |-> None, indexes |-> indexes]
View(cols, reads, setop) ==
    [oid |-> 0, cols |-> cols, def |-> [reads |-> reads, setop |-> setop], indexes |-> {}]

Index(columns, expressions, predicate) ==
    [columns |-> columns, included |-> {}, expressions |-> expressions, predicate |-> predicate]
Covering(index, included) == [index EXCEPT !.included = included]

Keys == {Index({1}, {}, {}), Index({}, {2}, {})}
PartialKeys ==
    {Index({1}, {}, {2}), Index({}, {1}, {2}), Covering(Index({2}, {}, {}), {1})}

MCShapes ==
    (Rel("t") :> {Table(<< "id", "mail" >>, Keys)}
     @@ Rel("T") :> {Table(<< "mail", "id" >>, PartialKeys)}
     @@ Rel("v") :> {View(<< "mail" >>, {Rel("t")}, FALSE), View(<< "mail" >>, {Rel("t")}, TRUE),
                     [oid |-> 0, cols |-> << "mail" >>, def |-> Unreadable, indexes |-> {}]}
     @@ Rel("w") :> {View(<< "mail" >>, {Rel("v")}, FALSE), View(<< "mail" >>, {Rel("t")}, FALSE)})

MCFirstDb ==
    (Rel("t") :> [Table(<< "id", "mail" >>, Keys) EXCEPT !.oid = 1]
     @@ Rel("T") :> None
     @@ Rel("v") :> [View(<< "mail" >>, {Rel("t")}, FALSE) EXCEPT !.oid = 2]
     @@ Rel("w") :> [View(<< "mail" >>, {Rel("t")}, FALSE) EXCEPT !.oid = 3])

NoRoles == << >>
Rule(relation, column, type, mask) ==
    [relation |-> relation, column |-> column, type |-> type, mask |-> mask, params |-> << >>,
     by_role |-> NoRoles]

MCTypes == ("email" :> [mask |-> "pseudonym", params |-> << >>, by_role |-> ("ops" :> "partial")])

\* The rules of a deployment, a file that adds one whose type nobody
\* defines, for a column that does not exist yet, and a file with two rules
\* for one column.
MCSpecs ==
    {[rules |-> {Rule(Rel("t"), "mail", "email", NoDomain), Rule(Rel("v"), "mail", NoDomain, "redact")},
      types |-> MCTypes],
     [rules |-> {Rule(Rel("t"), "mail", "email", "null"), Rule(Rel("T"), "id", NoDomain, "none"),
                 Rule(Rel("T"), "late", "typo", NoDomain)},
      types |-> MCTypes],
     [rules |-> {Rule(Rel("t"), "mail", "email", NoDomain), Rule(Rel("T"), "mail", NoDomain, "none")},
      types |-> MCTypes]}

MCRoleOrder == << "dev", "ops" >>

\* Another database: a table whose unique index on id includes mail.
CoveringRelations == {Rel("t")}
CoveringShapes == [r \in CoveringRelations |-> {}]
CoveringFirstDb ==
    (Rel("t") :> [Table(<< "id", "mail" >>, {Covering(Index({1}, {}, {}), {2})}) EXCEPT !.oid = 1])
CoveringSpecs ==
    {[rules |-> {Rule(Rel("t"), "mail", "email", NoDomain)}, types |-> MCTypes]}
=============================================================================
