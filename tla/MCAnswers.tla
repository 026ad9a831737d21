----------------------------- MODULE MCAnswers -----------------------------
(* Instances of Answers for TLC: deployments whose statements try the      *)
(* gates and the lineage, and deployments of one table each whose rows try *)
(* the masks, some of them with rules that must not load.                  *)
EXTENDS Answers

\* AllTexts and AllDeployments.  TLC works a definition out once when it is
\* the value of a constant.
CONSTANTS PreparedTexts, PreparedDeployments

Public(name) == [schema |-> "public", name |-> name]
PgCatalog(name) == [schema |-> "pg_catalog", name |-> name]

MCLowerCase == << >>
MCRoleOrder == << "dev", "ops" >>
MCInt64Min == -8
MCInt2Min == -4

-----------------------------------------------------------------------------
(* Putting a deployment together.                                          *)

Rule(relation, column, type, mask, params, by_role) ==
    [relation |-> relation, column |-> column, type |-> type, mask |-> mask, params |-> params,
     by_role |-> by_role]
Plain(relation, column, mask) == Rule(relation, column, NoDomain, mask, << >>, << >>)

Live == [opaque |-> "mask", unclassified |-> "mask", unclassified_mask |-> "type_aware",
         summaries |-> "allow", posture |-> "default", lineage |-> "allow",
         system_catalogs |-> "allow"]

\* The rows of the column query: every relation that is not the system's.
ColumnRows(db) ==
    LET OfRelation(r, names) ==
            {[relation |-> r, column |-> c, key |-> << r, c >>] : c \in Range(names)}
    IN  UNION {OfRelation(r, db.tables[r]) : r \in DOMAIN db.tables \ db.system}
            \cup UNION {OfRelation(r, db.views[r].columns) : r \in DOMAIN db.views}

Definition(walk) ==
    [reads |-> {[schema |-> n.schema, name |-> n.relname] : n \in {m \in Range(walk) : m.node = "RangeVar"}},
     setop |-> \E n \in Range(walk) : n.node = "SelectStmt" /\ IsSetOperation(n)]

\* The same function, with its values worked out once.
Evaluated(f) == f @@ << >>

Classified(spec) ==
    LET Worked(class) == IF class = Refused THEN Refused ELSE [class EXCEPT !.by_role = Evaluated(@)]
    IN  Evaluated([rule \in spec.rules |-> Worked(Classify(rule, spec.types))])

SnapshotOf(db, spec, classified, rows) ==
    [SnapshotFrom(spec, classified, rows,
                  OpaqueViews([v \in DOMAIN db.views |-> Definition(Walk(db.views[v].query))]),
                  {{c[2] : c \in k} : k \in db.keys}, rows)
        EXCEPT !.by_column = Evaluated(@), !.names = Evaluated(@), !.all_columns = Evaluated(@),
               !.relation_columns = Evaluated(@), !.by_name = Evaluated(@)]
    @@ [not_null |-> db.not_null, system |-> db.system]

\* Two answers are compared, except in a document's deployments, where what
\* is promised is about one.
Deploy(live, db, spec, texts, people, formats, values) ==
    [live |-> live, db |-> db, spec |-> spec, texts |-> texts, people |-> people,
     formats |-> formats, values |-> values, compared |-> 2]

\* The same with what the catalog makes of it.
Resolved(sketch, classified, rows) ==
    [live |-> sketch.live, texts |-> sketch.texts, people |-> sketch.people,
     formats |-> sketch.formats, values |-> Evaluated(sketch.values), compared |-> sketch.compared,
     db |-> [sketch.db EXCEPT !.types = Evaluated(@)],
     loads |-> ~ ClassifyFails(sketch.spec, classified, rows),
     snapshot |-> SnapshotOf(sketch.db, sketch.spec, classified, rows)]

Deployed(sketch) == Resolved(sketch, Classified(sketch.spec), ColumnRows(sketch.db))

Nobody == [roles |-> {}, zone |-> 0]
Dev == [roles |-> {"dev"}, zone |-> 0]
Ops == [roles |-> {"ops"}, zone |-> 0]
Both == [roles |-> {"dev", "ops"}, zone |-> 0]
Abroad == [roles |-> {}, zone |-> 1]

-----------------------------------------------------------------------------
(* The deployments of the gates.                                           *)

people == Public("people")
orders == Public("orders")
pg_database == Public("pg_database")
v_union == Public("v_union")
v_over == Public("v_over")

OfTable(name) == << Table("public", name) >>
One(e) == << Target("", e) >>
Col(name) == Column(<< name >>)
Upper(e) == Call(<< "upper" >>, << e >>)
Sum(e) == Call(<< "sum" >>, << e >>)
Count(e) == Call(<< "count" >>, << e >>)
Trunc(unit, e) == Call(<< "date_trunc" >>, << Literal(unit), e >>)

Union == SetOperation(Select(One(Col("note")), OfTable("orders")), Select(One(Col("email")), OfTable("people")))

GateTables ==
    (people :> << "id", "email", "born", "nick" >>
     @@ orders :> << "id", "note", "amount" >>
     @@ pg_database :> << "oid", "secret" >>
     @@ PgCatalog("pg_database") :> << "oid" >>
     @@ PgCatalog("pg_class") :> << "oid", "relname" >>
     @@ PgCatalog("pg_stats") :> << "most_common_vals" >>)

GateViews ==
    (v_union :> [query |-> Union, columns |-> << "note" >>]
     @@ v_over :> [query |-> Select(One(Col("note")), OfTable("v_union")), columns |-> << "label" >>])

Types(tables, Type(_)) ==
    [c \in UNION {{<< r, n >> : n \in Range(tables[r])} : r \in DOMAIN tables} |->
        [type |-> Type(c[2]), width |-> 0]]

GateType(name) == CASE name = "born" -> "date" [] name \in {"amount", "id"} -> "int8" [] OTHER -> "text"

GateDb(flavour, path) ==
    [reader |-> "server", tables |-> GateTables, views |-> GateViews, path |-> path,
     flavour |-> flavour,
     types |-> Types(GateTables @@ [v \in DOMAIN GateViews |-> GateViews[v].columns], GateType),
     keys |-> {{<< people, "id" >>}, {<< people, "nick" >>}, {<< orders, "id" >>}},
     not_null |-> {}, system |-> {r \in DOMAIN GateTables : r.schema = "pg_catalog"},
     leaky |-> {PgCatalog("pg_stats")}]

GateSpec ==
    [types |-> ("contact" :> [mask |-> "pseudonym", params |-> << >>, by_role |-> ("ops" :> "none")]),
     rules |-> {Plain(people, "id", "none"), Rule(people, "email", "contact", NoDomain, << >>, << >>),
                Plain(people, "born", "date_year"), Plain(orders, "id", "none"),
                Plain(orders, "note", "none"), Plain(orders, "amount", "none")}]

FromPeople(e) == Select(One(e), OfTable("people"))
GroupedBy(targets, group) == [Select(targets, OfTable("people")) EXCEPT !.group = group]
Where(select, e) == [select EXCEPT !.where = << e >>]
Swapped == << As(Table("public", "people"), "p", << "x", "id" >>) >>
Bare(name) == << Table("", name) >>

GateTexts ==
    [id |-> FromPeople(Col("id")),
     email |-> FromPeople(Col("email")),
     star |-> FromPeople(Col("*")),
     upper_note |-> Select(One(Upper(Col("note"))), OfTable("orders")),
     upper_email |-> FromPeople(Upper(Col("email"))),
     upper_swapped |-> Select(One(Upper(Col("id"))), Swapped),
     sum_swapped |-> Select(One(Sum(Col("id"))), Swapped),
     sum_amount |-> Select(One(Sum(Col("amount"))), OfTable("orders")),
     star_and_count |-> Select(<< Target("", Col("*")), Target("", CountStar) >>,
                                   << Derived(FromPeople(Col("email")), "q") >>),
     scalar |-> Select(One(Subquery(FromPeople(Col("email")))), Nothing),
     wrapped |-> Select(One(Col("*")), << Derived(FromPeople(Upper(Col("email"))), "q") >>),
     renamed |-> Select(One(Upper(Col("id"))),
                            << As(Derived(FromPeople(Col("*")), "q"), "q", << "x", "id" >>) >>),
     cte |-> [Select(One(Upper(Col("note"))), Bare("orders"))
                    EXCEPT !.with = << Cte("orders", FromPeople(Col("email")), << "note" >>) >>],
     cte_alias |-> [Select(One(Upper(Col("note"))), << As(Table("", "b"), "a", Nothing) >>)
                    EXCEPT !.with = << Cte("a", Select(One(Col("note")), OfTable("orders")), Nothing),
                                       Cte("b", FromPeople(Col("email")), << "note" >>) >>],
     cte_aliased |-> [Select(One(Upper(Col("note"))), << As(Table("", "b"), "a", Nothing) >>)
                    EXCEPT !.with = << Cte("b", FromPeople(Upper(Col("email"))), << "note" >>),
                                       Cte("a", Select(One(Col("note")), OfTable("orders")), Nothing) >>],
     union |-> Union,
     view |-> Select(One(Col("note")), OfTable("v_union")),
     view_over |-> Select(One(Col("label")), OfTable("v_over")),
     view_below |-> Select(One(Col("*")),
                               << Derived(Select(One(Col("note")), OfTable("v_union")), "q") >>),
     whole_row |-> FromPeople(Cast(Col("people"))),
     coalesced |-> Select(One(Coalesce(<< Column(<< "o", "note" >>), Literal("none") >>)),
                              << As(Table("public", "orders"), "o", Nothing) >>),
     year |-> FromPeople(Trunc("year", Col("born"))),
     month |-> FromPeople(Trunc("month", Col("born"))),
     unparsed |-> FromPeople(Upper(Col("email"))),
     escaped |-> FromPeople(Col("email"))]

GroupTexts ==
    [by_id |-> GroupedBy(<< Target("", Col("id")), Target("", Count(Col("email"))) >>, << Col("id") >>),
     by_alias |-> GroupedBy(<< Target("k", Col("id")), Target("", Count(Col("email"))) >>, << Col("k") >>),
     by_number |-> GroupedBy(<< Target("", Col("id")), Target("", Count(Col("email"))) >>, << Number(1) >>),
     by_cast |-> GroupedBy(One(Count(Col("email"))), << Cast(Col("id")) >>),
     by_sets |-> GroupedBy(One(Trunc("year", Col("born"))), << GroupingSet(<< Col("id"), Col("born") >>) >>),
     by_born |-> GroupedBy(One(Count(Col("email"))), << Col("born") >>),
     by_wrapped |-> Select(One(Col("*")),
                          << Derived(GroupedBy(One(Count(Col("email"))), << Col("nick") >>), "q") >>),
     by_month |-> [Select(<< Target("", Trunc("month", Col("note"))), Target("", Sum(Col("amount"))) >>,
                              OfTable("orders")) EXCEPT !.group = << Number(1) >>],
     ranked |-> FromPeople(Over(Call(<< "rank" >>, Nothing), Window(Nothing, << Col("email") >>)))]

SurfaceTexts ==
    [oids |-> Select(One(Cast(Col("oid"))), Bare("pg_database")),
     databases |-> Select(One(Col("oid")), Bare("pg_database")),
     spelled |-> Select(One(Cast(Col("oid"))), << Table("pg_catalog", "pg_database") >>),
     classes |-> Select(One(Cast(Col("relname"))), Bare("pg_class")),
     stats |-> Select(One(Col("most_common_vals")), Bare("pg_stats")),
     stats_below |-> Where(FromPeople(Col("id")), Subquery(Select(One(Number(1)), Bare("pg_stats")))),
     shadowed |-> [Select(One(Col("oid")), Bare("pg_class"))
                        EXCEPT !.with = << Cte("pg_class", FromPeople(Col("email")), << "oid" >>) >>],
     below |-> Where(Select(One(Cast(Col("oid"))), << Table("pg_catalog", "pg_class") >>),
                         Subquery(FromPeople(Col("email")))),
     lookup |-> Select(One(Call(<< "pg_get_viewdef" >>, << Number(1) >>)), Nothing),
     xml |-> Select(One(Call(<< "query_to_xml" >>, << Literal("q") >>)), Bare("pg_class")),
     own |-> Select(One(Call(<< "app", "upper" >>, << Col("id") >>)), OfTable("people")),
     show |-> Other("VariableShowStmt", Nothing),
     prepare |-> Other("PrepareStmt", << FromPeople(Col("id")) >>),
     explain |-> Other("ExplainStmt", << FromPeople(Col("email")) >>),
     explained_write |-> Other("ExplainStmt", << Other("InsertStmt", Nothing) >>),
     insert |-> Other("InsertStmt", << FromPeople(Col("id")) >>),
     cte_write |-> [FromPeople(Col("id"))
                          EXCEPT !.with = << Cte("w", Other("InsertStmt", Nothing), Nothing) >>],
     locked |-> Where(FromPeople(Col("id")), Subquery([FromPeople(Col("id")) EXCEPT !.locks = TRUE]))]

HostileTexts ==
    [sorted |-> [FromPeople(Col("email")) EXCEPT !.sort = << Col("email") >>],
     sorted_by |-> [FromPeople(Col("id")) EXCEPT !.sort = << Upper(Col("email")) >>],
     filtered |-> Where(FromPeople(Col("email")), Operator("=", << Col("email"), Literal("a") >>)),
     filtered_id |-> Where(FromPeople(Col("id")), Operator("=", << Col("id"), Number(1) >>)),
     filtered_below |-> Select(One(Col("id")), << Derived(Where(FromPeople(Col("id")), Col("email")), "q") >>),
     computed |-> FromPeople(Count(Col("email"))),
     nested |-> Select(One(Col("email")), << Derived(FromPeople(Col("email")), "q") >>),
     natural |-> Select(One(Column(<< "o", "id" >>)),
                    << Join(Table("public", "people"), As(Table("public", "people"), "o", Nothing), TRUE, Nothing) >>),
     using |-> Select(One(Column(<< "o", "id" >>)),
                    << Join(Table("public", "people"), As(Table("public", "people"), "o", Nothing), FALSE, << "email" >>) >>),
     listed |-> Where(Select(One(Col("x")), Swapped), Col("id")),
     relisted |-> Where(Select(One(Col("x")),
                        << As(Derived(FromPeople(Col("*")), "q"), "q", << "x", "id" >>) >>), Col("id")),
     cte_listed |-> Where([Select(One(Col("x")), Bare("w"))
                        EXCEPT !.with = << Cte("w", FromPeople(Col("*")), << "x", "id" >>) >>], Col("id")),
     row |-> Where(FromPeople(Col("id")), Cast(Col("people"))),
     explained |-> Other("ExplainStmt", << FromPeople(Col("email")) >>),
     unioned |-> Union,
     unread |-> Where(FromPeople(Col("id")), Col("email"))]

\* Statements over a name that two relations have, with its schema and
\* without.
TwinTexts ==
    [twin_listed |-> Where(Select(One(Col("x")), Swapped), Col("id")),
     twin_bare |-> Where(Select(One(Col("x")), << As(Table("", "people"), "p", << "x", "id" >>) >>),
                         Col("id")),
     twin_archived |-> Where(Select(One(Col("x")), << As(Table("archive", "people"), "p", << "x" >>) >>),
                             Col("x")),
     twin_row |-> Where(FromPeople(Col("id")), Cast(Col("people")))]

GatePeople == {Nobody, Ops}

GateDeployment(live, flavour, path, texts) ==
    [live |-> live, flavour |-> flavour, path |-> path, texts |-> texts]

TextGroups == [gates |-> GateTexts, groups |-> GroupTexts, surface |-> SurfaceTexts, hostile |-> HostileTexts,
               twins |-> TwinTexts]

GateDeploy(gate) ==
    Deploy(gate.live, GateDb(gate.flavour, gate.path), GateSpec, DOMAIN TextGroups[gate.texts],
           GatePeople, {"text"}, << >>)

\* A second relation of that name, with no column that is masked.
WithTwin(db) ==
    LET archived == [schema |-> "archive", name |-> "people"]
    IN  [db EXCEPT !.tables = @ @@ (archived :> << "id", "note" >>),
                   !.types = @ @@ Types(archived :> << "id", "note" >>, GateType)]

UsersFirst == << "public", "pg_catalog" >>
CatalogFirst == << "pg_catalog", "public" >>
Strict == [Live EXCEPT !.opaque = "refuse", !.unclassified_mask = "null"]
HostileLive == [Live EXCEPT !.posture = "hostile"]

GateDeployments ==
    [postgres |-> GateDeployment(Live, "postgres", CatalogFirst, "gates"),
     cockroach |-> GateDeployment(Live, "cockroach", CatalogFirst, "gates"),
     open |-> GateDeployment([Strict EXCEPT !.unclassified = "allow"], "cockroach", CatalogFirst, "gates"),
     groups |-> GateDeployment(Live, "postgres", CatalogFirst, "groups"),
     surface |-> GateDeployment(Live, "postgres", UsersFirst, "surface"),
     surface_strict |-> GateDeployment(Strict, "postgres", CatalogFirst, "surface"),
     hostile |-> GateDeployment(HostileLive, "postgres", CatalogFirst, "hostile"),
     twins |-> GateDeployment(HostileLive, "postgres", CatalogFirst, "twins")]

-----------------------------------------------------------------------------
(* The deployments of the masks: one table, its columns by type.           *)

t == Public("t")

TextOf(column) == Select(One(Col(column)), OfTable("t"))
Op(op, right) == Operator(op, << Col("doc"), right >>)
KeyPath(keys) == Array([i \in DOMAIN keys |-> Literal(keys[i])])

MaskTexts ==
    [column \in {"a", "b", "c", "d", "doc"} |-> TextOf(column)]
    @@ [arrow_a |-> Select(One(Op("->", Literal("a"))), OfTable("t")),
        arrow_list |-> Select(One(Operator("->", << Op("->", Literal("list")), Number(0) >>)), OfTable("t")),
        text_a |-> Select(One(Op("->>", Literal("a"))), OfTable("t")),
        text_ab |-> Select(One(Operator("->>", << Op("->", Literal("a")), Literal("b") >>)), OfTable("t")),
        text_ac |-> Select(One(Op("#>>", KeyPath(<< "a", "c" >>))), OfTable("t")),
        text_list |-> Select(One(Op("#>>", KeyPath(<< "list", "0" >>))), OfTable("t")),
        text_item |-> Select(One(Operator("->>", << Op("->", Literal("list")), Number(0) >>)), OfTable("t")),
        text_all |-> Select(One(Op("->>", Literal("list"))), OfTable("t"))]

MaskDb(types, not_null) ==
    LET names == SetToSeq(DOMAIN types)
    IN  [reader |-> "server", tables |-> (t :> names), views |-> << >>, path |-> << "public" >>,
         flavour |-> "postgres",
         types |-> [c \in {<< t, n >> : n \in DOMAIN types} |-> [type |-> types[c[2]], width |-> 0]],
         keys |-> {}, not_null |-> {<< t, n >> : n \in not_null}, system |-> {}, leaky |-> {}]

Values(of) == [c \in {<< t, n >> : n \in DOMAIN of} |-> of[c[2]]]
Rules(masks, params) ==
    [types |-> << >>,
     rules |-> {Rule(t, c, NoDomain, masks[c], params[c], << >>) : c \in DOMAIN masks}]
AllOfType(type) == [c \in {"a", "b", "c", "d"} |-> type]
Everywhere(set) == [c \in {"a", "b", "c", "d"} |-> set]
Columns == {"a", "b", "c", "d"}
BothFormats == {"text", "binary"}
Keep(n) == [keep |-> n]
Window2(start, end) == [start |-> start, end |-> end]

ShortTexts == {Null, << >>, << "x" >>, << "x", "y" >>, << "x", "E", "z" >>}

TextMasks(params) ==
    Deploy(Live, MaskDb(AllOfType("text"), {}),
           Rules([a |-> "partial", b |-> "inner", c |-> "outer", d |-> "range"], params),
           Columns, {Nobody}, {"text"}, Values(Everywhere(ShortTexts)))

Addresses == {[groups |-> << 10, 7 >>, zone |-> FALSE, prefix |-> 32],
              [groups |-> << >>, zone |-> FALSE, prefix |-> 0]}

\* Integers are even counts of halves.  i64::MIN is -8 and i16::MIN -4.
Buckets(size) ==
    Deploy(Live, MaskDb([a |-> "int2", b |-> "int8", c |-> "float8", d |-> "numeric"], {}),
           Rules([c \in Columns |-> "numeric_bucket"], [c \in Columns |-> [bucket |-> size]]),
           Columns, {Nobody}, BothFormats,
           Values([a |-> {-8, -2, 0, 4}, b |-> {-16, -2, 8}, c |-> {-3, 3, Infinity}, d |-> {-4, -1, 7}]))

Instants == {-5, -1, 0, 6, 11, Infinity, 100, Null}

Dates(type, mask, persons) ==
    Deploy(Live, MaskDb([a |-> type], {}), Rules([a |-> mask], [a |-> << >>]),
           {"a"}, persons, BothFormats, Values([a |-> Instants]))

\* Columns that no rule names, three of them NOT NULL.
Fallbacks ==
    Deploy(Live, MaskDb([a |-> "date", b |-> "date", c |-> "text", d |-> "bool"], {"a", "c", "d"}),
           [types |-> << >>, rules |-> {}],
           Columns, {Nobody}, BothFormats,
           Values([a |-> {0, 6, Infinity}, b |-> {6, Infinity}, c |-> {<< "x" >>}, d |-> {TRUE}]))

Mails == {<< "x", "@", "i" >>, << "y", "@", "i" >>, << "x", "@", "j" >>, << "x" >>}

\* a and b are one semantic type, c and d have two more; two uuids.
Links ==
    LET Of(c, type) == Rule(t, c, type, NoDomain, << >>, << >>)
        Type(mask) == [mask |-> mask, params |-> << >>, by_role |-> << >>]
    IN  Deploy(Live, MaskDb([a |-> "text", b |-> "varchar", c |-> "text", d |-> "text"], {}),
               [types |-> [mail |-> Type("pseudonym"), code |-> Type("hash"),
                           login |-> Type("pseudonym")],
                rules |-> {Of("a", "mail"), Of("b", "mail"), Of("c", "code"), Of("d", "login")}],
               Columns, {Nobody}, {"text"}, Values(Everywhere(Mails)))

OtherLinks ==
    LET Of(c, type) == Rule(t, c, type, NoDomain, << >>, << >>)
        Type == [mask |-> "pseudonym", params |-> [keep_domain |-> TRUE], by_role |-> << >>]
    IN  Deploy(Live, MaskDb([a |-> "uuid", b |-> "uuid", c |-> "text", d |-> "uuid"], {}),
               [types |-> [person |-> Type, mail |-> Type],
                rules |-> {Of("a", "person"), Of("b", "person"), Of("c", "mail")}],
               Columns, {Nobody}, BothFormats,
               Values([a |-> {<< "0", "a" >>, << "1", "b" >>}, b |-> {<< "0", "a" >>},
                       c |-> {<< "x", "@", "i" >>}, d |-> {<< "0", "a" >>}]))

Roles ==
    Deploy(Live, MaskDb([a |-> "text", b |-> "text"], {}),
           [types |-> ("name" :> [mask |-> "partial", params |-> << >>, by_role |-> ("ops" :> "none")]),
            rules |-> {Rule(t, "a", "name", NoDomain, << >>, ("dev" :> "null")),
                       Rule(t, "b", "name", NoDomain, << >>, ("dev" :> "none" @@ "ops" :> "null"))}],
           {"a", "b"}, {Nobody, Dev, Ops, Both}, {"text"},
           Values([a |-> {<< "x", "y" >>}, b |-> {<< "x", "y" >>}]))

-----------------------------------------------------------------------------
(* Documents.                                                              *)

AtKey(value) == [value |-> value, by |-> "key"]
AtIndex(value) == [value |-> value, by |-> "index"]
Str(v) == Scalar("string", v)

\* {"a": {"b": "xyz", "c": "yz"}, "list": [{"b": "x"}, 3]}, the same names
\* the other way round, {"a": "xy", "list": {"0": "yx"}}, and a list in a
\* list, {"list": [["y"]]}.
Documents ==
    {(<< AtKey("a"), AtKey("b") >> :> Str(<< "x", "y", "z" >>)
      @@ << AtKey("a"), AtKey("c") >> :> Str(<< "y", "z" >>)
      @@ << AtKey("list"), AtIndex("0"), AtKey("b") >> :> Str(<< "x" >>)
      @@ << AtKey("list"), AtIndex("1") >> :> Scalar("number", 6)),
     (<< AtKey("a") >> :> Str(<< "x", "y" >>)
      @@ << AtKey("list"), AtKey("0") >> :> Str(<< "y", "x" >>)),
     (<< AtKey("list"), AtIndex("0"), AtIndex("0") >> :> Str(<< "y" >>))}

Pointer(at, mask) == [at |-> at, mask |-> mask, params |-> << >>]

JsonColumn(params) ==
    [Deploy(Live, MaskDb([doc |-> "jsonb"], {}),
           [types |-> << >>, rules |-> {Rule(t, "doc", NoDomain, "json", params, << >>)}],
           {"doc", "arrow_a", "arrow_list", "text_a", "text_ab", "text_ac", "text_list", "text_item",
            "text_all"},
           {Nobody}, {"text"}, Values([doc |-> Documents])) EXCEPT !.compared = 1]

MaskDeployments ==
    [texts |-> TextMasks([a |-> Keep(2), b |-> Keep(1), c |-> Keep(1), d |-> Window2(1, 2)]),
     empty_window |-> TextMasks([a |-> Keep(0), b |-> Keep(0), c |-> Keep(1), d |-> Window2(1, 1)]),
     nothing_kept |-> TextMasks([a |-> Keep(0), b |-> Keep(0), c |-> Keep(0), d |-> Window2(1, 3)]),
     addresses |-> Deploy(Live, MaskDb([a |-> "inet", b |-> "text"], {}),
                          Rules([a |-> "ip_prefix", b |-> "scrub"], [a |-> << >>, b |-> << >>]),
                          {"a", "b"}, {Nobody}, {"text"}, Values([a |-> Addresses, b |-> ShortTexts])),
     buckets |-> Buckets(3), halves |-> Buckets(1), pairs |-> Buckets(2),
     dates |-> Dates("date", "date_month", {Nobody}),
     moments |-> Dates("timestamptz", "date_year", {Nobody, Abroad}), fallbacks |-> Fallbacks, links |-> Links, other_links |-> OtherLinks,
     roles |-> Roles,
     pointers |-> JsonColumn([json |-> << Pointer(<< "a" >>, "none"), Pointer(<< "a", "b" >>, "redact"),
                                          Pointer(<< "list", "*" >>, "null"),
                                          Pointer(<< "list", "0" >>, "partial") >>]),
     keyed |-> JsonColumn([json_unlisted |-> "pass_through",
                           json |-> << Pointer(<< "list" >>, "none") >>,
                           json_keys |-> << Pointer("b", "null"), Pointer("c", "none") >>]),
     shapes |-> JsonColumn([json_unlisted |-> "shape_only",
                            json |-> << Pointer(<< "list", "*", "b" >>, "partial") >>]),
     tied |-> JsonColumn([json |-> << Pointer(<< "list", "*", "0" >>, "redact"),
                                      Pointer(<< "list", "0", "*" >>, "none") >>])]

\* The statements as texts: two that pg_query does not parse, one with
\* escapes that the scanner refuses.
AllTexts ==
    LET Read(statements) ==
            [name \in DOMAIN statements |->
                [Inspect(statements[name], name \notin {"unparsed", "unread"})
                    EXCEPT !.scans = name # "escaped"]]
    IN  Evaluated(Read(GateTexts @@ GroupTexts @@ SurfaceTexts @@ HostileTexts @@ TwinTexts
                           @@ MaskTexts))

AllDeployments ==
    LET Gates(gates) ==
            [name \in DOMAIN gates |->
                [GateDeploy(gates[name]) EXCEPT !.db = IF name = "twins" THEN WithTwin(@) ELSE @]]
        All(sketches) == [name \in DOMAIN sketches |-> Deployed(sketches[name])]
    IN  Evaluated(All(Gates(GateDeployments) @@ MaskDeployments))

\* TLC's coverage does not expand the body of a LET at every use of a constant.
MCTexts == LET texts == AllTexts IN texts
MCDeployments == LET deployments == AllDeployments IN deployments
=============================================================================
