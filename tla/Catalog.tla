------------------------------ MODULE Catalog ------------------------------
(* Resolving the catalog while the database changes under it.              *)
(*                                                                         *)
(* resolve_snapshot asks five questions, each a statement of its own with  *)
(* no transaction around them, so DDL may land between any two: a snapshot *)
(* may be torn.  The list of views and their definitions come from one     *)
(* statement, but pg_get_viewdef looks every view up as it stands then,    *)
(* and fails on one dropped since the scan.                                *)
(*                                                                         *)
(* The Catalog::apply mutex makes resolutions one at a time: job is the    *)
(* one under way.  PolicyReload has the mutex, the refresher's schedule    *)
(* and what the sessions see of a swap.                                    *)
EXTENDS CatalogSnapshot

CONSTANTS
    Relations,      \* the relations there may be
    Shapes,         \* the definitions a relation may be created with
    FirstDb,        \* the database at first
    Specs,          \* the [rules, types] that a config file may hold
    None, Dropped,  \* no relation or rules; a dropped column
    Columns,        \* the names a column may have
    NewNames,       \* those that one may be renamed to or added under
    BackoffSteps,   \* entries of BACKOFF_MS: how often a race is retried
    MaxDdl,         \* DDL statements
    MaxReloads,     \* reloads that change the rules
    MaxFailures     \* resolutions that fail for want of a connection

\* What the database keeps of a relation (external).
Definitions == {None, Unreadable} \cup [reads : SUBSET Relations, setop : BOOLEAN]
Indexes ==
    [columns : SUBSET Nat, included : SUBSET Nat, expressions : SUBSET Nat, predicate : SUBSET Nat]
Tables ==
    [oid : Nat, cols : Seq(Columns \cup {Dropped}), def : Definitions, indexes : SUBSET Indexes]

LiveAttnums(table) == {a \in DOMAIN table.cols : table.cols[a] # Dropped}

\* What an index goes with: INCLUDE columns, too.
DependsOn(index) ==
    index.columns \cup index.included \cup index.expressions \cup index.predicate

\* No two columns share a name, and an index has a key and depends on live
\* columns only.
WellFormed(table) ==
    /\ table \in Tables
    /\ \A a, b \in LiveAttnums(table) : table.cols[a] = table.cols[b] => a = b
    /\ \A index \in table.indexes :
           /\ index.columns \cup index.expressions # {}
           /\ DependsOn(index) \subseteq LiveAttnums(table)

\* The OIDs below it belong to the relations of FirstDb.
FirstFreeOid == 100

ASSUME CatalogAssumption ==
    /\ IsFiniteSet(Relations)
    /\ None \notin Tables \cup Specs /\ Dropped \notin Columns
    /\ NewNames \subseteq Columns
    /\ BackoffSteps \in Nat /\ MaxDdl \in Nat /\ MaxReloads \in Nat /\ MaxFailures \in Nat
    /\ \A r \in Relations : \A shape \in Shapes[r] : WellFormed(shape)
    /\ FirstDb \in [Relations -> Tables \cup {None}]
    /\ \A r \in Relations :
           FirstDb[r] # None => WellFormed(FirstDb[r]) /\ FirstDb[r].oid < FirstFreeOid
    /\ \A r, q \in Relations :
           r # q /\ FirstDb[r] # None /\ FirstDb[q] # None => FirstDb[r].oid # FirstDb[q].oid

VARIABLES
    db,         \* the database: what every relation is now
    ddl,        \* DDL statements so far, which also numbers the OIDs
    drops,      \* relations dropped so far
    spec,       \* Catalog::spec
    snapshot,   \* Catalog::snapshot
    job,        \* the resolution under way
    told,       \* where the log says every column is classified
    reloads, failures,
    touched,    \* relations altered since the job, or the snapshot's, began
    ever        \* every [relation, column, key] there ever was

vars ==
    << db, ddl, drops, spec, snapshot, job, told, reloads, failures, touched, ever >>

NoJob == [stage |-> "idle"]

\* Before the first resolution, when there is no Catalog.
NoSnapshot == [resolved |-> FALSE]

-----------------------------------------------------------------------------
(* The database (external).                                                *)

Live == {r \in Relations : db[r] # None}
Views == {r \in Live : db[r].def # None}

RowsOf(r, table) ==
    {[relation |-> r, column |-> table.cols[a], key |-> << table.oid, a >>] :
        a \in LiveAttnums(table)}

Rows(relations) == UNION {RowsOf(r, db[r]) : r \in relations \cap Live}

\* An index holds attribute numbers; the query joins them with the names.
IndexNames(table, attnums) == {Fold(table.cols[a]) : a \in attnums \cap LiveAttnums(table)}

IndexKey(table, index) ==
    KeyColumns([columns |-> IndexNames(table, index.columns),
                included |-> IndexNames(table, index.included),
                expressions |-> IndexNames(table, index.expressions),
                predicate |-> IndexNames(table, index.predicate)])

UniqueKeys ==
    UNION {{IndexKey(db[r], index) : index \in db[r].indexes} : r \in Live} \ {{}}

\* The definitions under their names in lower case.  Of two views with one
\* such name the map keeps whichever row comes last.
DefsOf(views) ==
    LET names == {FoldRelation(r) : r \in views}
        kept == {pick \in [names -> views] : \A v \in names : FoldRelation(pick[v]) = v}
    IN  {[v \in names |-> db[pick[v]].def] : pick \in kept}

Alters(r, table) ==
    /\ ddl < MaxDdl
    /\ db' = [db EXCEPT ![r] = table]
    /\ ddl' = ddl + 1
    /\ touched' = [of \in DOMAIN touched |-> touched[of] \cup {r}]
    /\ ever' = ever \cup (IF table = None THEN {} ELSE RowsOf(r, table))
    /\ UNCHANGED << spec, snapshot, job, told, reloads, failures >>

Create(r, shape) ==
    /\ r \notin Live
    /\ Alters(r, [shape EXCEPT !.oid = FirstFreeOid + ddl])
    /\ UNCHANGED drops

Readers(r) == {v \in Views : db[v].def # Unreadable /\ r \in db[v].def.reads}

Drop(r) ==
    /\ r \in Live /\ Readers(r) = {}
    /\ Alters(r, None)
    /\ drops' = drops + 1

\* CREATE OR REPLACE VIEW keeps the OID.
Replace(r, shape) ==
    /\ r \in Views
    /\ shape.cols = db[r].cols /\ shape.def \notin {None, db[r].def}
    /\ Alters(r, [shape EXCEPT !.oid = db[r].oid])
    /\ UNCHANGED drops

\* The indexes that depend on the column go with it.
WithoutColumn(table, a) ==
    [table EXCEPT
        !.cols[a] = Dropped,
        !.indexes = {i \in @ : a \notin DependsOn(i)}]

DropColumn(r, a) ==
    /\ r \in Live \ Views
    /\ \A v \in Readers(r) : db[r].cols[a] \notin Range(db[v].cols)
    /\ Alters(r, WithoutColumn(db[r], a))
    /\ UNCHANGED drops

RenameColumn(r, a, c) ==
    /\ c \notin Range(db[r].cols)
    /\ Alters(r, [db[r] EXCEPT !.cols[a] = c])
    /\ UNCHANGED drops

AddColumn(r, c) ==
    /\ r \in Live \ Views
    /\ c \notin Range(db[r].cols)
    /\ Alters(r, [db[r] EXCEPT !.cols = Append(@, c)])
    /\ UNCHANGED drops

Ddl ==
    \E r \in Relations :
        \/ \E shape \in Shapes[r] : Create(r, shape) \/ Replace(r, shape)
        \/ Drop(r)
        \/ /\ r \in Live
           /\ \/ \E a \in LiveAttnums(db[r]) :
                     DropColumn(r, a) \/ \E c \in NewNames : RenameColumn(r, a, c)
              \/ \E c \in NewNames : AddColumn(r, c)

-----------------------------------------------------------------------------

Init ==
    /\ db = FirstDb
    /\ ddl = 0 /\ drops = 0 /\ reloads = 0 /\ failures = 0
    /\ spec = None /\ snapshot = NoSnapshot /\ job = NoJob
    /\ told = << >>
    /\ touched = [job |-> {}, snapshot |-> {}]
    /\ ever = Rows(Live)

-----------------------------------------------------------------------------
(* A resolution begins.                                                    *)

\* validate_unique_column_rules, which compares the names in lower case.
UniqueColumnRules(rules) ==
    \A rule, other \in rules :
        rule # other => << FoldRelation(rule.relation), Fold(rule.column) >>
                            # << FoldRelation(other.relation), Fold(other.column) >>

At(stage) == job.stage = stage

Attempt(purpose, rules, retries) ==
    /\ job' = [stage |-> "columns", purpose |-> purpose, spec |-> rules, retries |-> retries]
    /\ touched' = [touched EXCEPT !.job = {}]

\* Catalog::resolve, of the first policy or of a process started anew.
StartsUp(file) ==
    /\ At("idle") /\ snapshot = NoSnapshot
    /\ UniqueColumnRules(file.rules)
    /\ Attempt("startup", file, 0)
    /\ UNCHANGED << db, ddl, drops, spec, snapshot, told, reloads, failures, ever >>

\* Catalog::refresh, by the timer or for a session that met an unknown OID.
Refreshes ==
    /\ At("idle") /\ snapshot # NoSnapshot
    /\ Attempt("refresh", spec, 0)
    /\ UNCHANGED << db, ddl, drops, spec, snapshot, told, reloads, failures, ever >>

\* Catalog::replace_spec; spec_matches spares a file that changes no rule.
Reloads(file) ==
    /\ At("idle") /\ snapshot # NoSnapshot
    /\ reloads < MaxReloads
    /\ UniqueColumnRules(file.rules) /\ file # spec
    /\ Attempt("reload", file, 0)
    /\ reloads' = reloads + 1
    /\ UNCHANGED << db, ddl, drops, spec, snapshot, told, failures, ever >>

-----------------------------------------------------------------------------
(* The five statements of resolve_snapshot.                                *)

Proceeds(stage, answer) ==
    /\ job' = [f \in DOMAIN job \cup DOMAIN answer |->
                  IF f = "stage" THEN stage ELSE IF f \in DOMAIN answer THEN answer[f] ELSE job[f]]
    /\ UNCHANGED << db, ddl, drops, spec, snapshot, told, reloads, failures, touched, ever >>

\* The system catalogs' OIDs, which no DDL moves, and every user column.
ReadsColumns ==
    /\ At("columns")
    /\ Proceeds("views", [columns |-> Rows(Live)])

\* The scan of pg_class for views.
ScansViews ==
    /\ At("views")
    /\ Proceeds("defs", [scanned |-> {<< r, db[r].oid >> : r \in Views}])

StillThere(views) == \A v \in views : v[1] \in Live /\ db[v[1]].oid = v[2]

\* pg_get_viewdef on every view of the scan.
ReadsDefinitions ==
    /\ At("defs")
    /\ StillThere(job.scanned)
    /\ \E defs \in DefsOf({v[1] : v \in job.scanned}) :
           Proceeds("keys", [opaque |-> OpaqueViews(defs)])

ReadsKeys ==
    /\ At("keys")
    /\ Proceeds("rules", [keys |-> UniqueKeys])

-----------------------------------------------------------------------------
(* A resolution ends.                                                      *)

Ends == job' = NoJob /\ UNCHANGED << db, ddl, drops, reloads, ever >>

\* The old snapshot stays, or the process does not start.
Fails == Ends /\ UNCHANGED << spec, snapshot, told, touched >>

\* Mutant: every race is the last: the attempts are not repeated.
RacesGivesUp ==
    /\ At("defs")
    /\ ~ StillThere(job.scanned)
    /\ Fails /\ UNCHANGED failures

\* is_concurrent_ddl_race: retried from the first statement until the
\* backoff table is used up.
Races ==
    /\ At("defs")
    /\ ~ StillThere(job.scanned)
    /\ \/ /\ job.retries < BackoffSteps
          /\ Attempt(job.purpose, job.spec, job.retries + 1)
          /\ UNCHANGED << db, ddl, drops, spec, snapshot, told, reloads, failures, ever >>
       \/ job.retries = BackoffSteps /\ Fails /\ UNCHANGED failures

\* The connection fails, before or between the statements.
Disconnects ==
    /\ ~ At("idle")
    /\ failures < MaxFailures
    /\ failures' = failures + 1
    /\ Fails

RuleRows == Rows({rule.relation : rule \in job.spec.rules})

\* classify of every rule of every file, which depends on nothing else.
Classified == [file \in Specs |-> [rule \in file.rules |-> Classify(rule, file.types)]]

NextSnapshot ==
    SnapshotFrom(job.spec, Classified[job.spec], job.columns, job.opaque, job.keys, RuleRows)

\* What somebody who reads the log, and knows the rules in force, believes
\* after these lines.
Heard(changes) ==
    LET gone == {c.column : c \in {d \in changes : d.change = Lost}}
        placed == {c \in changes : c.change # Lost}
        ruled == {NameOf(rule) : rule \in job.spec.rules}
    IN  [column \in ((DOMAIN told \cap ruled) \ gone) \cup {c.column : c \in placed} |->
            IF \E c \in placed : c.column = column
            THEN (CHOOSE c \in placed : c.column = column).after
            ELSE told[column]]

\* install_snapshot, then the store of the spec.
Installs(next) ==
    /\ told' = IF snapshot = NoSnapshot THEN DisplayIndex(next.names)
               ELSE Heard(CoverageChanges(job.spec.rules, snapshot, next))
    /\ snapshot' = next
    /\ spec' = job.spec
    /\ touched' = [touched EXCEPT !.snapshot = touched.job]

\* Mutant: a refresh, too, refuses a catalog with an unresolved rule.
RefusesUnresolvedAlways(next) == next.unresolved # {}

\* Only the first resolution insists that every rule names a column.
RefusesUnresolved(next) == job.purpose = "startup" /\ next.unresolved # {}

ReadsRules ==
    /\ At("rules")
    /\ Ends /\ UNCHANGED failures
    /\ \E next \in {NextSnapshot} :
          IF ClassifyFails(job.spec, Classified[job.spec], RuleRows) \/ RefusesUnresolved(next)
          THEN UNCHANGED << spec, snapshot, told, touched >>
          ELSE Installs(next)

Resolves == ReadsColumns \/ ScansViews \/ ReadsDefinitions \/ ReadsKeys \/ ReadsRules

Next ==
    \/ Ddl
    \/ \E file \in Specs : StartsUp(file) \/ Reloads(file)
    \/ Refreshes
    \/ Resolves
    \/ Races
    \/ Disconnects

Spec == Init /\ [][Next]_vars

\* The refresher's timer fires again and again, and a resolution that is not
\* cut off goes on; nobody need start the process, reload it or alter the
\* database.
Fairness == WF_vars(Resolves \/ Races) /\ WF_vars(Refreshes)

FairSpec == Spec /\ Fairness

-----------------------------------------------------------------------------
(* Properties.                                                             *)

\* The type invariant: what is published is whole, and no column has two
\* places.
TypeOK ==
    /\ ddl \in 0 .. MaxDdl /\ drops \in 0 .. ddl
    /\ reloads \in 0 .. MaxReloads /\ failures \in 0 .. MaxFailures
    /\ job.stage \in {"idle", "columns", "views", "defs", "keys", "rules"}
    /\ job.stage # "idle" => job.retries \in 0 .. BackoffSteps /\ job.spec \in Specs
    /\ touched.job \subseteq Relations /\ touched.snapshot \subseteq Relations
    /\ (snapshot = NoSnapshot) <=> (spec = None)
    /\ snapshot # NoSnapshot =>
        /\ DOMAIN snapshot.by_column = DOMAIN snapshot.names
        /\ Refused \notin Range(snapshot.by_column) \cup Range(snapshot.by_name)
        /\ IsInjective(snapshot.names)

\* No other relation, now or when the snapshot was taken, has a name that
\* folds to that of r, so the maps keyed by name are about r alone.
Unambiguous(r) ==
    \A q \in (Live \cup touched.snapshot) \ {r} : FoldRelation(q) # FoldRelation(r)

\* What the rules of a file say of a relation as the database has it.
Governed(file, r, table) ==
    LET covered == {a \in IF table = None THEN {} ELSE LiveAttnums(table) :
                        \E rule \in file.rules : NameOf(rule) = << r, table.cols[a] >>}
    IN  [key \in {<< table.oid, a >> : a \in covered} |->
            Classified[file][CHOOSE rule \in file.rules :
                                 NameOf(rule) = << r, table.cols[key[2]] >>]]

\* What a snapshot says of it, by OID.
Said(s, r) == [key \in {k \in DOMAIN s.names : s.names[k][1] = r} |-> s.by_column[key]]

\* The columns of the relation and their rules, found by its name.
SaidByName(s, file, r, table) ==
    /\ table # None /\ LiveAttnums(table) # {} =>
        /\ FoldRelation(r) \in DOMAIN s.relation_columns
        /\ s.relation_columns[FoldRelation(r)]
               = {Fold(table.cols[a]) : a \in LiveAttnums(table)}
        /\ \A a \in LiveAttnums(table) :
               << table.oid, a >> \in DOMAIN Governed(file, r, table)
                   => LookupByName(s, r, table.cols[a])
                          = Governed(file, r, table)[<< table.oid, a >>]
    /\ table = None => FoldRelation(r) \notin DOMAIN s.relation_columns

ExactOn(r) ==
    /\ Said(snapshot, r) = Governed(spec, r, db[r])
    /\ Unambiguous(r) => SaidByName(snapshot, spec, r, db[r])

\* However DDL on other relations tore the five reads apart, a relation that
\* nobody altered since the attempt began is classified exactly as its rules
\* say, by OID and by name (resolve_snapshot, catalog.rs).
UntouchedAreExact ==
    snapshot # NoSnapshot => \A r \in Relations \ touched.snapshot : ExactOn(r)

\* A torn snapshot never gives a column the policy of another: every place
\* that it classifies once held the column its rule names.  The OIDs of a
\* recreated relation and the attribute numbers of dropped columns are what
\* it is about.
PlacesWereTrue ==
    snapshot # NoSnapshot =>
        \A key \in DOMAIN snapshot.names :
            [relation |-> snapshot.names[key][1], column |-> snapshot.names[key][2], key |-> key]
                \in ever

\* What a snapshot says of a place is true of it, however DDL raced with the
\* five reads: exact where nothing was altered, and never another column's
\* policy where something was.
SnapshotsAreTrue == TypeOK /\ UntouchedAreExact /\ PlacesWereTrue

ReadBy(r) == IF r \in Views /\ db[r].def # Unreadable THEN db[r].def.reads ELSE {}

\* Everything a relation reads, itself included, by paths of any length: what
\* is in every set of relations that has it and whatever its members read.
Below(r) ==
    {q \in Relations :
        \A S \in SUBSET Relations : r \in S /\ (\A p \in S : ReadBy(p) \subseteq S) => q \in S}

\* No view hides a set operation: when neither a view nor anything below it
\* was altered since the attempt began, a union or an unreadable definition
\* anywhere below makes it opaque (Snapshot::opaque_views, catalog.rs).  Of
\* two views whose names differ only in case the map of definitions keeps
\* one, and the other's union is missed: see ViewsAreApart.
NoViewHidesAUnion ==
    snapshot # NoSnapshot =>
        \A r \in Views :
            /\ Below(r) \cap touched.snapshot = {}
            /\ \E q \in Below(r) \cap Views : ~ ProvenanceIsTrustworthy(db[q].def)
            => RelationIsOpaqueView(snapshot, r)

MayBeView(r) ==
    \/ FirstDb[r] # None /\ FirstDb[r].def # None
    \/ \E shape \in Shapes[r] : shape.def # None

\* No two views share a name in lower case.
ViewsAreApart ==
    \A q, r \in Relations :
        MayBeView(q) /\ MayBeView(r) /\ FoldRelation(q) = FoldRelation(r) => q = r

\* The gap the code documents: a partial index on nothing but expressions.
IsKnownGap(index) == index.predicate # {} /\ index.columns = {}

NoticesGroupsBy(table, attnums) ==
    GroupingCoversAUniqueKey(snapshot, IndexNames(table, attnums))

\* A GROUP BY over the key of a unique index of an unaltered table, whose
\* rows are alone in their groups, is noticed, save for the known gap.  The
\* code keeps this for indexes that include no further columns only: the key
\* of UNIQUE (a) INCLUDE (b) is taken to be a and b (resolve_snapshot).
GroupsOfOneAreNoticed ==
    snapshot # NoSnapshot =>
        \A r \in Live \ touched.snapshot : \A index \in db[r].indexes :
            \/ IsKnownGap(index)
            \/ NoticesGroupsBy(db[r], index.columns \cup index.expressions)

\* The same of a GROUP BY over the included columns as well, where there are
\* any: the key the code knows is never wider than that.
GroupsByWholeIndexesAreNoticed ==
    snapshot # NoSnapshot =>
        \A r \in Live \ touched.snapshot : \A index \in db[r].indexes :
            \/ IsKnownGap(index)
            \/ NoticesGroupsBy(db[r], index.columns \cup index.included \cup index.expressions)

\* Of what the planner asks before it trusts a provenance or releases a
\* summary, a snapshot knows every view over a set operation, if no other
\* view has its name in lower case, and the key of every unique index that
\* is not the known gap; of an index that includes further columns it knows
\* only that groups by all of them are single rows (resolve_snapshot).
ViewsAndKeysAreKnown == (ViewsAreApart => NoViewHidesAUnion) /\ GroupsByWholeIndexesAreNoticed

\* Whoever follows the log lines of moved, lost and restored coverage, and
\* knows the rules in force, knows exactly which columns are classified and
\* where, across refreshes, reloads and failures in between
\* (coverage_changes, install_snapshot).
LogTellsCoverage == snapshot # NoSnapshot => told = DisplayIndex(snapshot.names)

Classifies(file) == Refused \notin Range(Classified[file])

\* Once the database stays as it is, the catalog becomes right and stays so,
\* if every rule of the file classifies.
CoverageCatchesUp ==
    <>[](\/ snapshot = NoSnapshot
         \/ ~ Classifies(spec)
         \/ \A r \in Relations : ExactOn(r))

\* A view dropped at the wrong instant is ridden out: a resolution of a good
\* file over an answering database fails only when more relations were
\* dropped than the backoff table has entries, or at startup for want of a
\* column (resolve_snapshot_retrying).
RacesAreRidden ==
    [][At("defs") /\ job' = NoJob => drops > BackoffSteps \/ failures' # failures]_vars
=============================================================================
