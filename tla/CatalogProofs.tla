---------------------------- MODULE CatalogProofs ----------------------------
(* Proofs about Catalog, for every database, every set of files and every   *)
(* bound.                                                                   *)
EXTENDS Catalog, FiniteSetTheorems, SequenceTheorems, Iteration, TLAPS

-----------------------------------------------------------------------------
(* The inductive invariant.                                                 *)

\* The database is one that PostgreSQL keeps, and no OID is given twice.
Sound ==
    /\ ddl \in 0 .. MaxDdl /\ drops \in 0 .. ddl
    /\ db \in [Relations -> Tables \cup {None}]
    /\ \A r \in Relations : db[r] # None => WellFormed(db[r]) /\ db[r].oid < FirstFreeOid + ddl
    /\ \A r, q \in Live : db[r].oid = db[q].oid => r = q
    /\ \A r \in Views : MayBeView(r)

\* History has every row there is.
Remembered == \A r \in Live : RowsOf(r, db[r]) \subseteq ever

Stages == {"columns", "views", "defs", "keys", "rules"}

\* What a resolution has gathered when it comes to a stage.
Gathered ==
    [columns |-> {}, views |-> {"columns"}, defs |-> {"columns", "scanned"},
     keys |-> {"columns", "scanned", "opaque"},
     rules |-> {"columns", "scanned", "opaque", "keys"}]

\* A file that a resolution may be for.
Resolvable(file) == file \in Specs /\ UniqueColumnRules(file.rules)

\* The resolution under way: each race lost so far was lost to a drop of its
\* own, and so is the one about to be lost.
Underway ==
    /\ job.stage \in Stages
    /\ DOMAIN job = {"stage", "purpose", "spec", "retries"} \cup Gathered[job.stage]
    /\ Resolvable(job.spec)
    /\ job.retries \in 0 .. BackoffSteps /\ job.retries <= drops
    /\ At("defs") => StillThere(job.scanned) \/ job.retries < drops

\* A set of names that knows every view but some: each is opaque, or both
\* trustworthy and free of opaque names.
KnowsViews(opaque, altered) ==
    \A r \in Views \ altered :
        \/ FoldRelation(r) \in opaque
        \/ /\ ProvenanceIsTrustworthy(db[r].def)
           /\ ~ NamesOneOf(ReferencedIdentifiers(db[r].def), opaque)

\* What it has read of a relation that nobody altered is still so.
ReadTruly ==
    /\ "columns" \in DOMAIN job =>
        /\ \A row \in job.columns : row.relation \in Relations
        /\ \A r \in Relations \ touched.job :
               {row \in job.columns : row.relation = r} = Rows({r})
    /\ "scanned" \in DOMAIN job =>
        /\ \A v \in job.scanned : v[1] \in Relations /\ MayBeView(v[1])
        /\ \A r \in Views \ touched.job : \E v \in job.scanned : v[1] = r
    /\ "opaque" \in DOMAIN job => (ViewsAreApart => KnowsViews(job.opaque, touched.job))
    /\ "keys" \in DOMAIN job =>
        \A r \in Live \ touched.job : \A index \in db[r].indexes :
            IndexKey(db[r], index) # {} => IndexKey(db[r], index) \in job.keys

\* The snapshot has a key for every index of a relation nobody altered.
KeysAreKnown ==
    \A r \in Live \ touched.snapshot : \A index \in db[r].indexes :
        IndexKey(db[r], index) # {} => IndexKey(db[r], index) \in snapshot.unique_keys

\* One place for every column.
PlacesAreDistinct ==
    /\ DOMAIN snapshot.by_column = DOMAIN snapshot.names
    /\ Refused \notin Range(snapshot.by_column) \cup Range(snapshot.by_name)
    /\ IsInjective(snapshot.names)

Published ==
    snapshot # NoSnapshot =>
        /\ Resolvable(spec)
        /\ PlacesAreDistinct
        /\ PlacesWereTrue
        /\ \A r \in Relations \ touched.snapshot : ExactOn(r)
        /\ KeysAreKnown
        /\ ViewsAreApart => KnowsViews(snapshot.opaque_views, touched.snapshot)
        /\ LogTellsCoverage

IInv ==
    /\ Sound
    /\ Remembered
    /\ job = NoJob \/ (Underway /\ ReadTruly)
    /\ touched \in [{"job", "snapshot"} -> SUBSET Relations]
    /\ reloads \in 0 .. MaxReloads /\ failures \in 0 .. MaxFailures
    /\ (snapshot = NoSnapshot) <=> (spec = None)
    /\ Published

-----------------------------------------------------------------------------
(* What DDL leaves of a relation.                                           *)

\* A definition may be created under any OID.
LEMMA AnyOid ==
    ASSUME NEW table, WellFormed(table), NEW oid \in Nat
    PROVE  /\ WellFormed([table EXCEPT !.oid = oid])
           /\ [table EXCEPT !.oid = oid].oid = oid
           /\ [table EXCEPT !.oid = oid].def = table.def
<1> DEFINE t == [table EXCEPT !.oid = oid]
<1>1. /\ t \in Tables /\ t.oid = oid /\ t.def = table.def
      /\ t.cols = table.cols /\ t.indexes = table.indexes
  BY DEF WellFormed, Tables
<1> HIDE DEF t
<1>2. LiveAttnums(t) = LiveAttnums(table)
  BY <1>1 DEF LiveAttnums
<1>3. WellFormed(t)
  BY <1>1, <1>2 DEF WellFormed
<1> QED BY <1>1, <1>3 DEF t

\* A dropped column takes the indexes that depend on it along.
LEMMA ColumnDropped ==
    ASSUME NEW table, WellFormed(table), NEW a \in LiveAttnums(table)
    PROVE  /\ WellFormed(WithoutColumn(table, a))
           /\ WithoutColumn(table, a).oid = table.oid
           /\ WithoutColumn(table, a).def = table.def
<1> DEFINE t == WithoutColumn(table, a)
<1>0. table.cols \in Seq(Columns \cup {Dropped}) /\ table \in Tables
  BY DEF WellFormed, Tables
<1>1. /\ t.oid = table.oid /\ t.def = table.def /\ t.cols = [table.cols EXCEPT ![a] = Dropped]
      /\ t.indexes = {i \in table.indexes : a \notin DependsOn(i)}
      /\ t \in [oid : Nat, cols : Seq(Columns \cup {Dropped}), def : Definitions, indexes : SUBSET Indexes]
  <2>1. [table.cols EXCEPT ![a] = Dropped] \in Seq(Columns \cup {Dropped})
    <3>1. a \in 1 .. Len(table.cols) /\ Dropped \in Columns \cup {Dropped}
      BY <1>0 DEF LiveAttnums
    <3> QED BY <1>0, <3>1, ExceptSeq, Zenon
  <2>2. {i \in table.indexes : a \notin DependsOn(i)} \in SUBSET Indexes
    BY <1>0 DEF Tables
  <2> QED BY <1>0, <2>1, <2>2 DEF Tables, WithoutColumn
<1> HIDE DEF t
<1>2. LiveAttnums(t) = LiveAttnums(table) \ {a}
  BY <1>0, <1>1 DEF LiveAttnums
<1>3. \A b \in LiveAttnums(t) : t.cols[b] = table.cols[b]
  BY <1>0, <1>1 DEF LiveAttnums
<1>4. \A b, c \in LiveAttnums(t) : t.cols[b] = t.cols[c] => b = c
  BY <1>2, <1>3 DEF WellFormed
<1>5. \A index \in t.indexes :
         /\ index.columns \cup index.expressions # {}
         /\ DependsOn(index) \subseteq LiveAttnums(t)
  BY <1>1, <1>2 DEF WellFormed
<1>6. WellFormed(t) /\ t.oid = table.oid /\ t.def = table.def
  BY <1>1, <1>4, <1>5 DEF WellFormed, Tables
<1> QED BY <1>6 DEF t

\* A column gets a name that no other has.
LEMMA WithColumnRenamed ==
    ASSUME NEW table, WellFormed(table), NEW a \in LiveAttnums(table),
           NEW c \in Columns, c \notin Range(table.cols),
           NEW t, t = [table EXCEPT !.cols[a] = c]
    PROVE  WellFormed(t) /\ t.oid = table.oid /\ t.def = table.def
<1>0. table.cols \in Seq(Columns \cup {Dropped}) /\ table \in Tables
  BY DEF WellFormed, Tables
<1>1. /\ t.oid = table.oid /\ t.def = table.def /\ t.cols = [table.cols EXCEPT ![a] = c]
      /\ t.indexes = table.indexes
      /\ t \in [oid : Nat, cols : Seq(Columns \cup {Dropped}), def : Definitions, indexes : SUBSET Indexes]
  <2>1. [table.cols EXCEPT ![a] = c] \in Seq(Columns \cup {Dropped})
    <3>1. a \in 1 .. Len(table.cols) /\ c \in Columns \cup {Dropped}
      BY <1>0 DEF LiveAttnums
    <3> QED BY <1>0, <3>1, ExceptSeq, Zenon
  <2> QED BY <1>0, <2>1 DEF Tables
<1>2. LiveAttnums(t) = LiveAttnums(table)
  BY <1>0, <1>1, CatalogAssumption DEF LiveAttnums
<1>3. \A b \in LiveAttnums(t) : t.cols[b] = IF b = a THEN c ELSE table.cols[b]
  BY <1>0, <1>1 DEF LiveAttnums
<1>4. \A b, d \in LiveAttnums(t) : t.cols[b] = t.cols[d] => b = d
  BY <1>2, <1>3 DEF WellFormed, LiveAttnums, Range
<1>5. \A index \in t.indexes :
         /\ index.columns \cup index.expressions # {}
         /\ DependsOn(index) \subseteq LiveAttnums(t)
  BY <1>1, <1>2 DEF WellFormed
<1> QED BY <1>1, <1>4, <1>5 DEF WellFormed, Tables

\* So does a column that is added.
LEMMA WithColumnAdded ==
    ASSUME NEW table, WellFormed(table),
           NEW c \in Columns, c \notin Range(table.cols),
           NEW t, t = [table EXCEPT !.cols = Append(@, c)]
    PROVE  WellFormed(t) /\ t.oid = table.oid /\ t.def = table.def
<1> DEFINE last == Len(table.cols) + 1
<1>0. table.cols \in Seq(Columns \cup {Dropped}) /\ table \in Tables
  BY DEF WellFormed, Tables
<1>1. /\ t.oid = table.oid /\ t.def = table.def /\ t.cols = Append(table.cols, c)
      /\ t.indexes = table.indexes
      /\ t \in [oid : Nat, cols : Seq(Columns \cup {Dropped}), def : Definitions, indexes : SUBSET Indexes]
  <2>1. Append(table.cols, c) \in Seq(Columns \cup {Dropped})
    BY <1>0
  <2> QED BY <1>0, <2>1 DEF Tables
<1>2. LiveAttnums(t) = LiveAttnums(table) \cup {last}
  BY <1>0, <1>1, CatalogAssumption DEF LiveAttnums
<1>3. \A b \in LiveAttnums(t) : t.cols[b] = IF b = last THEN c ELSE table.cols[b]
  BY <1>0, <1>1 DEF LiveAttnums
<1>4. \A b, d \in LiveAttnums(t) : t.cols[b] = t.cols[d] => b = d
  BY <1>2, <1>3 DEF WellFormed, LiveAttnums, Range
<1>5. \A index \in t.indexes :
         /\ index.columns \cup index.expressions # {}
         /\ DependsOn(index) \subseteq LiveAttnums(t)
  BY <1>1, <1>2 DEF WellFormed
<1> QED BY <1>1, <1>4, <1>5 DEF WellFormed, Tables

\* What every statement comes to: a relation is dropped, altered under its
\* OID, or created under one that nobody had.
Alteration(r, table) ==
    /\ Alters(r, table)
    /\ \/ table = None /\ drops' = drops + 1
       \/ /\ WellFormed(table) /\ drops' = drops
          /\ table.def # None => MayBeView(r)
          /\ \/ r \in Live /\ table.oid = db[r].oid
             \/ r \notin Live /\ table.oid = FirstFreeOid + ddl

\* Every DDL statement alters one relation: columns, definitions, indexes.
LEMMA DdlAlters ==
    ASSUME Sound, Ddl
    PROVE  \E r \in Relations : \E table \in Tables \cup {None} : Alteration(r, table)
<1>0. /\ \A r \in Live : r \in Relations /\ WellFormed(db[r]) /\ db[r].oid \in Nat
      /\ ddl \in Nat /\ FirstFreeOid + ddl \in Nat
      /\ \A table : WellFormed(table) => table \in Tables
      /\ \A q \in Live : db[q].def # None => MayBeView(q)
  BY CatalogAssumption DEF Sound, Live, Views, WellFormed, Tables, FirstFreeOid
<1>1. PICK r \in Relations :
        \/ \E shape \in Shapes[r] : Create(r, shape) \/ Replace(r, shape)
        \/ Drop(r)
        \/ /\ r \in Live
           /\ \/ \E a \in LiveAttnums(db[r]) :
                     DropColumn(r, a) \/ \E c \in NewNames : RenameColumn(r, a, c)
              \/ \E c \in NewNames : AddColumn(r, c)
  BY DEF Ddl
<1>2. ASSUME NEW shape \in Shapes[r], Create(r, shape)
      PROVE  \E table \in Tables : Alteration(r, table)
  <2>1. /\ WellFormed([shape EXCEPT !.oid = FirstFreeOid + ddl])
        /\ [shape EXCEPT !.oid = FirstFreeOid + ddl].oid = FirstFreeOid + ddl
        /\ [shape EXCEPT !.oid = FirstFreeOid + ddl].def = shape.def
    BY <1>0, AnyOid, CatalogAssumption
  <2> QED BY <1>0, <1>2, <2>1 DEF Create, Alteration, MayBeView
<1>3. ASSUME NEW shape \in Shapes[r], Replace(r, shape)
      PROVE  \E table \in Tables : Alteration(r, table)
  <2>1. r \in Live
    BY <1>3 DEF Replace, Views
  <2>2. /\ WellFormed([shape EXCEPT !.oid = db[r].oid])
        /\ [shape EXCEPT !.oid = db[r].oid].oid = db[r].oid
        /\ [shape EXCEPT !.oid = db[r].oid].def = shape.def
    BY <1>0, <2>1, AnyOid, CatalogAssumption
  <2> QED BY <1>0, <1>3, <2>1, <2>2 DEF Replace, Alteration, MayBeView
<1>4. ASSUME Drop(r)
      PROVE  Alteration(r, None)
  BY <1>4 DEF Drop, Alteration
<1>5. ASSUME r \in Live, NEW a \in LiveAttnums(db[r]), DropColumn(r, a)
      PROVE  \E table \in Tables : Alteration(r, table)
  BY <1>0, <1>5, ColumnDropped DEF DropColumn, Alteration
<1>6. ASSUME r \in Live, NEW a \in LiveAttnums(db[r]), NEW c \in NewNames, RenameColumn(r, a, c)
      PROVE  \E table \in Tables : Alteration(r, table)
  <2> DEFINE t == [db[r] EXCEPT !.cols[a] = c]
  <2>1. WellFormed(t) /\ t.oid = db[r].oid /\ t.def = db[r].def
    BY <1>0, <1>6, WithColumnRenamed, CatalogAssumption DEF RenameColumn
  <2>2. Alters(r, t) /\ drops' = drops
    BY <1>6 DEF RenameColumn
  <2> HIDE DEF t
  <2>3. t \in Tables
    BY <1>0, <2>1
  <2>4. Alteration(r, t)
    BY <1>0, <1>6, <2>1, <2>2 DEF Alteration
  <2> QED BY <2>3, <2>4
<1>7. ASSUME r \in Live, NEW c \in NewNames, AddColumn(r, c)
      PROVE  \E table \in Tables : Alteration(r, table)
  <2> DEFINE t == [db[r] EXCEPT !.cols = Append(@, c)]
  <2>1. WellFormed(t) /\ t.oid = db[r].oid /\ t.def = db[r].def
    BY <1>0, <1>7, WithColumnAdded, CatalogAssumption DEF AddColumn
  <2>2. Alters(r, t) /\ drops' = drops
    BY <1>7 DEF AddColumn
  <2> HIDE DEF t
  <2>3. t \in Tables
    BY <1>0, <2>1
  <2>4. Alteration(r, t)
    BY <1>0, <1>7, <2>1, <2>2 DEF Alteration
  <2> QED BY <2>3, <2>4
<1> QED BY <1>1, <1>2, <1>3, <1>4, <1>5, <1>6, <1>7

\* The database stays sound, and its history complete.
LEMMA AlterationsAreSound ==
    ASSUME Sound, Remembered,
           NEW r \in Relations, NEW table \in Tables \cup {None}, Alteration(r, table)
    PROVE  Sound' /\ Remembered'
<1>1. /\ db' = [db EXCEPT ![r] = table] /\ ddl' = ddl + 1 /\ ddl < MaxDdl
      /\ ever' = ever \cup (IF table = None THEN {} ELSE RowsOf(r, table))
  BY DEF Alteration, Alters
<1>2. /\ db' \in [Relations -> Tables \cup {None}] /\ db'[r] = table
      /\ \A q \in Relations \ {r} : db'[q] = db[q]
  BY <1>1 DEF Sound
<1>3. ddl' \in 0 .. MaxDdl /\ drops' \in 0 .. ddl'
  BY <1>1, CatalogAssumption DEF Sound, Alteration
<1>4. \A q \in Relations \ {r} : q \in Live' <=> q \in Live
  BY <1>2 DEF Live
<1>5. \A q \in Live : db[q].oid \in Nat /\ db[q].oid < FirstFreeOid + ddl
  BY DEF Sound, Live, Tables
<1>6. \A q \in Relations : db'[q] # None => WellFormed(db'[q]) /\ db'[q].oid < FirstFreeOid + ddl'
  <2>1. CASE table = None
    BY <1>1, <1>2, <1>5, <2>1 DEF Sound, Live, FirstFreeOid
  <2>2. CASE table # None
    <3>1. WellFormed(table) /\ table.oid \in Nat /\ table.oid < FirstFreeOid + ddl + 1
      BY <1>5, <2>2 DEF Alteration, Sound, FirstFreeOid, WellFormed, Tables
    <3> QED BY <1>1, <1>2, <1>5, <3>1 DEF Sound, Live, FirstFreeOid
  <2> QED BY <2>1, <2>2
<1>7. \A p, q \in Live' : db'[p].oid = db'[q].oid => p = q
  <2>1. \A p \in Live' : p # r => p \in Live /\ db'[p].oid = db[p].oid
    BY <1>2, <1>4 DEF Live
  <2>2. \A p, q \in Live' : p # r /\ q # r /\ db'[p].oid = db'[q].oid => p = q
    BY <2>1 DEF Sound
  <2>3. \A p \in Live' : p # r /\ r \in Live' => db'[p].oid # db'[r].oid
    BY <1>2, <1>5, <2>1 DEF Sound, Alteration, Live, FirstFreeOid
  <2> QED BY <2>2, <2>3
<1>8. Remembered'
  BY <1>1, <1>2, <1>4 DEF Remembered, Live
<1>9. \A q \in Views' : MayBeView(q)
  BY <1>2, <1>4 DEF Sound, Views, Live, Alteration
<1> QED BY <1>2, <1>3, <1>6, <1>7, <1>8, <1>9 DEF Sound

-----------------------------------------------------------------------------
(* What SnapshotFrom makes of the rows of one instant.                      *)

\* A column that a rule names, by its attribute number.
Holds(rule, a) ==
    /\ rule.relation \in Live
    /\ a \in LiveAttnums(db[rule.relation])
    /\ db[rule.relation].cols[a] = rule.column

RowOf(r, a) ==
    [relation |-> r, column |-> db[r].cols[a], key |-> << db[r].oid, a >>]

RowsNamedBy(rules) == Rows({rule.relation : rule \in rules})

\* What a query returns of a relation is the row of its table.
LEMMA RowsOfRelations ==
    ASSUME NEW S
    PROVE  /\ \A r \in S \cap Live : \A a \in LiveAttnums(db[r]) : RowOf(r, a) \in Rows(S)
           /\ \A row \in Rows(S) : \E r \in S \cap Live : \E a \in LiveAttnums(db[r]) :
                  row = RowOf(r, a)
<1>1. \A r, row : row \in RowsOf(r, db[r]) <=> \E a \in LiveAttnums(db[r]) : row = RowOf(r, a)
  BY DEF RowsOf, RowOf
<1>2. \A row : row \in Rows(S) <=> \E r \in S \cap Live : row \in RowsOf(r, db[r])
  BY DEF Rows
<1>3. ASSUME NEW r \in S \cap Live, NEW a \in LiveAttnums(db[r])
      PROVE  RowOf(r, a) \in Rows(S)
  <2>1. RowOf(r, a) \in RowsOf(r, db[r])
    BY <1>1
  <2> QED BY <1>2, <2>1
<1>4. ASSUME NEW row \in Rows(S)
      PROVE  \E r \in S \cap Live : \E a \in LiveAttnums(db[r]) : row = RowOf(r, a)
  <2>1. PICK r \in S \cap Live : row \in RowsOf(r, db[r])
    BY <1>2
  <2> QED BY <1>1, <2>1
<1> QED BY <1>3, <1>4

\* A rule is located exactly where its column is.
LEMMA RulesAreLocated ==
    ASSUME Sound, NEW rules
    PROVE  /\ \A rule : rule \in DOMAIN Located(rules, RowsNamedBy(rules))
                            <=> rule \in rules /\ \E a : Holds(rule, a)
           /\ \A rule \in rules : \A a :
                  Holds(rule, a)
                      => Located(rules, RowsNamedBy(rules))[rule] = << db[rule.relation].oid, a >>
<1> DEFINE rows == RowsNamedBy(rules)
           At_(row, rule) == << row.relation, row.column >> = NameOf(rule)
           found == {q \in rules : \E row \in rows : At_(row, q)}
<1>1. Located(rules, rows) = [rule \in found |-> (CHOOSE row \in rows : At_(row, rule)).key]
  BY DEF Located
<1>2. \A rule \in rules, row \in rows : At_(row, rule) <=>
          \E a : Holds(rule, a) /\ row = RowOf(rule.relation, a)
  <2> SUFFICES ASSUME NEW rule \in rules, NEW row \in rows
               PROVE  At_(row, rule) <=> \E a : Holds(rule, a) /\ row = RowOf(rule.relation, a)
    OBVIOUS
  <2>1. PICK r \in Live : \E a \in LiveAttnums(db[r]) : row = RowOf(r, a)
    BY RowsOfRelations DEF RowsNamedBy
  <2>2. PICK a \in LiveAttnums(db[r]) : row = RowOf(r, a)
    BY <2>1
  <2>5. row.relation = r /\ row.column = db[r].cols[a]
    BY <2>2 DEF RowOf
  <2>3. ASSUME At_(row, rule)
        PROVE  Holds(rule, a) /\ row = RowOf(rule.relation, a)
    <3>1. r = rule.relation /\ db[r].cols[a] = rule.column
      BY <2>3, <2>5 DEF NameOf
    <3> QED BY <2>2, <3>1 DEF Holds
  <2>4. ASSUME NEW b, Holds(rule, b), row = RowOf(rule.relation, b)
        PROVE  At_(row, rule)
    BY <2>4 DEF Holds, RowOf, NameOf
  <2> QED BY <2>3, <2>4
<1>3. \A rule \in rules : \A a : Holds(rule, a) => RowOf(rule.relation, a) \in rows
  BY RowsOfRelations DEF Holds, RowsNamedBy
<1>4. \A rule \in rules : rule \in found <=> \E a : Holds(rule, a)
  BY <1>2, <1>3
<1>5. ASSUME NEW rule \in rules, NEW a, Holds(rule, a)
      PROVE  Located(rules, rows)[rule] = << db[rule.relation].oid, a >>
  <2> DEFINE chosen == CHOOSE row \in rows : At_(row, rule)
  <2>1. chosen \in rows /\ At_(chosen, rule)
    BY <1>4, <1>5
  <2>2. PICK b : Holds(rule, b) /\ chosen = RowOf(rule.relation, b)
    BY <1>2, <2>1
  <2>3. b = a
    BY <1>5, <2>2 DEF Holds, Sound, Live, WellFormed
  <2>4. Located(rules, rows)[rule] = chosen.key
    BY <1>1, <1>4, <1>5
  <2> HIDE DEF chosen
  <2> QED BY <2>2, <2>3, <2>4 DEF RowOf
<1> HIDE DEF found
<1>6. DOMAIN Located(rules, rows) = found
  BY <1>1
<1>7. \A rule : rule \in found => rule \in rules
  BY DEF found
<1> QED BY <1>4, <1>5, <1>6, <1>7

\* Rules are unique by name, in whatever case, and by place.
FoldedName(rule) == << FoldRelation(rule.relation), Fold(rule.column) >>

\* Rules that name one column, as written or in lower case, are one rule.
LEMMA RulesAreUnique ==
    ASSUME NEW rules, UniqueColumnRules(rules), NEW p \in rules, NEW q \in rules
    PROVE  FoldedName(p) = FoldedName(q) \/ NameOf(p) = NameOf(q) => p = q
<1>1. FoldedName(p) = FoldedName(q) => p = q
  BY DEF UniqueColumnRules, FoldedName
<1>2. NameOf(p) = NameOf(q) => FoldedName(p) = FoldedName(q)
  BY DEF NameOf, FoldedName
<1> QED BY <1>1, <1>2

\* A column is in one place of one table.
LEMMA PlacesAreUnique ==
    ASSUME Sound, NEW rules, UniqueColumnRules(rules),
           NEW p \in rules, NEW q \in rules, NEW a, NEW b, Holds(p, a), Holds(q, b),
           << db[p.relation].oid, a >> = << db[q.relation].oid, b >>
    PROVE  p = q
<1>1. p.relation = q.relation /\ a = b
  BY DEF Sound, Holds
<1>2. NameOf(p) = NameOf(q)
  BY <1>1 DEF Holds, NameOf
<1> QED BY <1>2, RulesAreUnique

\* The two maps of a snapshot, read rule by rule.
SaysOf(s, rules, classified) ==
    /\ \A rule \in rules : \A a :
           Holds(rule, a) =>
               LET key == << db[rule.relation].oid, a >>
               IN  /\ key \in DOMAIN s.names
                   /\ s.names[key] = NameOf(rule)
                   /\ s.by_column[key] = classified[rule]
                   /\ FoldedName(rule) \in DOMAIN s.by_name
                   /\ s.by_name[FoldedName(rule)] = classified[rule]
    /\ \A key \in DOMAIN s.names : \E rule \in rules : \E a :
           Holds(rule, a) /\ key = << db[rule.relation].oid, a >>
    /\ \A name \in DOMAIN s.by_name : \E rule \in rules : \E a :
           Holds(rule, a) /\ name = FoldedName(rule)
    /\ DOMAIN s.by_column = DOMAIN s.names

\* A snapshot says of every rule what the classification said of it.
LEMMA SnapshotsSay ==
    ASSUME Sound, NEW file, UniqueColumnRules(file.rules),
           NEW classified, NEW columns, NEW opaque, NEW keys
    PROVE  SaysOf(SnapshotFrom(file, classified, columns, opaque, keys, RowsNamedBy(file.rules)),
                  file.rules, classified)
<1> DEFINE rules == file.rules
           located == Located(rules, RowsNamedBy(rules))
           found == DOMAIN located
           RuleAt(key) == CHOOSE rule \in found : located[rule] = key
           folded == {FoldedName(rule) : rule \in found}
           RuleFor(name) == CHOOSE rule \in found : FoldedName(rule) = name
           s == SnapshotFrom(file, classified, columns, opaque, keys, RowsNamedBy(rules))
<1>1. /\ s.by_column = [key \in Range(located) |-> classified[RuleAt(key)]]
      /\ s.names = [key \in Range(located) |-> NameOf(RuleAt(key))]
      /\ s.by_name = [name \in folded |-> classified[RuleFor(name)]]
  BY Zenon DEF SnapshotFrom, FoldedName
<1>2. /\ \A rule : rule \in found <=> rule \in rules /\ \E a : Holds(rule, a)
      /\ \A rule \in rules : \A a : Holds(rule, a) => located[rule] = << db[rule.relation].oid, a >>
  BY RulesAreLocated
<1> HIDE DEF located, s
<1>3. \A rule \in found : RuleAt(located[rule]) = rule
  <2> SUFFICES ASSUME NEW rule \in found PROVE RuleAt(located[rule]) = rule
    OBVIOUS
  <2> DEFINE chosen == RuleAt(located[rule])
  <2>1. chosen \in found /\ located[chosen] = located[rule]
    OBVIOUS
  <2> HIDE DEF chosen
  <2>2. chosen = rule
    BY <1>2, <2>1, PlacesAreUnique
  <2> QED BY <2>2 DEF chosen
<1>4. \A rule \in found : RuleFor(FoldedName(rule)) = rule
  <2> SUFFICES ASSUME NEW rule \in found PROVE RuleFor(FoldedName(rule)) = rule
    OBVIOUS
  <2> DEFINE chosen == RuleFor(FoldedName(rule))
  <2>1. chosen \in found /\ FoldedName(chosen) = FoldedName(rule)
    OBVIOUS
  <2> HIDE DEF chosen
  <2>2. chosen = rule
    BY <1>2, <2>1, RulesAreUnique
  <2> QED BY <2>2 DEF chosen
<1> HIDE DEF RuleAt, RuleFor
<1>5. \A key : key \in Range(located) <=> \E rule \in found : key = located[rule]
  BY DEF Range
<1>6. ASSUME NEW rule \in rules, NEW a, Holds(rule, a)
      PROVE  LET key == << db[rule.relation].oid, a >>
             IN  /\ key \in DOMAIN s.names
                 /\ s.names[key] = NameOf(rule)
                 /\ s.by_column[key] = classified[rule]
                 /\ FoldedName(rule) \in DOMAIN s.by_name
                 /\ s.by_name[FoldedName(rule)] = classified[rule]
  <2>1. rule \in found /\ located[rule] = << db[rule.relation].oid, a >>
    BY <1>2, <1>6
  <2> QED BY <1>1, <1>3, <1>4, <1>5, <2>1
<1>7. ASSUME NEW key \in DOMAIN s.names
      PROVE  \E rule \in rules : \E a : Holds(rule, a) /\ key = << db[rule.relation].oid, a >>
  <2>1. PICK rule \in found : key = located[rule]
    BY <1>1, <1>5
  <2>2. PICK a : rule \in rules /\ Holds(rule, a)
    BY <1>2
  <2> QED BY <1>2, <2>1, <2>2
<1>8. ASSUME NEW name \in DOMAIN s.by_name
      PROVE  \E rule \in rules : \E a : Holds(rule, a) /\ name = FoldedName(rule)
  BY <1>1, <1>2
<1>9. DOMAIN s.by_column = DOMAIN s.names
  BY <1>1
<1>10. SaysOf(s, rules, classified)
  BY <1>6, <1>7, <1>8, <1>9, Zenon DEF SaysOf
<1> QED BY <1>10 DEF s

\* What it says of a relation is what the rules say.
LEMMA SaidAsGoverned ==
    ASSUME Sound, NEW file \in Specs, UniqueColumnRules(file.rules), NEW s,
           SaysOf(s, file.rules, Classified[file]), NEW r \in Relations
    PROVE  Said(s, r) = Governed(file, r, db[r])
<1> DEFINE table == db[r]
           covered == {a \in IF table = None THEN {} ELSE LiveAttnums(table) :
                          \E rule \in file.rules : NameOf(rule) = << r, table.cols[a] >>}
           RuleOf(key) == CHOOSE rule \in file.rules : NameOf(rule) = << r, table.cols[key[2]] >>
           places == {<< table.oid, a >> : a \in covered}
           said == {k \in DOMAIN s.names : s.names[k][1] = r}
<1>1. \A rule \in file.rules : NameOf(rule)[1] = rule.relation /\ NameOf(rule)[2] = rule.column
  BY DEF NameOf
<1>2. ASSUME NEW key \in said
      PROVE  /\ table # None /\ key \in places
             /\ s.by_column[key] = Classified[file][RuleOf(key)]
  <2>1. PICK rule \in file.rules : \E a : Holds(rule, a) /\ key = << db[rule.relation].oid, a >>
    BY DEF SaysOf
  <2>2. PICK a : Holds(rule, a) /\ key = << db[rule.relation].oid, a >>
    BY <2>1
  <2>3. s.names[key] = NameOf(rule) /\ s.by_column[key] = Classified[file][rule]
    BY <2>2 DEF SaysOf
  <2>4. rule.relation = r
    BY <1>1, <2>3
  <2>5. table # None /\ a \in LiveAttnums(table) /\ NameOf(rule) = << r, table.cols[a] >>
    BY <2>2, <2>4 DEF Holds, Live, NameOf
  <2>6. key = << table.oid, a >> /\ a \in covered /\ key[2] = a
    BY <2>2, <2>4, <2>5
  <2>7. RuleOf(key) = rule
    <3> DEFINE chosen == RuleOf(key)
    <3>1. chosen \in file.rules /\ NameOf(chosen) = << r, table.cols[a] >>
      BY <2>5, <2>6
    <3> HIDE DEF chosen
    <3>2. chosen = rule
      BY <2>5, <3>1, RulesAreUnique
    <3> QED BY <3>2 DEF chosen
  <2> HIDE DEF table, RuleOf, covered
  <2> QED BY <2>3, <2>5, <2>6, <2>7
<1>3. ASSUME NEW a \in covered
      PROVE  << table.oid, a >> \in said
  <2>1. PICK rule \in file.rules : NameOf(rule) = << r, table.cols[a] >>
    OBVIOUS
  <2>2. rule.relation = r /\ Holds(rule, a)
    BY <1>1, <2>1 DEF Holds, Live
  <2>3. << table.oid, a >> \in DOMAIN s.names /\ s.names[<< table.oid, a >>] = NameOf(rule)
    BY <2>2 DEF SaysOf
  <2> QED BY <1>1, <2>2, <2>3
<1>4. said = places
  BY <1>2, <1>3
<1>5. Governed(file, r, table) = [key \in places |-> Classified[file][RuleOf(key)]]
  BY Zenon DEF Governed
<1>6. Said(s, r) = [key \in said |-> s.by_column[key]]
  BY DEF Said
<1> HIDE DEF said, places, RuleOf, table
<1>7. Said(s, r) = Governed(file, r, table)
  BY <1>2, <1>4, <1>5, <1>6
<1> QED BY <1>7 DEF table

\* A column is governed by the one rule that names it.
LEMMA GovernedAt ==
    ASSUME NEW file, UniqueColumnRules(file.rules), NEW r, NEW table, table # None,
           NEW a \in LiveAttnums(table),
           << table.oid, a >> \in DOMAIN Governed(file, r, table)
    PROVE  \E rule \in file.rules :
               /\ NameOf(rule) = << r, table.cols[a] >>
               /\ Governed(file, r, table)[<< table.oid, a >>] = Classified[file][rule]
<1> DEFINE covered == {b \in IF table = None THEN {} ELSE LiveAttnums(table) :
                          \E rule \in file.rules : NameOf(rule) = << r, table.cols[b] >>}
           RuleOf(key) == CHOOSE rule \in file.rules : NameOf(rule) = << r, table.cols[key[2]] >>
           places == {<< table.oid, b >> : b \in covered}
           key == << table.oid, a >>
<1>1. Governed(file, r, table) = [k \in places |-> Classified[file][RuleOf(k)]]
  BY Zenon DEF Governed
<1>2. a \in covered /\ key[2] = a
  BY <1>1
<1>3. RuleOf(key) \in file.rules /\ NameOf(RuleOf(key)) = << r, table.cols[a] >>
  BY <1>2
<1> HIDE DEF RuleOf, covered, places
<1>4. Governed(file, r, table)[key] = Classified[file][RuleOf(key)]
  BY <1>1
<1> QED BY <1>3, <1>4

\* Its names, too, where no other relation's fold to them.
LEMMA SaidByNameAsGoverned ==
    ASSUME Sound, NEW file \in Specs, UniqueColumnRules(file.rules), NEW s,
           SaysOf(s, file.rules, Classified[file]), NEW r \in Relations, NEW columns,
           {row \in columns : row.relation = r} = Rows({r}),
           \A row \in columns : row.relation # r => FoldRelation(row.relation) # FoldRelation(r),
           s.relation_columns =
               [n \in {FoldRelation(row.relation) : row \in columns} |->
                   {Fold(row.column) : row \in {q \in columns : FoldRelation(q.relation) = n}}]
    PROVE  SaidByName(s, file, r, db[r])
<1> DEFINE table == db[r]
           ofName == {q \in columns : FoldRelation(q.relation) = FoldRelation(r)}
<1>1. \A row \in columns : FoldRelation(row.relation) = FoldRelation(r) <=> row \in Rows({r})
  OBVIOUS
<1>2. \A row : row \in Rows({r}) => row \in columns
  OBVIOUS
<1>3. ofName = Rows({r})
  BY <1>1, <1>2
<1>4. ASSUME table # None, LiveAttnums(table) # {}
      PROVE  /\ FoldRelation(r) \in DOMAIN s.relation_columns
             /\ s.relation_columns[FoldRelation(r)] = {Fold(table.cols[a]) : a \in LiveAttnums(table)}
  <2>1. r \in {r} \cap Live
    BY <1>4 DEF Live
  <2>2. \A a \in LiveAttnums(table) : RowOf(r, a) \in Rows({r})
    BY <2>1, RowsOfRelations
  <2>3. \A row \in Rows({r}) : \E a \in LiveAttnums(table) : row = RowOf(r, a)
    <3> SUFFICES ASSUME NEW row \in Rows({r}) PROVE \E a \in LiveAttnums(table) : row = RowOf(r, a)
      OBVIOUS
    <3>1. PICK q \in {r} \cap Live : \E a \in LiveAttnums(db[q]) : row = RowOf(q, a)
      BY RowsOfRelations
    <3> QED BY <3>1
  <2>4. \A a : RowOf(r, a).column = table.cols[a] /\ RowOf(r, a).relation = r
    BY DEF RowOf
  <2>5. PICK a \in LiveAttnums(table) : TRUE
    BY <1>4
  <2>6. RowOf(r, a) \in columns
    BY <1>2, <2>2
  <2> HIDE DEF table, ofName
  <2>7. FoldRelation(r) \in DOMAIN s.relation_columns
    BY <2>4, <2>6
  <2>8. s.relation_columns[FoldRelation(r)] = {Fold(row.column) : row \in ofName}
    BY <2>7 DEF ofName
  <2>9. {Fold(row.column) : row \in Rows({r})} = {Fold(table.cols[b]) : b \in LiveAttnums(table)}
    <3> DEFINE A == {Fold(row.column) : row \in Rows({r})}
               B == {Fold(table.cols[b]) : b \in LiveAttnums(table)}
    <3>1. ASSUME NEW x \in A PROVE x \in B
      <4>1. PICK row \in Rows({r}) : x = Fold(row.column)
        OBVIOUS
      <4>2. PICK b \in LiveAttnums(table) : row = RowOf(r, b)
        BY <2>3
      <4> QED BY <2>4, <4>1, <4>2
    <3>2. ASSUME NEW x \in B PROVE x \in A
      <4>1. PICK b \in LiveAttnums(table) : x = Fold(table.cols[b])
        OBVIOUS
      <4> QED BY <2>2, <2>4, <4>1
    <3> HIDE DEF A, B
    <3>3. A = B
      BY <3>1, <3>2
    <3> QED BY <3>3 DEF A, B
  <2> QED BY <1>3, <2>7, <2>8, <2>9
<1>5. ASSUME table = None
      PROVE  FoldRelation(r) \notin DOMAIN s.relation_columns
  <2>1. {r} \cap Live = {}
    BY <1>5 DEF Live
  <2>2. Rows({r}) = {}
    BY <2>1, RowsOfRelations
  <2> HIDE DEF table
  <2> QED BY <1>1, <2>2
<1>6. ASSUME table # None, NEW a \in LiveAttnums(table),
             << table.oid, a >> \in DOMAIN Governed(file, r, table)
      PROVE  LookupByName(s, r, table.cols[a]) = Governed(file, r, table)[<< table.oid, a >>]
  <2>1. PICK rule \in file.rules :
            /\ NameOf(rule) = << r, table.cols[a] >>
            /\ Governed(file, r, table)[<< table.oid, a >>] = Classified[file][rule]
    BY <1>6, GovernedAt
  <2>2. rule.relation = r /\ rule.column = table.cols[a]
    BY <2>1 DEF NameOf
  <2>3. Holds(rule, a)
    BY <1>6, <2>2 DEF Holds, Live
  <2>4. /\ FoldedName(rule) \in DOMAIN s.by_name
        /\ s.by_name[FoldedName(rule)] = Classified[file][rule]
    BY <2>3 DEF SaysOf
  <2>5. FoldedName(rule) = << FoldRelation(r), Fold(table.cols[a]) >>
    BY <2>2 DEF FoldedName
  <2>6. LookupByName(s, r, table.cols[a]) = s.by_name[FoldedName(rule)]
    BY <2>4, <2>5 DEF LookupByName
  <2> QED BY <2>1, <2>4, <2>6
<1> HIDE DEF ofName
<1> QED BY <1>4, <1>5, <1>6, Zenon DEF SaidByName

-----------------------------------------------------------------------------
(* The fixpoint of opaque_views.                                            *)

\* The loop ends with nothing left to add: a round that adds nothing is the
\* last, and there are no more rounds that add than views.  So a view is
\* opaque, or both trustworthy and free of opaque names.
LEMMA TheLoopCloses ==
    ASSUME NEW defs, IsFiniteSet(DOMAIN defs)
    PROVE  \A v \in DOMAIN defs :
               \/ v \in OpaqueViews(defs)
               \/ /\ ProvenanceIsTrustworthy(defs[v])
                  /\ ~ NamesOneOf(ReferencedIdentifiers(defs[v]), OpaqueViews(defs))
<1> DEFINE views == DOMAIN defs
           N == Cardinality(views)
           own == {v \in views : ~ ProvenanceIsTrustworthy(defs[v])}
           Above(known) == {v \in views \ known :
                                NamesOneOf(ReferencedIdentifiers(defs[v]), known)}
           step == [round \in 1 .. N |-> [known \in SUBSET views |-> known \cup Above(known)]]
           Opaque(f) == f = [n \in 0 .. N |->
                              IF n = 0
                              THEN {v \in DOMAIN defs : ~ ProvenanceIsTrustworthy(defs[v])}
                              ELSE LET known == f[n - 1]
                                   IN  known \cup {v \in DOMAIN defs \ known :
                                        NamesOneOf(ReferencedIdentifiers(defs[v]), known)}]
           opaque == CHOOSE f : Opaque(f)
<1>0. N \in Nat
  BY FS_CardinalityType
<1>1. \E f \in [0 .. N -> SUBSET views] : Iterates(N, own, step, f)
  <2>1. own \in SUBSET views /\ step \in [1 .. N -> [SUBSET views -> SUBSET views]]
    OBVIOUS
  <2> HIDE DEF own, step, views, N
  <2> QED BY <1>0, <2>1, LoopsExist
<1>2. \A f \in [0 .. N -> SUBSET views] : Iterates(N, own, step, f) => Opaque(f)
  <2> SUFFICES ASSUME NEW f \in [0 .. N -> SUBSET views], Iterates(N, own, step, f)
               PROVE  Opaque(f)
    OBVIOUS
  <2>1. \A n \in 0 .. N : n # 0 => step[n][f[n - 1]] = f[n - 1] \cup Above(f[n - 1])
    <3> SUFFICES ASSUME NEW n \in 0 .. N, n # 0
                 PROVE  n \in 1 .. N /\ f[n - 1] \in SUBSET views
      OBVIOUS
    <3> HIDE DEF views, N
    <3> QED BY <1>0
  <2> HIDE DEF N
  <2> QED BY <2>1, Zenon DEF Iterates
<1>3. OpaqueViews(defs) = opaque[N]
  BY DEF OpaqueViews
<1>4. Opaque(opaque)
  BY <1>1, <1>2
<1> HIDE DEF opaque
<1>5. \A n \in 0 .. N :
         opaque[n] = IF n = 0 THEN own ELSE opaque[n - 1] \cup Above(opaque[n - 1])
  BY <1>4, Zenon
<1>6. opaque[0] = own
  <2>1. 0 \in 0 .. N
    BY <1>0
  <2> QED BY <1>5, <2>1, Zenon
<1>7. \A n \in 0 .. N - 1 : opaque[n + 1] = opaque[n] \cup Above(opaque[n])
  <2> SUFFICES ASSUME NEW n \in 0 .. N - 1
               PROVE  opaque[n + 1] = opaque[n] \cup Above(opaque[n])
    OBVIOUS
  <2>1. n + 1 \in 0 .. N /\ n + 1 # 0 /\ n + 1 - 1 = n
    BY <1>0
  <2>2. \A m \in 0 .. N : m # 0 => opaque[m] = opaque[m - 1] \cup Above(opaque[m - 1])
    BY <1>5, Zenon
  <2> DEFINE m == n + 1
  <2>3. opaque[m] = opaque[m - 1] \cup Above(opaque[m - 1])
    BY <2>1, <2>2
  <2> HIDE DEF m
  <2>4. m - 1 = n
    BY <2>1 DEF m
  <2>5. opaque[m] = opaque[n] \cup Above(opaque[n])
    BY <2>3, <2>4, Zenon
  <2> QED BY <2>5 DEF m
<1>8. \A known : Above(known) = {} \/ \E v \in views : v \in Above(known) /\ v \notin known
  OBVIOUS
<1>9. \A known \in SUBSET views :
          \/ Above(known) = {}
          \/ /\ Cardinality(known) \in Nat
             /\ Cardinality(known) + 1 <= Cardinality(known \cup Above(known))
  <2> SUFFICES ASSUME NEW known \in SUBSET views, Above(known) # {}
               PROVE  /\ Cardinality(known) \in Nat
                      /\ Cardinality(known) + 1 <= Cardinality(known \cup Above(known))
    OBVIOUS
  <2> DEFINE more == known \cup Above(known)
  <2>1. more \subseteq views /\ known \subseteq more /\ known # more
    BY <1>8
  <2> HIDE DEF more
  <2>2. /\ IsFiniteSet(known) /\ IsFiniteSet(more)
        /\ Cardinality(known) <= Cardinality(more) /\ Cardinality(known) # Cardinality(more)
    BY <2>1, FS_Subset
  <2>3. Cardinality(known) \in Nat /\ Cardinality(more) \in Nat
    BY <2>2, FS_CardinalityType
  <2>4. Cardinality(known) + 1 <= Cardinality(more)
    BY <2>2, <2>3
  <2> QED BY <2>3, <2>4 DEF more
<1> DEFINE T == {n \in 0 .. N :
                    /\ own \subseteq opaque[n] /\ opaque[n] \subseteq views
                    /\ Above(opaque[n]) = {} \/ n <= Cardinality(opaque[n])}
<1>10. 0 \in T
  <2>0. own \subseteq views
    OBVIOUS
  <2>1. opaque[0] = own /\ own \subseteq views
    BY <1>6, <2>0
  <2>2. 0 <= Cardinality(own)
    BY <2>1, FS_Subset, FS_CardinalityType
  <2> HIDE DEF own, Above, N
  <2> QED BY <1>0, <2>1, <2>2
<1>11. ASSUME NEW n \in 0 .. N - 1, n \in T
      PROVE  n + 1 \in T
  <2> HIDE DEF own, N
  <2>0. n + 1 \in 0 .. N /\ n + 1 # 0 /\ n + 1 - 1 = n
    BY <1>0
  <2>1. opaque[n + 1] = opaque[n] \cup Above(opaque[n])
    BY <1>7
  <2>2. CASE Above(opaque[n]) = {}
    <3>1. opaque[n + 1] = opaque[n]
      BY <2>1, <2>2
    <3> HIDE DEF Above
    <3> QED BY <1>11, <2>0, <2>2, <3>1
  <2>3. CASE Above(opaque[n]) # {}
    <3>1. n <= Cardinality(opaque[n]) /\ opaque[n] \in SUBSET views /\ own \subseteq opaque[n]
      BY <1>11, <2>3
    <3>2. opaque[n + 1] \subseteq views
      BY <2>1, <3>1
    <3>3. n + 1 <= Cardinality(opaque[n + 1])
      <4>1. /\ Cardinality(opaque[n]) \in Nat
            /\ Cardinality(opaque[n]) + 1 <= Cardinality(opaque[n + 1])
        BY <1>9, <2>1, <2>3, <3>1
      <4>2. Cardinality(opaque[n + 1]) \in Nat
        BY <3>2, FS_Subset, FS_CardinalityType
      <4> QED BY <1>0, <3>1, <4>1, <4>2
    <3>4. own \subseteq opaque[n + 1]
      BY <2>1, <3>1
    <3> HIDE DEF Above
    <3> QED BY <2>0, <3>2, <3>3, <3>4
  <2> QED BY <2>2, <2>3
<1>12. N \in T
  <2> HIDE DEF T
  <2>1. 0 .. N \subseteq T
    <3> HIDE DEF N
    <3> QED BY <1>0, <1>10, <1>11, UpTo
  <2> QED BY <1>0, <2>1
<1>13. Above(opaque[N]) = {}
  <2>1. CASE N <= Cardinality(opaque[N])
    <3>1. /\ opaque[N] \subseteq views
          /\ Cardinality(opaque[N]) <= N /\ Cardinality(opaque[N]) \in Nat
          /\ Cardinality(opaque[N]) = N => opaque[N] = views
      BY <1>12, FS_Subset, FS_CardinalityType
    <3>2. opaque[N] = views
      BY <1>0, <2>1, <3>1
    <3> QED BY <3>2
  <2> QED BY <1>12, <2>1
<1>14. own \subseteq opaque[N]
  BY <1>12
<1> HIDE DEF N
<1> QED BY <1>3, <1>13, <1>14
-----------------------------------------------------------------------------
(* What stays while nothing is installed.                                   *)

\* A relation that is left alone keeps its rows.
LEMMA RowsStay ==
    ASSUME NEW r \in Relations, db'[r] = db[r]
    PROVE  Rows({r})' = Rows({r})
<1>1. \A row : row \in Rows({r}) <=> r \in Live /\ row \in RowsOf(r, db[r])
  BY DEF Rows
<1>2. \A row : row \in Rows({r})' <=> r \in Live' /\ row \in RowsOf(r, db'[r])
  BY DEF Rows
<1>3. r \in Live' <=> r \in Live
  BY DEF Live
<1> QED BY <1>1, <1>2, <1>3

\* The snapshot stays, and every relation but those that become touched.
Drifts ==
    /\ UNCHANGED << spec, snapshot, told >>
    /\ ever \subseteq ever'
    /\ touched.snapshot \subseteq touched'.snapshot
    /\ \A r \in Relations \ touched'.snapshot : db'[r] = db[r]
    /\ \A r \in Live : r \in Live' \/ r \in touched'.snapshot

\* What was published stays what it was of the state it was read from.
LEMMA PublishedStays ==
    ASSUME Published, Drifts
    PROVE  Published'
<1>0. CASE snapshot = NoSnapshot
  BY <1>0 DEF Published, Drifts
<1>1. CASE snapshot # NoSnapshot
  <2>1. /\ Resolvable(spec) /\ PlacesAreDistinct /\ PlacesWereTrue /\ KeysAreKnown /\ LogTellsCoverage
        /\ ViewsAreApart => KnowsViews(snapshot.opaque_views, touched.snapshot)
        /\ \A r \in Relations \ touched.snapshot : ExactOn(r)
    BY <1>1 DEF Published
  <2>2. /\ spec' = spec /\ snapshot' = snapshot /\ told' = told /\ ever \subseteq ever'
        /\ \A r \in Relations \ touched'.snapshot :
               r \in Relations \ touched.snapshot /\ db'[r] = db[r] /\ (r \in Live' <=> r \in Live)
    BY DEF Drifts, Live
  <2>3. Resolvable(spec)' /\ PlacesAreDistinct' /\ LogTellsCoverage'
    BY <2>1, <2>2 DEF PlacesAreDistinct, LogTellsCoverage
  <2>4. PlacesWereTrue'
    BY <2>1, <2>2 DEF PlacesWereTrue
  <2>5. KeysAreKnown'
    BY <2>1, <2>2 DEF KeysAreKnown, Live
  <2>7. ViewsAreApart => KnowsViews(snapshot.opaque_views, touched.snapshot)'
    BY <2>1, <2>2 DEF KnowsViews, Views, Live
  <2>6. ASSUME NEW r \in Relations \ touched'.snapshot
        PROVE  ExactOn(r)'
    <3>1. ExactOn(r) /\ db'[r] = db[r]
      BY <2>1, <2>2
    <3>2. Unambiguous(r)' => Unambiguous(r)
      BY DEF Unambiguous, Drifts
    <3> QED BY <2>2, <3>1, <3>2 DEF ExactOn
  <2> QED BY <2>3, <2>4, <2>5, <2>6, <2>7 DEF Published
<1> QED BY <1>0, <1>1

\* DDL while a resolution is under way.
LEMMA AlterationsAreRecorded ==
    ASSUME Sound, NEW r \in Relations, NEW table \in Tables \cup {None}, Alteration(r, table),
           touched \in [{"job", "snapshot"} -> SUBSET Relations]
    PROVE  /\ touched' \in [{"job", "snapshot"} -> SUBSET Relations]
           /\ touched'.job = touched.job \cup {r} /\ touched'.snapshot = touched.snapshot \cup {r}
           /\ \A q \in Relations \ {r} : db'[q] = db[q]
           /\ db'[r] = table
           /\ Drifts
<1>1. /\ db' = [db EXCEPT ![r] = table] /\ UNCHANGED << spec, snapshot, job, told >>
      /\ touched' = [of \in DOMAIN touched |-> touched[of] \cup {r}]
      /\ ever \subseteq ever'
  BY DEF Alteration, Alters
<1>2. /\ touched' \in [{"job", "snapshot"} -> SUBSET Relations]
      /\ touched'.job = touched.job \cup {r} /\ touched'.snapshot = touched.snapshot \cup {r}
  BY <1>1
<1>3. (\A q \in Relations \ {r} : db'[q] = db[q]) /\ db'[r] = table
  BY <1>1 DEF Sound
<1> QED BY <1>1, <1>2, <1>3 DEF Drifts, Live

\* What a resolution has read stays true of the states it read, whatever DDL follows.
LEMMA ReadingStaysTrue ==
    ASSUME Sound, ReadTruly, NEW r \in Relations, job' = job,
           touched'.job = touched.job \cup {r}, \A q \in Relations \ {r} : db'[q] = db[q]
    PROVE  ReadTruly'
<1>1. \A q \in Relations \ touched'.job :
          q \in Relations \ touched.job /\ db'[q] = db[q] /\ (q \in Live' <=> q \in Live)
  BY DEF Live
<1>2. \A q \in Relations \ touched'.job : Rows({q})' = Rows({q})
  BY <1>1, RowsStay
<1>3. \A q \in Live' \ touched'.job : q \in Live \ touched.job /\ db'[q] = db[q]
  BY <1>1 DEF Live
<1>4. \A q \in Views' \ touched'.job : q \in Views \ touched.job /\ db'[q] = db[q]
  BY <1>1 DEF Views, Live
<1>5. ViewsAreApart /\ "opaque" \in DOMAIN job => KnowsViews(job.opaque, touched.job)'
  BY <1>4 DEF ReadTruly, KnowsViews
<1> QED BY <1>1, <1>2, <1>3, <1>4, <1>5 DEF ReadTruly

\* A view that was scanned is still there, unless it was dropped.
LEMMA RacesStayCounted ==
    ASSUME Sound, Underway, NEW r \in Relations, NEW table \in Tables \cup {None},
           Alteration(r, table), db'[r] = table, \A q \in Relations \ {r} : db'[q] = db[q]
    PROVE  Underway'
<1>1. job' = job /\ drops' \in Nat /\ drops <= drops' /\ job.retries \in Nat
  BY CatalogAssumption DEF Alteration, Alters, Sound, Underway
<1>2. ASSUME At("defs")
      PROVE  StillThere(job.scanned)' \/ job.retries < drops'
  <2>1. CASE job.retries < drops
    BY <1>1, <2>1 DEF Sound
  <2>2. CASE table = None
    <3>1. drops' = drops + 1 /\ job.retries <= drops /\ drops \in Nat
      BY <2>2, CatalogAssumption DEF Alteration, Underway, Sound, WellFormed
    <3> QED BY <1>1, <3>1
  <2>3. CASE StillThere(job.scanned) /\ table # None
    <3>1. \A v \in job.scanned : v[1] \in Live /\ db[v[1]].oid = v[2]
      BY <2>3 DEF StillThere
    <3>2. r \in Live => table.oid = db[r].oid
      BY <2>3 DEF Alteration
    <3>3. \A v \in job.scanned : v[1] \in Live' /\ db'[v[1]].oid = v[2]
      BY <2>3, <3>1, <3>2 DEF Live
    <3> QED BY <1>1, <3>3 DEF StillThere
  <2> QED BY <1>2, <2>1, <2>2, <2>3 DEF Underway
<1>3. job'.stage = job.stage /\ job'.spec = job.spec /\ job'.retries <= drops'
  BY <1>1 DEF Underway, Sound
<1> QED BY <1>1, <1>2, <1>3 DEF Underway, At, Resolvable

-----------------------------------------------------------------------------
(* The five statements.                                                     *)

\* What a statement adds to the resolution under way.
LEMMA AnswerAdded ==
    ASSUME NEW stage, NEW answer, "stage" \in DOMAIN job \ DOMAIN answer, Proceeds(stage, answer)
    PROVE  /\ DOMAIN job' = DOMAIN job \cup DOMAIN answer
           /\ job'["stage"] = stage
           /\ \A f \in DOMAIN job \ (DOMAIN answer \cup {"stage"}) : job'[f] = job[f]
           /\ \A f \in DOMAIN answer : job'[f] = answer[f]
  BY DEF Proceeds

\* The rest of the invariant does not look at the job.
Rests ==
    UNCHANGED << db, ddl, drops, spec, snapshot, told, reloads, failures, touched, ever >>

\* A step that leaves the database, the snapshot and the rules alone keeps
\* their parts of the invariant.
LEMMA RestStays ==
    ASSUME IInv, Rests
    PROVE  /\ Sound' /\ Remembered' /\ Published' /\ Drifts
           /\ touched' \in [{"job", "snapshot"} -> SUBSET Relations]
           /\ reloads' \in 0 .. MaxReloads /\ failures' \in 0 .. MaxFailures
           /\ (snapshot' = NoSnapshot) <=> (spec' = None)
           /\ \A r \in Relations : Rows({r})' = Rows({r})
<1>1. Sound' /\ Remembered'
  BY DEF IInv, Rests, Sound, Remembered, Live, Views
<1>2. Drifts
  BY DEF Rests, Drifts, Live
<1>3. Published'
  BY <1>2, PublishedStays DEF IInv
<1>4. \A r \in Relations : Rows({r})' = Rows({r})
  BY RowsStay DEF Rests
<1> QED BY <1>1, <1>2, <1>3, <1>4 DEF IInv, Rests

\* The query of pg_attribute reads the columns as they are.
LEMMA ColumnsAreRead ==
    ASSUME IInv, ReadsColumns
    PROVE  IInv'
<1> DEFINE answer == [columns |-> Rows(Live)]
<1>0. At("columns") /\ Proceeds("views", answer) /\ Rests
  BY DEF ReadsColumns, Rests, Proceeds
<1>1. Underway /\ ReadTruly /\ DOMAIN job = {"stage", "purpose", "spec", "retries"}
  BY <1>0 DEF IInv, At, NoJob, Underway, Gathered
<1>7. DOMAIN answer = {"columns"} /\ answer["columns"] = Rows(Live)
  OBVIOUS
<1> HIDE DEF answer
<1>8. "stage" \in DOMAIN job \ DOMAIN answer
  BY <1>1, <1>7
<1>2. /\ DOMAIN job' = {"stage", "purpose", "spec", "retries", "columns"}
      /\ job'.stage = "views" /\ job'.spec = job.spec /\ job'.retries = job.retries
      /\ job'.columns = Rows(Live)
  BY <1>0, <1>1, <1>7, <1>8, AnswerAdded
<1>3. Underway'
  BY <1>0, <1>1, <1>2 DEF Underway, Stages, Gathered, At, Rests, Resolvable
<1>4. \A r \in Relations : {row \in Rows(Live) : row.relation = r} = Rows({r})
  BY RowsOfRelations DEF RowOf
<1>5. \A row \in Rows(Live) : row.relation \in Relations
  BY RowsOfRelations DEF RowOf, Live
<1>6. ReadTruly'
  BY <1>0, <1>2, <1>4, <1>5, RestStays DEF ReadTruly
<1> QED BY <1>0, <1>3, <1>6, RestStays DEF IInv

\* The scan of pg_rewrite reads which relations every view reads.
LEMMA ViewsAreScanned ==
    ASSUME IInv, ScansViews
    PROVE  IInv'
<1> DEFINE scanned == {<< r, db[r].oid >> : r \in Views}
           answer == [scanned |-> scanned]
<1>0. /\ At("views") /\ Rests /\ Proceeds("defs", answer)
  BY DEF ScansViews, Proceeds, Rests
<1>1. Underway /\ ReadTruly /\ DOMAIN job = {"stage", "purpose", "spec", "retries", "columns"}
  BY <1>0 DEF IInv, At, NoJob, Underway, Gathered
<1> HIDE DEF scanned
<1>6. DOMAIN answer = {"scanned"} /\ answer["scanned"] = scanned
  OBVIOUS
<1> HIDE DEF answer
<1>2. /\ DOMAIN job' = {"stage", "purpose", "spec", "retries", "columns", "scanned"}
      /\ job'.stage = "defs" /\ job'.spec = job.spec /\ job'.retries = job.retries
      /\ job'.columns = job.columns
      /\ job'.scanned = scanned
  BY <1>0, <1>1, <1>6, AnswerAdded
<1>3. StillThere(job.scanned)'
  BY <1>0, <1>2 DEF StillThere, Views, Live, Rests, scanned
<1>7. /\ \A v \in scanned : v[1] \in Relations /\ MayBeView(v[1])
      /\ \A r \in Views : \E v \in scanned : v[1] = r
  <2>1. \A r \in Views : << r, db[r].oid >> \in scanned /\ << r, db[r].oid >>[1] = r
    BY DEF scanned
  <2>2. \A v \in scanned : \E r \in Views : v = << r, db[r].oid >>
    BY DEF scanned
  <2>3. \A r \in Views : r \in Relations /\ MayBeView(r)
    BY DEF IInv, Sound, Views, Live
  <2> QED BY <2>1, <2>2, <2>3
<1>8. Views' = Views
  BY <1>0 DEF Rests, Views, Live
<1>4. Underway'
  <2>1. job'.stage \in Stages /\ Resolvable(job'.spec) /\ (At("defs")' => StillThere(job.scanned)')
    BY <1>1, <1>2, <1>3 DEF Underway, Stages
  <2>2. DOMAIN job' = {"stage", "purpose", "spec", "retries"} \cup Gathered[job'.stage]
    BY <1>2 DEF Gathered
  <2>3. job'.retries \in 0 .. BackoffSteps /\ job'.retries <= drops'
    BY <1>0, <1>1, <1>2 DEF Underway, Rests
  <2> QED BY <2>1, <2>2, <2>3 DEF Underway
<1>5. ReadTruly'
  BY <1>0, <1>1, <1>2, <1>7, <1>8, RestStays DEF ReadTruly, Rests
<1> QED BY <1>0, <1>4, <1>5, RestStays DEF IInv

\* What the definitions of the scanned views tell of those that are as they
\* were, if no two views share a name in lower case.
LEMMA DefinitionsTell ==
    ASSUME Sound, NEW views, NEW altered, NEW defs \in DefsOf(views),
           \A r \in views : r \in Relations /\ MayBeView(r),
           Views \ altered \subseteq views,
           ViewsAreApart
    PROVE  KnowsViews(OpaqueViews(defs), altered)
<1> DEFINE names == {FoldRelation(r) : r \in views}
<1>1. PICK pick \in [names -> views] :
          /\ \A v \in names : FoldRelation(pick[v]) = v
          /\ defs = [v \in names |-> db[pick[v]].def]
  BY DEF DefsOf
<1>2. DOMAIN defs = names
  BY <1>1
<1>3. IsFiniteSet(DOMAIN defs)
  <2>1. IsFiniteSet(views)
    BY FS_Subset, CatalogAssumption
  <2> DEFINE g == [r \in views |-> FoldRelation(r)]
  <2>2. g \in Surjection(views, names)
    BY DEF Surjection
  <2>3. IsFiniteSet(names)
    <3> HIDE DEF g, names
    <3> QED BY <2>1, <2>2, FS_Surjection
  <2> QED BY <1>2, <2>3
<1>4. ASSUME NEW r \in Views \ altered
      PROVE  FoldRelation(r) \in DOMAIN defs /\ defs[FoldRelation(r)] = db[r].def
  <2>1. r \in views /\ FoldRelation(r) \in names
    OBVIOUS
  <2>2. pick[FoldRelation(r)] \in views /\ FoldRelation(pick[FoldRelation(r)]) = FoldRelation(r)
    BY <1>1, <2>1
  <2>3. pick[FoldRelation(r)] = r
    BY <2>1, <2>2 DEF ViewsAreApart
  <2> HIDE DEF names
  <2> QED BY <1>1, <2>1, <2>3
<1> QED BY <1>3, <1>4, TheLoopCloses DEF KnowsViews

\* The loop over pg_get_viewdef reads one definition after the other.
LEMMA DefinitionsAreRead ==
    ASSUME IInv, ReadsDefinitions
    PROVE  IInv'
<1> DEFINE views == {v[1] : v \in job.scanned}
<1>a. PICK defs \in DefsOf(views) : Proceeds("keys", [opaque |-> OpaqueViews(defs)])
  BY DEF ReadsDefinitions
<1> DEFINE answer == [opaque |-> OpaqueViews(defs)]
<1>0. /\ At("defs") /\ Rests /\ Proceeds("keys", answer)
  BY <1>a DEF ReadsDefinitions, Proceeds, Rests
<1>1. Underway /\ ReadTruly /\ DOMAIN job = {"stage", "purpose", "spec", "retries", "columns", "scanned"}
  BY <1>0 DEF IInv, At, NoJob, Underway, Gathered
<1>2. DOMAIN answer = {"opaque"} /\ answer["opaque"] = OpaqueViews(defs)
  OBVIOUS
<1> HIDE DEF answer
<1>3. /\ DOMAIN job' = {"stage", "purpose", "spec", "retries", "columns", "scanned", "opaque"}
      /\ job'.stage = "keys" /\ job'.spec = job.spec /\ job'.retries = job.retries
      /\ job'.columns = job.columns /\ job'.scanned = job.scanned
      /\ job'.opaque = OpaqueViews(defs)
  <2>1. "stage" \in DOMAIN job \ DOMAIN answer
    BY <1>1, <1>2
  <2> QED BY <1>0, <1>1, <1>2, <2>1, AnswerAdded
<1>4. Underway'
  BY <1>0, <1>1, <1>3 DEF Underway, Stages, Gathered, At, Rests, Resolvable
<1>5. ViewsAreApart => KnowsViews(OpaqueViews(defs), touched.job)
  <2>1. /\ \A v \in job.scanned : v[1] \in Relations /\ MayBeView(v[1])
        /\ \A r \in Views \ touched.job : \E v \in job.scanned : v[1] = r
    BY <1>1 DEF ReadTruly
  <2>2. /\ \A r \in views : r \in Relations /\ MayBeView(r)
        /\ Views \ touched.job \subseteq views
    BY <2>1
  <2> QED BY <1>a, <2>2, DefinitionsTell DEF IInv
<1>6. ReadTruly'
  BY <1>0, <1>1, <1>3, <1>5, RestStays DEF ReadTruly, Rests, KnowsViews, Views, Live
<1> QED BY <1>0, <1>4, <1>6, RestStays DEF IInv

\* The query of pg_index reads the unique keys as they are.
LEMMA KeysAreRead ==
    ASSUME IInv, ReadsKeys
    PROVE  IInv'
<1> DEFINE answer == [keys |-> UniqueKeys]
<1>0. /\ At("keys") /\ Rests /\ Proceeds("rules", answer)
  BY DEF ReadsKeys, Proceeds, Rests
<1>1. /\ Underway /\ ReadTruly
      /\ DOMAIN job = {"stage", "purpose", "spec", "retries", "columns", "scanned", "opaque"}
  BY <1>0 DEF IInv, At, NoJob, Underway, Gathered
<1>6. DOMAIN answer = {"keys"} /\ answer["keys"] = UniqueKeys
  OBVIOUS
<1> HIDE DEF answer
<1>2. /\ DOMAIN job' = {"stage", "purpose", "spec", "retries", "columns", "scanned", "opaque", "keys"}
      /\ job'.stage = "rules" /\ job'.spec = job.spec /\ job'.retries = job.retries
      /\ job'.columns = job.columns /\ job'.scanned = job.scanned /\ job'.opaque = job.opaque
      /\ job'.keys = UniqueKeys
  BY <1>0, <1>1, <1>6, AnswerAdded
<1>3. Underway'
  BY <1>0, <1>1, <1>2 DEF Underway, Stages, Gathered, At, Rests, Resolvable
<1>4. \A r \in Live : \A index \in db[r].indexes :
          IndexKey(db[r], index) # {} => IndexKey(db[r], index) \in UniqueKeys
  <2> DEFINE KeysOf(r) == {IndexKey(db[r], index) : index \in db[r].indexes}
  <2>1. UniqueKeys = UNION {KeysOf(r) : r \in Live} \ {{}}
    BY DEF UniqueKeys
  <2>2. \A r \in Live : \A index \in db[r].indexes : IndexKey(db[r], index) \in KeysOf(r)
    OBVIOUS
  <2> HIDE DEF KeysOf
  <2> QED BY <2>1, <2>2
<1>5. ReadTruly'
  BY <1>0, <1>1, <1>2, <1>4, RestStays DEF ReadTruly, Rests, Live, Views, KnowsViews
<1> QED BY <1>0, <1>3, <1>5, RestStays DEF IInv

-----------------------------------------------------------------------------
(* The log.                                                                 *)

\* The reader of the lines about a new snapshot knows its places.
LEMMA LinesSuffice ==
    ASSUME told = DisplayIndex(snapshot.names), NEW next,
           \A key \in DOMAIN next.names : \E rule \in job.spec.rules : next.names[key] = NameOf(rule)
    PROVE  Heard(CoverageChanges(job.spec.rules, snapshot, next)) = DisplayIndex(next.names)
<1> DEFINE before == DisplayIndex(snapshot.names)
           after == DisplayIndex(next.names)
           named == {NameOf(rule) : rule \in job.spec.rules}
           both == {n \in named \cap DOMAIN before \cap DOMAIN after : before[n] # after[n]}
           moved == {[change |-> Moved, column |-> n, after |-> after[n]] : n \in both}
           lost == {[change |-> Lost, column |-> n] : n \in named \cap (DOMAIN before \ DOMAIN after)}
           restored == {[change |-> Restored, column |-> n, after |-> after[n]] :
                            n \in named \cap (DOMAIN after \ DOMAIN before)}
           changes == CoverageChanges(job.spec.rules, snapshot, next)
           gone == {c.column : c \in {d \in changes : d.change = Lost}}
           placed == {c \in changes : c.change # Lost}
           where == {c.column : c \in placed}
<1>1. changes = moved \cup lost \cup restored
  BY DEF CoverageChanges
<1>2. Heard(changes) =
        [column \in ((DOMAIN told \cap named) \ gone) \cup where |->
            IF \E c \in placed : c.column = column
            THEN (CHOOSE c \in placed : c.column = column).after
            ELSE told[column]]
  BY DEF Heard
<1>3. /\ DOMAIN after = Range(next.names)
      /\ after = [n \in DOMAIN after |-> after[n]]
  BY DEF DisplayIndex
<1>4. DOMAIN after \subseteq named
  BY <1>3 DEF Range
<1> HIDE DEF before, after, named, changes
<1>5. Moved # Lost /\ Restored # Lost
  BY DEF Moved, Lost, Restored
<1>6. placed = moved \cup restored
  BY <1>1, <1>5
<1>7. {d \in changes : d.change = Lost} = lost
  BY <1>1, <1>5
<1>8. gone = named \cap (DOMAIN before \ DOMAIN after)
  <2>1. gone = {c.column : c \in lost}
    BY <1>7
  <2>2. \A n \in named \cap (DOMAIN before \ DOMAIN after) :
            LET c == [change |-> Lost, column |-> n] IN c \in lost /\ c.column = n
    OBVIOUS
  <2>3. \A c \in lost : c.column \in named \cap (DOMAIN before \ DOMAIN after)
    OBVIOUS
  <2> HIDE DEF lost, gone
  <2>4. \A n \in named \cap (DOMAIN before \ DOMAIN after) : n \in gone
    BY <2>1, <2>2
  <2>5. \A n \in gone : n \in named \cap (DOMAIN before \ DOMAIN after)
    BY <2>1, <2>3
  <2> QED BY <2>4, <2>5
<1>9. \A n : n \in where <=> n \in both \/ n \in named \cap (DOMAIN after \ DOMAIN before)
  <2>1. where = {c.column : c \in moved \cup restored}
    BY <1>6
  <2>2. \A n \in both :
            LET c == [change |-> Moved, column |-> n, after |-> after[n]]
            IN  c \in moved /\ c.column = n
    OBVIOUS
  <2>3. \A n \in named \cap (DOMAIN after \ DOMAIN before) :
            LET c == [change |-> Restored, column |-> n, after |-> after[n]]
            IN  c \in restored /\ c.column = n
    OBVIOUS
  <2>4. /\ \A c \in moved : c.column \in both
        /\ \A c \in restored : c.column \in named \cap (DOMAIN after \ DOMAIN before)
    OBVIOUS
  <2> HIDE DEF moved, restored, where, both
  <2>5. \A n \in both : n \in where
    BY <2>1, <2>2
  <2>6. \A n \in named \cap (DOMAIN after \ DOMAIN before) : n \in where
    BY <2>1, <2>3
  <2>7. \A n \in where : n \in both \/ n \in named \cap (DOMAIN after \ DOMAIN before)
    BY <2>1, <2>4
  <2> QED BY <2>5, <2>6, <2>7
<1>10. \A c \in placed : c.after = after[c.column]
  BY <1>6
<1>11. \A n \in where : (CHOOSE c \in placed : c.column = n).after = after[n]
  BY <1>10
<1>12. told = before
  BY DEF before
<1> HIDE DEF gone, placed
<1>13. \A n : n \in ((DOMAIN told \cap named) \ gone) \cup where <=> n \in DOMAIN after
  BY <1>4, <1>8, <1>9, <1>12
<1>14. \A n \in DOMAIN after : n \notin where => told[n] = after[n]
  BY <1>4, <1>9, <1>12
<1>15. \A n : n \in where <=> \E c \in placed : c.column = n
  OBVIOUS
<1> HIDE DEF where
<1>16. Heard(changes) = after
  BY <1>2, <1>3, <1>11, <1>13, <1>14, <1>15
<1> QED BY <1>16 DEF changes, after

-----------------------------------------------------------------------------
(* A resolution ends.                                                       *)

\* What is about to be published says what the rules say.
LEMMA NextSaysIt ==
    ASSUME IInv, At("rules"), ~ ClassifyFails(job.spec, Classified[job.spec], RuleRows)
    PROVE  /\ Resolvable(job.spec) /\ ReadTruly /\ Underway
           /\ {"columns", "opaque", "keys"} \subseteq DOMAIN job
           /\ SaysOf(NextSnapshot, job.spec.rules, Classified[job.spec])
           /\ NextSnapshot.unique_keys = job.keys /\ NextSnapshot.opaque_views = job.opaque
           /\ NextSnapshot.relation_columns =
                  [n \in {FoldRelation(row.relation) : row \in job.columns} |->
                      {Fold(row.column) : row \in {q \in job.columns : FoldRelation(q.relation) = n}}]
           /\ NextSnapshot # NoSnapshot
           /\ \A rule \in job.spec.rules : \A a :
                  Holds(rule, a) => Classified[job.spec][rule] # Refused
<1>1. /\ Resolvable(job.spec) /\ ReadTruly /\ Underway
      /\ {"columns", "opaque", "keys"} \subseteq DOMAIN job
  BY DEF IInv, At, NoJob, Underway, Gathered
<1>2. RuleRows = RowsNamedBy(job.spec.rules)
  BY DEF RuleRows, RowsNamedBy
<1>3. SaysOf(NextSnapshot, job.spec.rules, Classified[job.spec])
  BY <1>1, <1>2, SnapshotsSay DEF NextSnapshot, IInv, Resolvable
<1>4. /\ NextSnapshot.unique_keys = job.keys /\ NextSnapshot.opaque_views = job.opaque
      /\ NextSnapshot.relation_columns =
             [n \in {FoldRelation(row.relation) : row \in job.columns} |->
                 {Fold(row.column) : row \in {q \in job.columns : FoldRelation(q.relation) = n}}]
      /\ "unique_keys" \in DOMAIN NextSnapshot
  BY DEF NextSnapshot, SnapshotFrom
<1>5. NextSnapshot # NoSnapshot
  <2>1. DOMAIN NoSnapshot = {"resolved"}
    BY DEF NoSnapshot
  <2> QED BY <1>4, <2>1
<1>6. \A rule \in job.spec.rules : \A a :
          Holds(rule, a) => Classified[job.spec][rule] # Refused
  BY <1>2, RulesAreLocated DEF ClassifyFails, IInv
<1> QED BY <1>1, <1>3, <1>4, <1>5, <1>6

\* A resolution that installs publishes a snapshot that is true.
LEMMA InstallationsArePublished ==
    ASSUME IInv, At("rules"), ~ ClassifyFails(job.spec, Classified[job.spec], RuleRows),
           Installs(NextSnapshot), UNCHANGED << db, ddl, drops, reloads, ever >>
    PROVE  Published' /\ snapshot' # NoSnapshot /\ spec' # None
           /\ touched' \in [{"job", "snapshot"} -> SUBSET Relations]
<1> DEFINE rules == job.spec.rules
           class == Classified[job.spec]
           s == NextSnapshot
<1>0. /\ snapshot' = s /\ spec' = job.spec /\ touched'.snapshot = touched.job
      /\ touched' \in [{"job", "snapshot"} -> SUBSET Relations]
  BY DEF Installs, IInv
<1>1. /\ Resolvable(job.spec) /\ ReadTruly /\ Underway
      /\ {"columns", "opaque", "keys"} \subseteq DOMAIN job
      /\ SaysOf(s, rules, class) /\ s.unique_keys = job.keys /\ s.opaque_views = job.opaque
      /\ s.relation_columns =
             [n \in {FoldRelation(row.relation) : row \in job.columns} |->
                 {Fold(row.column) : row \in {q \in job.columns : FoldRelation(q.relation) = n}}]
      /\ s # NoSnapshot
      /\ \A rule \in rules : \A a : Holds(rule, a) => class[rule] # Refused
  BY NextSaysIt
<1> HIDE DEF s, class
<1>2. \A key \in DOMAIN s.names : \E rule \in rules : \E a :
          /\ Holds(rule, a) /\ key = << db[rule.relation].oid, a >>
          /\ s.names[key] = NameOf(rule) /\ s.by_column[key] = class[rule]
  BY <1>1 DEF SaysOf
<1>3. PlacesAreDistinct'
  <2>1. DOMAIN s.by_column = DOMAIN s.names
    BY <1>1 DEF SaysOf
  <2>2. Refused \notin Range(s.by_column)
    BY <1>1, <1>2, <2>1 DEF Range
  <2>3. Refused \notin Range(s.by_name)
    <3>1. ASSUME NEW name \in DOMAIN s.by_name
          PROVE  s.by_name[name] # Refused
      <4>1. PICK rule \in rules : \E a : Holds(rule, a) /\ name = FoldedName(rule)
        BY <1>1 DEF SaysOf
      <4>2. PICK a : Holds(rule, a) /\ name = FoldedName(rule)
        BY <4>1
      <4>3. s.by_name[name] = class[rule]
        BY <1>1, <4>2 DEF SaysOf
      <4> QED BY <1>1, <4>2, <4>3
    <3> QED BY <3>1 DEF Range
  <2>4. ASSUME NEW k \in DOMAIN s.names, NEW l \in DOMAIN s.names, s.names[k] = s.names[l]
        PROVE  k = l
    <3>1. PICK p \in rules : \E a : Holds(p, a) /\ k = << db[p.relation].oid, a >> /\ s.names[k] = NameOf(p)
      BY <1>2
    <3>2. PICK q \in rules : \E b : Holds(q, b) /\ l = << db[q.relation].oid, b >> /\ s.names[l] = NameOf(q)
      BY <1>2
    <3>3. p = q
      BY <1>1, <2>4, <3>1, <3>2, RulesAreUnique DEF Resolvable
    <3>4. \A a, b : Holds(p, a) /\ Holds(p, b) => a = b
      BY DEF Holds, IInv, Sound, Live, WellFormed
    <3> QED BY <3>1, <3>2, <3>3, <3>4
  <2>5. IsInjective(s.names)
    BY <2>4 DEF IsInjective
  <2> QED BY <1>0, <2>1, <2>2, <2>3, <2>5 DEF PlacesAreDistinct
<1>4. PlacesWereTrue'
  <2> SUFFICES ASSUME NEW key \in DOMAIN s.names
               PROVE  [relation |-> s.names[key][1], column |-> s.names[key][2], key |-> key] \in ever
    BY <1>0 DEF PlacesWereTrue
  <2>1. PICK rule \in rules : \E a : /\ Holds(rule, a) /\ key = << db[rule.relation].oid, a >>
                                     /\ s.names[key] = NameOf(rule)
    BY <1>2
  <2>2. PICK a : Holds(rule, a) /\ key = << db[rule.relation].oid, a >>
    BY <2>1
  <2>3. s.names[key][1] = rule.relation /\ s.names[key][2] = rule.column
    BY <2>1 DEF NameOf
  <2>4. [relation |-> s.names[key][1], column |-> s.names[key][2], key |-> key]
            = RowOf(rule.relation, a)
    BY <2>2, <2>3 DEF RowOf, Holds
  <2>5. RowOf(rule.relation, a) \in RowsOf(rule.relation, db[rule.relation])
    BY <2>2 DEF RowOf, RowsOf, Holds
  <2> QED BY <2>2, <2>4, <2>5 DEF IInv, Remembered, Holds
<1>5. ASSUME NEW r \in Relations \ touched'.snapshot
      PROVE  ExactOn(r)'
  <2>1. Said(s, r) = Governed(job.spec, r, db[r])
    BY <1>1, SaidAsGoverned DEF IInv, Resolvable, class
  <2>2. ASSUME Unambiguous(r)'
        PROVE  SaidByName(s, job.spec, r, db[r])
    <3>1. {row \in job.columns : row.relation = r} = Rows({r})
      BY <1>0, <1>1, <1>5 DEF ReadTruly
    <3>2. ASSUME NEW row \in job.columns, row.relation # r
          PROVE  FoldRelation(row.relation) # FoldRelation(r)
      <4>1. row.relation \in Relations
        BY <1>1 DEF ReadTruly
      <4>2. CASE row.relation \in touched.job
        BY <1>0, <2>2, <3>2, <4>2 DEF Unambiguous
      <4>3. CASE row.relation \notin touched.job
        <5>1. row \in Rows({row.relation})
          BY <1>1, <4>1, <4>3 DEF ReadTruly
        <5>2. row.relation \in Live
          BY <5>1, RowsOfRelations
        <5>3. row.relation \in Live'
          BY <5>2 DEF Live
        <5> QED BY <2>2, <3>2, <5>3 DEF Unambiguous
      <4> QED BY <4>2, <4>3
    <3> QED BY <1>1, <3>1, <3>2, SaidByNameAsGoverned DEF IInv, Resolvable, class
  <2> QED BY <1>0, <2>1, <2>2 DEF ExactOn
<1>6. KeysAreKnown'
  BY <1>0, <1>1 DEF KeysAreKnown, ReadTruly, Live
<1>7. LogTellsCoverage'
  <2>1. CASE snapshot = NoSnapshot
    BY <1>0, <2>1 DEF Installs, LogTellsCoverage, s
  <2>2. CASE snapshot # NoSnapshot
    <3>1. told = DisplayIndex(snapshot.names)
      BY <2>2 DEF IInv, Published, LogTellsCoverage
    <3>2. told' = Heard(CoverageChanges(job.spec.rules, snapshot, s))
      BY <2>2 DEF Installs, s
    <3>3. told' = DisplayIndex(s.names)
      BY <1>2, <3>1, <3>2, LinesSuffice
    <3> QED BY <1>0, <3>3 DEF LogTellsCoverage
  <2> QED BY <2>1, <2>2
<1>9. ViewsAreApart => KnowsViews(snapshot.opaque_views, touched.snapshot)'
  BY <1>0, <1>1 DEF ReadTruly, KnowsViews, Views, Live
<1>8. Published'
  BY <1>0, <1>1, <1>3, <1>4, <1>5, <1>6, <1>7, <1>9 DEF Published, Resolvable
<1> QED BY <1>0, <1>1, <1>8, CatalogAssumption DEF Resolvable

-----------------------------------------------------------------------------
(* Every step keeps the invariant.                                          *)

\* DDL between any two queries keeps the invariant.
LEMMA DdlKeeps ==
    ASSUME IInv, Ddl
    PROVE  IInv'
<1>1. PICK r \in Relations : \E table \in Tables \cup {None} : Alteration(r, table)
  BY DdlAlters DEF IInv
<1>2. PICK table \in Tables \cup {None} : Alteration(r, table)
  BY <1>1
<1>3. /\ UNCHANGED << spec, snapshot, job, told, reloads, failures >>
  BY <1>2 DEF Alteration, Alters
<1>4. Sound' /\ Remembered'
  BY <1>2, AlterationsAreSound DEF IInv
<1>5. /\ touched' \in [{"job", "snapshot"} -> SUBSET Relations]
      /\ touched'.job = touched.job \cup {r}
      /\ \A q \in Relations \ {r} : db'[q] = db[q]
      /\ db'[r] = table /\ Drifts
  BY <1>2, AlterationsAreRecorded DEF IInv
<1>6. Underway => Underway'
  BY <1>2, <1>5, RacesStayCounted DEF IInv
<1>7. ReadTruly => ReadTruly'
  BY <1>3, <1>5, ReadingStaysTrue DEF IInv
<1>8. Published'
  BY <1>5, PublishedStays DEF IInv
<1> QED BY <1>3, <1>4, <1>5, <1>6, <1>7, <1>8 DEF IInv

\* A resolution starts, or starts again, with nothing read.
LEMMA AttemptsAreSound ==
    ASSUME IInv, NEW purpose, NEW file, Resolvable(file), NEW retries \in 0 .. BackoffSteps,
           retries <= drops, Attempt(purpose, file, retries),
           UNCHANGED << db, ddl, drops, spec, snapshot, told, failures, ever >>,
           reloads' \in 0 .. MaxReloads
    PROVE  IInv'
<1>1. job' = [stage |-> "columns", purpose |-> purpose, spec |-> file, retries |-> retries]
  BY DEF Attempt
<1>2. /\ DOMAIN job' = {"stage", "purpose", "spec", "retries"} /\ job'.stage = "columns"
      /\ job'.spec = file /\ job'.retries = retries
  BY <1>1
<1>3. Underway'
  BY <1>2 DEF Underway, Stages, Gathered, At, Resolvable
<1>4. ReadTruly'
  BY <1>2 DEF ReadTruly
<1>5. /\ touched' \in [{"job", "snapshot"} -> SUBSET Relations]
      /\ touched'.snapshot = touched.snapshot
  BY DEF Attempt, IInv
<1>6. Sound' /\ Remembered'
  BY DEF IInv, Sound, Remembered, Live, Views
<1>7. Published'
  BY <1>5, PublishedStays DEF IInv, Drifts, Live
<1> QED BY <1>3, <1>4, <1>5, <1>6, <1>7 DEF IInv

\* A resolution that starts keeps the invariant.
LEMMA StartsKeep ==
    ASSUME IInv, Refreshes \/ \E file \in Specs : StartsUp(file) \/ Reloads(file)
    PROVE  IInv'
<1>0. 0 \in 0 .. BackoffSteps /\ 0 <= drops /\ reloads \in 0 .. MaxReloads
  BY CatalogAssumption DEF IInv, Sound
<1>1. CASE Refreshes
  <2>1. Resolvable(spec) /\ reloads' = reloads
    BY <1>1 DEF IInv, Published, Refreshes
  <2> QED BY <1>0, <1>1, <2>1, AttemptsAreSound DEF Refreshes
<1>2. ASSUME NEW file \in Specs, StartsUp(file)
      PROVE  IInv'
  <2>1. Resolvable(file) /\ reloads' = reloads
    BY <1>2 DEF Resolvable, StartsUp
  <2> QED BY <1>0, <1>2, <2>1, AttemptsAreSound DEF StartsUp
<1>3. ASSUME NEW file \in Specs, Reloads(file)
      PROVE  IInv'
  <2>1. Resolvable(file) /\ reloads' \in 0 .. MaxReloads
    BY <1>0, <1>3, CatalogAssumption DEF Resolvable, Reloads
  <2> QED BY <1>0, <1>3, <2>1, AttemptsAreSound DEF Reloads
<1> QED BY <1>1, <1>2, <1>3

\* A resolution that fails leaves everything as it was.
LEMMA FailuresKeep ==
    ASSUME IInv, Fails, failures' \in 0 .. MaxFailures
    PROVE  IInv'
<1>1. /\ job' = NoJob
      /\ UNCHANGED << db, ddl, drops, reloads, ever, spec, snapshot, told, touched >>
  BY DEF Fails, Ends
<1>2. Sound' /\ Remembered'
  BY <1>1 DEF IInv, Sound, Remembered, Live, Views
<1>3. Published'
  BY <1>1, PublishedStays DEF IInv, Drifts, Live
<1> QED BY <1>1, <1>2, <1>3 DEF IInv

\* A query that loses a race keeps the invariant.
LEMMA RacesKeep ==
    ASSUME IInv, Races
    PROVE  IInv'
<1>1. /\ At("defs") /\ ~ StillThere(job.scanned)
      /\ \/ /\ job.retries < BackoffSteps
            /\ Attempt(job.purpose, job.spec, job.retries + 1)
            /\ UNCHANGED << db, ddl, drops, spec, snapshot, told, reloads, failures, ever >>
         \/ job.retries = BackoffSteps /\ Fails /\ UNCHANGED failures
  BY DEF Races
<1>2. Underway /\ drops \in Nat
  BY <1>1, CatalogAssumption DEF IInv, At, NoJob, Sound
<1>3. job.retries < drops /\ job.retries \in Nat
  BY <1>1, <1>2, CatalogAssumption DEF Underway
<1>4. CASE /\ job.retries < BackoffSteps
           /\ Attempt(job.purpose, job.spec, job.retries + 1)
           /\ UNCHANGED << db, ddl, drops, spec, snapshot, told, reloads, failures, ever >>
  <2>1. job.retries + 1 \in 0 .. BackoffSteps /\ job.retries + 1 <= drops
    BY <1>2, <1>3, <1>4, CatalogAssumption
  <2>2. Resolvable(job.spec) /\ reloads' \in 0 .. MaxReloads
    BY <1>2, <1>4 DEF Underway, IInv
  <2> QED BY <1>4, <2>1, <2>2, AttemptsAreSound
<1>5. CASE job.retries = BackoffSteps /\ Fails /\ UNCHANGED failures
  BY <1>5, FailuresKeep DEF IInv
<1> QED BY <1>1, <1>4, <1>5

\* New rules keep the invariant.
LEMMA RulesKeep ==
    ASSUME IInv, ReadsRules
    PROVE  IInv'
<1>1. /\ At("rules") /\ Ends /\ UNCHANGED failures
      /\ \/ UNCHANGED << spec, snapshot, told, touched >>
         \/ /\ ~ ClassifyFails(job.spec, Classified[job.spec], RuleRows)
            /\ Installs(NextSnapshot)
  BY DEF ReadsRules
<1>2. CASE UNCHANGED << spec, snapshot, told, touched >>
  BY <1>1, <1>2, FailuresKeep DEF Fails, IInv
<1>3. CASE ~ ClassifyFails(job.spec, Classified[job.spec], RuleRows) /\ Installs(NextSnapshot)
  <2>1. /\ Published' /\ snapshot' # NoSnapshot /\ spec' # None
        /\ touched' \in [{"job", "snapshot"} -> SUBSET Relations]
    BY <1>1, <1>3, InstallationsArePublished DEF Ends
  <2>2. Sound' /\ Remembered'
    BY <1>1 DEF IInv, Ends, Sound, Remembered, Live, Views
  <2> QED BY <1>1, <2>1, <2>2 DEF IInv, Ends
<1> QED BY <1>1, <1>2, <1>3

\* The invariant holds before the first resolution.
LEMMA InvariantAtFirst == Init => IInv
<1> SUFFICES ASSUME Init PROVE IInv
  OBVIOUS
<1>1. Sound
  <2>1. ddl \in 0 .. MaxDdl /\ drops \in 0 .. ddl /\ db \in [Relations -> Tables \cup {None}]
    BY CatalogAssumption DEF Init
  <2>2. \A r \in Relations : db[r] # None => WellFormed(db[r]) /\ db[r].oid < FirstFreeOid + ddl
    BY CatalogAssumption DEF Init, FirstFreeOid
  <2>3. \A r, q \in Live : db[r].oid = db[q].oid => r = q
    BY CatalogAssumption DEF Init, Live
  <2>4. \A r \in Views : MayBeView(r)
    BY DEF Init, Views, Live, MayBeView
  <2> QED BY <2>1, <2>2, <2>3, <2>4 DEF Sound
<1>2. Remembered
  BY DEF Init, Remembered, Rows
<1>3. Published
  BY DEF Init, Published
<1> QED BY <1>1, <1>2, <1>3, CatalogAssumption DEF Init, IInv

\* Every step of the resolver, of a reload and of DDL keeps the invariant.
LEMMA InvariantIsInductive == IInv /\ [Next]_vars => IInv'
<1> SUFFICES ASSUME IInv, [Next]_vars PROVE IInv'
  OBVIOUS
<1>1. CASE Ddl
  BY <1>1, DdlKeeps
<1>2. CASE Refreshes \/ \E file \in Specs : StartsUp(file) \/ Reloads(file)
  BY <1>2, StartsKeep
<1>3. CASE Resolves
  BY <1>3, ColumnsAreRead, ViewsAreScanned, DefinitionsAreRead, KeysAreRead, RulesKeep DEF Resolves
<1>4. CASE Races
  BY <1>4, RacesKeep
<1>5. CASE Disconnects
  <2>1. failures' \in 0 .. MaxFailures
    BY <1>5, CatalogAssumption DEF Disconnects, IInv
  <2> QED BY <1>5, <2>1, FailuresKeep DEF Disconnects
<1>6. CASE UNCHANGED vars
  <2>1. Rests /\ job' = job
    BY <1>6 DEF vars, Rests
  <2>2. Underway => Underway'
    BY <2>1 DEF Underway, At, Rests, StillThere, Live, Resolvable
  <2>3. ReadTruly => ReadTruly'
    BY <2>1, RestStays DEF ReadTruly, Rests, Live, Views, KnowsViews
  <2> QED BY <2>1, <2>2, <2>3, RestStays DEF IInv
<1> QED BY <1>1, <1>2, <1>3, <1>4, <1>5, <1>6 DEF Next

-----------------------------------------------------------------------------
(* The theorems.                                                            *)

\* The database, the resolution under way and the published snapshot agree
\* as IInv says, whatever DDL lands between the five statements.
THEOREM Invariant == Spec => []IInv
  BY InvariantAtFirst, InvariantIsInductive, PTL DEF Spec

\* The invariant implies the types.
LEMMA TypesAreKept ==
    ASSUME IInv
    PROVE  TypeOK
<1>1. ddl \in 0 .. MaxDdl /\ drops \in 0 .. ddl
  BY DEF IInv, Sound
<1>2. /\ job.stage \in {"idle", "columns", "views", "defs", "keys", "rules"}
      /\ job.stage # "idle" => job.retries \in 0 .. BackoffSteps /\ job.spec \in Specs
  BY DEF IInv, NoJob, Underway, Stages, Resolvable
<1>3. touched.job \subseteq Relations /\ touched.snapshot \subseteq Relations
  BY DEF IInv
<1>4. snapshot # NoSnapshot => PlacesAreDistinct
  BY DEF IInv, Published
<1> QED BY <1>1, <1>2, <1>3, <1>4 DEF IInv, TypeOK, PlacesAreDistinct

\* What a snapshot says of a place is true of it: exact of every relation
\* that nobody altered since the resolution began, and never another
\* column's policy of the rest (resolve_snapshot).
THEOREM SnapshotsStayTrue == Spec => []SnapshotsAreTrue
<1>1. ASSUME IInv
      PROVE  SnapshotsAreTrue
  <2>1. UntouchedAreExact /\ PlacesWereTrue
    BY <1>1 DEF IInv, Published, UntouchedAreExact, PlacesWereTrue
  <2> QED BY <1>1, <2>1, TypesAreKept DEF SnapshotsAreTrue
<1> QED BY <1>1, Invariant, PTL

\* Whoever follows the log and knows the rules in force knows exactly which
\* columns are classified and where (install_snapshot).
THEOREM TheLogIsEnough == Spec => []LogTellsCoverage
<1>1. IInv => LogTellsCoverage
  BY DEF IInv, Published, LogTellsCoverage
<1> QED BY <1>1, Invariant, PTL

\* The names of an index's columns, the included ones among them, make a key
\* that a grouping over them covers, unless it is partial and has nothing but
\* expressions.
LEMMA IndexesHaveKeys ==
    ASSUME NEW table, WellFormed(table), NEW index \in table.indexes
    PROVE  \/ IsKnownGap(index)
           \/ /\ IndexKey(table, index) # {}
              /\ IndexKey(table, index)
                     \subseteq IndexNames(table, index.columns \cup index.included \cup index.expressions)
<1> DEFINE c == IndexNames(table, index.columns)
           i == IndexNames(table, index.included)
           e == IndexNames(table, index.expressions)
           p == IndexNames(table, index.predicate)
<1>1. /\ \A attnums : \A a \in attnums \cap LiveAttnums(table) :
             Fold(table.cols[a]) \in IndexNames(table, attnums)
      /\ IndexNames(table, {}) = {}
      /\ IndexNames(table, index.columns \cup index.included \cup index.expressions) = c \cup i \cup e
  BY DEF IndexNames
<1>2. index.columns # {} => c # {}
  BY <1>1 DEF WellFormed, DependsOn
<1>3. index.columns = {} => e # {}
  BY <1>1 DEF WellFormed, DependsOn
<1>4. IndexKey(table, index) = c \cup i \cup IF p = {} THEN e ELSE {}
  BY DEF IndexKey, KeyColumns
<1>5. index.predicate = {} => p = {}
  BY <1>1
<1> HIDE DEF c, i, e, p
<1> QED BY <1>1, <1>2, <1>3, <1>4, <1>5 DEF IsKnownGap

\* A GROUP BY over all that a unique index of an unaltered table is made of
\* is noticed (unique_keys and grouping_covers_a_unique_key).
LEMMA SingletonGroupsAreSeen ==
    ASSUME IInv
    PROVE  GroupsByWholeIndexesAreNoticed
<1> SUFFICES ASSUME snapshot # NoSnapshot, NEW r \in Live \ touched.snapshot,
                    NEW index \in db[r].indexes
             PROVE  \/ IsKnownGap(index)
                    \/ NoticesGroupsBy(db[r],
                           index.columns \cup index.included \cup index.expressions)
  BY Zenon DEF GroupsByWholeIndexesAreNoticed
<1>1. WellFormed(db[r])
  BY DEF IInv, Sound, Live
<1>2. IndexKey(db[r], index) # {} => IndexKey(db[r], index) \in snapshot.unique_keys
  BY DEF IInv, Published, KeysAreKnown
<1> QED BY <1>1, <1>2, IndexesHaveKeys DEF NoticesGroupsBy, GroupingCoversAUniqueKey

\* A view that is not opaque reads, at any depth, only relations that are
\* not, and no untrustworthy one (opaque_views).
LEMMA NothingOpaqueBelow ==
    ASSUME IInv, NEW opaque, NEW altered, KnowsViews(opaque, altered),
           NEW r \in Views, Below(r) \cap altered = {}, FoldRelation(r) \notin opaque
    PROVE  \A q \in Below(r) \cap Views : ProvenanceIsTrustworthy(db[q].def)
<1> DEFINE S == {q \in Below(r) : FoldRelation(q) \notin opaque}
<1>1. r \in Below(r)
  BY DEF Below, Views, Live
<1>2. \A p \in Below(r) : ReadBy(p) \subseteq Below(r)
  <2> SUFFICES ASSUME NEW p \in Below(r), NEW q \in ReadBy(p) PROVE q \in Below(r)
    OBVIOUS
  <2>1. q \in Relations
    BY DEF ReadBy, IInv, Sound, Views, Live, Tables, Definitions
  <2> QED BY <2>1 DEF Below
<1>3. \A p \in S : ReadBy(p) \subseteq S
  <2> SUFFICES ASSUME NEW p \in S, NEW q \in ReadBy(p) PROVE FoldRelation(q) \notin opaque
    BY <1>2
  <2>1. p \in Views \ altered /\ q \in db[p].def.reads
    BY DEF ReadBy
  <2>2. ~ NamesOneOf(ReferencedIdentifiers(db[p].def), opaque)
    BY <2>1 DEF KnowsViews
  <2>3. FoldRelation(q).name = Fold(q.name) /\ Fold(q.name) \in ReferencedIdentifiers(db[p].def)
    BY <2>1 DEF FoldRelation, ReferencedIdentifiers
  <2> QED BY <2>2, <2>3 DEF NamesOneOf
<1>4. Below(r) \subseteq S
  <2>1. S \in SUBSET Relations /\ r \in S
    BY <1>1 DEF Below
  <2> HIDE DEF S
  <2> QED BY <1>3, <2>1 DEF Below
<1> QED BY <1>4 DEF KnowsViews

\* Of what the planner asks a snapshot before it trusts a provenance or
\* releases a summary, it knows, whatever DDL landed between the five
\* statements, every view over a set operation, if no two views share a name
\* in lower case, and the key of every unique index, save a partial one on
\* nothing but expressions and whatever an index includes beyond its key
\* (resolve_snapshot).
THEOREM ViewsAndKeysStayKnown == Spec => []ViewsAndKeysAreKnown
<1>1. ASSUME IInv
      PROVE  ViewsAndKeysAreKnown
  <2>1. ASSUME ViewsAreApart, snapshot # NoSnapshot, NEW r \in Views,
               Below(r) \cap touched.snapshot = {},
               \E q \in Below(r) \cap Views : ~ ProvenanceIsTrustworthy(db[q].def)
        PROVE  RelationIsOpaqueView(snapshot, r)
    <3>1. KnowsViews(snapshot.opaque_views, touched.snapshot)
      BY <1>1, <2>1 DEF IInv, Published
    <3>2. FoldRelation(r) \in snapshot.opaque_views
      BY <1>1, <2>1, <3>1, NothingOpaqueBelow
    <3> QED BY <3>2 DEF RelationIsOpaqueView
  <2>2. ViewsAreApart => NoViewHidesAUnion
    BY <2>1, Zenon DEF NoViewHidesAUnion
  <2> QED BY <1>1, <2>2, SingletonGroupsAreSeen DEF ViewsAndKeysAreKnown
<1> QED BY <1>1, Invariant, PTL

\* A resolution of a good file over an answering database fails only when
\* more relations were dropped than the backoff table has entries
\* (resolve_snapshot_retrying).
THEOREM RacesAreRiddenOut == Spec => RacesAreRidden
<1>1. ASSUME IInv, [Next]_vars, At("defs"), job' = NoJob, failures' = failures
      PROVE  drops > BackoffSteps
  <2>1. Underway /\ job.stage = "defs" /\ drops \in Nat
    BY <1>1, CatalogAssumption DEF IInv, At, NoJob, Sound
  <2>2. job' # job
    BY <1>1, <2>1 DEF NoJob
  <2>3. ~ \E file \in Specs : StartsUp(file) \/ Reloads(file)
    BY <2>1 DEF StartsUp, Reloads, At
  <2>4. ~ Refreshes /\ ~ ReadsColumns /\ ~ ScansViews /\ ~ ReadsKeys /\ ~ ReadsRules
    BY <2>1 DEF Refreshes, ReadsColumns, ScansViews, ReadsKeys, ReadsRules, At
  <2>5. ~ ReadsDefinitions
    <3> SUFFICES ASSUME ReadsDefinitions PROVE FALSE
      OBVIOUS
    <3>1. job'.stage = "keys"
      BY <2>1 DEF ReadsDefinitions, Proceeds, Underway
    <3> QED BY <1>1, <3>1 DEF NoJob
  <2>6. ~ Disconnects
    BY <1>1, CatalogAssumption DEF Disconnects, IInv
  <2>7. ~ Ddl
    BY <1>1, <2>2, DdlAlters DEF IInv, Alteration, Alters
  <2>8. Races
    BY <1>1, <2>2, <2>3, <2>4, <2>5, <2>6, <2>7 DEF Next, Resolves, vars
  <2>9. ~ StillThere(job.scanned) /\ job.retries < drops
    BY <2>1, <2>8 DEF Races, Underway, At
  <2>10. job.retries = BackoffSteps
    <3>1. ~ Attempt(job.purpose, job.spec, job.retries + 1)
      <4> SUFFICES ASSUME Attempt(job.purpose, job.spec, job.retries + 1) PROVE FALSE
        OBVIOUS
      <4>1. job'.stage = "columns"
        BY DEF Attempt
      <4> QED BY <1>1, <4>1 DEF NoJob
    <3> QED BY <2>8, <3>1 DEF Races
  <2> QED BY <2>1, <2>9, <2>10, CatalogAssumption
<1>2. IInv /\ [Next]_vars
          => [At("defs") /\ job' = NoJob => drops > BackoffSteps \/ failures' # failures]_vars
  BY <1>1
<1> QED BY <1>2, Invariant, PTL DEF Spec, RacesAreRidden
=============================================================================
