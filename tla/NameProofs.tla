----------------------------- MODULE NameProofs -----------------------------
(***************************************************************************)
(* What the names of a session stand for.  The session's maps and the      *)
(* backend's are moved by the same messages, in the same order, and every  *)
(* description and row on the way is about what its name stood for when    *)
(* it was asked for: while a client lets a name settle before it uses it   *)
(* again, that is what the name still stands for.                          *)
(***************************************************************************)
EXTENDS SlotProofs, SequenceTheorems

-----------------------------------------------------------------------------
(* Plans and what they are about.                                          *)

\* The plan was built from the text's first result and judged under the text.
Tells(plan, text) ==
    plan # None => plan.fields = Head(Results[text]) /\ plan.text \in {None, text}

\* What a portal name stands for.
Binding == [sql: Sqls, format: Formats]

\* What a description or a row is of.
BindingOf(reply) == [sql |-> reply.text, format |-> reply.format]

\* The plan is of the bound text and decodes the bound format.
Fits(plan, bound) ==
    Tells(plan, bound.sql) /\ (plan # None => plan.format = bound.format)

\* The plan is of the result the row belongs to.
Judges(plan, row) ==
    plan # None =>
        plan.fields = row.fields /\ plan.text \in {None, row.text} /\ plan.format = row.format

\* T says what each statement stands for and V what the last binding of each portal name
\* stands for: the two sides' maps say so too, where they say anything.
Agreed(ps, b, T, V) ==
    /\ T \in [Statements -> Sqls] /\ V \in [Portals -> Binding]
    /\ \A s \in Statements : b.statements[s] \in {None, T[s]} /\ Tells(ps.statement_plans[s], T[s])
    /\ \A p \in Portals :
        /\ b.portals[p] # None =>
               b.portals[p].sql = V[p].sql /\ b.portals[p].format = V[p].format
        /\ Fits(ps.portal_plans[p], V[p])
        /\ ps.portal_statement[p] # None =>
               V[p] = [sql |-> T[ps.portal_statement[p]], format |-> ps.portal_formats[p]]
        /\ b.skipping => b.portals[p] = None

\* A Parse of the statement is queued that no ParseComplete on the way answers.
Unanswered(ps, w, s) ==
    \E k \in DOMAIN ps.pending_parses :
        k > Count(w, {"ParseComplete"}) /\ ps.pending_parses[k].name = s

\* The replies that the session may refuse to pass on.
Judged == {"RowDescription", "NoData", "DataRow", "EmptyQueryResponse"}

\* The session has the text of a statement right, unless its Parse failed and the error is
\* on the way, which will be read before anything that could be refused.
Known(ps, w, s, T) ==
    \A x \in Statements :
        \/ ps.statement_sql[x] \in {None, T[x]}
        \/ s = None /\ Unanswered(ps, w, x) /\ ~Has(w, Judged)

\* The description answers this Describe, whose name still stands for what is described.
Describes(d, rd, T, V) ==
    /\ rd.fields = Head(Results[rd.text]) /\ d.sql \in {None, rd.text}
    /\ IF d.target.kind = "statement"
       THEN rd.text = T[d.target.name]
       ELSE BindingOf(rd) = V[d.target.name]

\* The row answers this Execute, whose portal name stands for what is executed unless it has
\* been bound again.
Belongs(e, row, generations, V) ==
    /\ row.fields = Head(Results[row.text]) /\ Fits(e.plan, BindingOf(row))
    /\ e.bind_generation = generations[e.name] => V[e.name] = BindingOf(row)

\* Every description and row on the way is of what its slot is about.
Explains(ps, w, T, V) ==
    /\ Count(w, {"ParseComplete"}) <= Len(ps.pending_parses)
    /\ \A i \in DOMAIN w : w[i].tag = "RowDescription" =>
           Describes(ps.pending_descriptions[Upto(w, Answering("Describe"), i)], w[i], T, V)
    /\ \A i \in DOMAIN w : w[i].tag = "DataRow" =>
           Belongs(ps.pending_executes[Upto(w, Answering("Execute"), i) + 1], w[i],
                   ps.portal_bind_generations, V)

\* Every row of a query comes right behind its description or is of the active plan.
Reading(ps, w) ==
    /\ \A i \in DOMAIN w : w[i].tag = "DataRow" =>
        IF i = 1
        THEN Judges(ps.active_plan, w[1])
        ELSE /\ w[i - 1].tag = "RowDescription" /\ w[i - 1].fields = w[i].fields
             /\ BindingOf(w[i - 1]) = BindingOf(w[i])
    /\ ps.pending_descriptions # << >> =>
        \A i \in DOMAIN w : w[i].tag = "RowDescription" =>
            ps.pending_descriptions[1].sql \in {None, w[i].text}

\* What the names of the plan state ps and the backend b stand for, with w on the way, s
\* swallowed and the client in o.
Named(ps, w, s, b, o, T, V) ==
    /\ Agreed(ps, b, T, V)
    /\ Known(ps, w, s, T)
    /\ s = None => IF o = "query" THEN Reading(ps, w) ELSE Explains(ps, w, T, V)

\* The habits of a patient client that lets its names settle, prepares what it will use
\* before it uses anything, and prepares texts the proxy can decode.
Orderly ==
    /\ Patient
    /\ "settled_names" \in Manners[scenario]
    /\ \A m \in Menu[scenario] : m.tag = "Parse" =>
           m.sql \in Decodable /\ "parses_first" \in Manners[scenario]

\* The names stand for something on which both sides agree, and no row is misjudged.
NameInv ==
    /\ \E T \in [Statements -> Sqls], V \in [Portals -> Binding] :
           Named(plans, wire, suppressing, db, open, T, V)
    /\ RowsJudgedByOwnPlan
    /\ RowsDecodedInBoundFormat

-----------------------------------------------------------------------------
(* Counting.                                                               *)

\* A reply's place among its kind.
LEMMA UptoInCount ==
  ASSUME NEW T, NEW w \in Seq(T), NEW tags, NEW i \in DOMAIN w
  PROVE  /\ i \in Nat /\ i >= 1 /\ i <= Len(w)
         /\ Upto(w, tags, i) \in Nat /\ Count(w, tags) \in Nat
         /\ Upto(w, tags, i) <= Count(w, tags)
         /\ w[i].tag \in tags => Upto(w, tags, i) >= 1
  <1>1. i \in Nat /\ i >= 1 /\ i <= Len(w) /\ Len(w) \in Nat
    OBVIOUS
  <1> DEFINE A == {k \in 1 .. i : w[k].tag \in tags}
             B == {k \in 1 .. Len(w) : w[k].tag \in tags}
  <1>2. IsFiniteSet(1 .. i) /\ IsFiniteSet(1 .. Len(w))
    BY <1>1, FS_Interval
  <1>3. A \subseteq B /\ IsFiniteSet(B) /\ IsFiniteSet(A)
    BY <1>1, <1>2, FS_Subset
  <1>4. Cardinality(A) \in Nat /\ Cardinality(B) \in Nat /\ Cardinality(A) <= Cardinality(B)
    BY <1>3, FS_Subset, FS_CardinalityType
  <1>5. ASSUME w[i].tag \in tags
        PROVE  Cardinality(A) >= 1
    <2>1. i \in A
      BY <1>1, <1>5
    <2>2. Cardinality(A) # 0
      BY <1>3, <2>1, FS_EmptySet
    <2> QED
      BY <1>4, <2>2
  <1> QED
    BY <1>1, <1>4, <1>5 DEF Upto, Count

-----------------------------------------------------------------------------
(* What neither side makes up.                                             *)

\* From ps to qs the session forgets names and plans but gives none a new meaning.
Forgets(ps, qs) ==
    /\ \A s \in Statements : qs.statement_plans[s] \in {None, ps.statement_plans[s]}
    /\ \A p \in Portals :
        /\ qs.portal_plans[p] \in {None, ps.portal_plans[p]}
        /\ qs.portal_statement[p] \in {None, ps.portal_statement[p]}
        /\ qs.portal_statement[p] # None => qs.portal_formats[p] = ps.portal_formats[p]

\* From b to b2 the backend drops names but gives none a new meaning.
Drops(b, b2) ==
    /\ \A s \in Statements : b2.statements[s] \in {None, b.statements[s]}
    /\ \A p \in Portals : b2.portals[p] # None =>
           /\ b.portals[p] # None
           /\ b2.portals[p].sql = b.portals[p].sql
           /\ b2.portals[p].format = b.portals[p].format
    /\ b2.skipping => b.skipping \/ \A p \in Portals : b2.portals[p] = None

\* Forgetting contradicts nothing.
LEMMA AgreedForgets ==
  ASSUME NEW ps, NEW qs, NEW b, NEW b2, NEW T, NEW V, Agreed(ps, b, T, V),
         Forgets(ps, qs), Drops(b, b2)
  PROVE  Agreed(qs, b2, T, V)
  <1>1. T \in [Statements -> Sqls] /\ V \in [Portals -> Binding]
    BY DEF Agreed
  <1>2. ASSUME NEW s \in Statements
        PROVE  b2.statements[s] \in {None, T[s]} /\ Tells(qs.statement_plans[s], T[s])
    <2>1. b.statements[s] \in {None, T[s]} /\ Tells(ps.statement_plans[s], T[s])
      BY DEF Agreed
    <2>2. /\ b2.statements[s] \in {None, b.statements[s]}
          /\ qs.statement_plans[s] \in {None, ps.statement_plans[s]}
      BY DEF Forgets, Drops
    <2> QED
      BY <2>1, <2>2 DEF Tells
  <1>3. ASSUME NEW p \in Portals
        PROVE  /\ b2.portals[p] # None =>
                      b2.portals[p].sql = V[p].sql /\ b2.portals[p].format = V[p].format
               /\ Fits(qs.portal_plans[p], V[p])
               /\ qs.portal_statement[p] # None =>
                      V[p] = [sql |-> T[qs.portal_statement[p]],
                              format |-> qs.portal_formats[p]]
               /\ b2.skipping => b2.portals[p] = None
    <2>1. /\ b.portals[p] # None =>
                 b.portals[p].sql = V[p].sql /\ b.portals[p].format = V[p].format
          /\ Fits(ps.portal_plans[p], V[p])
          /\ ps.portal_statement[p] # None =>
                 V[p] = [sql |-> T[ps.portal_statement[p]], format |-> ps.portal_formats[p]]
          /\ b.skipping => b.portals[p] = None
      BY DEF Agreed
    <2>2. /\ qs.portal_plans[p] \in {None, ps.portal_plans[p]}
          /\ qs.portal_statement[p] \in {None, ps.portal_statement[p]}
          /\ qs.portal_statement[p] # None => qs.portal_formats[p] = ps.portal_formats[p]
      BY DEF Forgets
    <2>3. Fits(qs.portal_plans[p], V[p])
      BY <2>1, <2>2 DEF Fits, Tells
    <2> QED
      BY <2>1, <2>2, <2>3 DEF Drops
  <1> QED
    BY <1>1, <1>2, <1>3 DEF Agreed

-----------------------------------------------------------------------------
(* What the backend does to its names.                                     *)

\* A record b2 with the statements of b, dropped or kept, and no other portal.
LEMMA DropsByFields ==
  ASSUME NEW b, NEW b2,
         \A s \in Statements : b2.statements[s] \in {None, b.statements[s]},
         \A p \in Portals : b2.portals[p] \in {None, b.portals[p]},
         b2.skipping => b.skipping \/ \A p \in Portals : b2.portals[p] = None
  PROVE  Drops(b, b2)
  BY DEF Drops

\* An error drops the portals.
LEMMA FailDrops ==
  ASSUME NEW b \in BackendState
  PROVE  /\ Drops(b, ExtendedError(b).db)
         /\ ExtendedError(b).db.statements = b.statements
         /\ \A p \in Portals : ExtendedError(b).db.portals[p] = None
         /\ ExtendedError(b).replies = << Plain("ErrorResponse") >>
         /\ Fails(ExtendedError(b).replies)
  <1>1. /\ ExtendedError(b).db.statements = b.statements
        /\ ExtendedError(b).db.portals = NoPortals
        /\ ExtendedError(b).replies = << Plain("ErrorResponse") >>
    BY DEF BackendState, Fail, ExtendedError, Answer
  <1>2. \A p \in Portals : NoPortals[p] = None
    BY DEF NoPortals
  <1>3. Fails(<< Plain("ErrorResponse") >>)
    BY DEF Fails, Plain
  <1> QED
    BY <1>1, <1>2, <1>3, DropsByFields

\* Fetching from a portal changes nothing that it stands for.
LEMMA FetchDrops ==
  ASSUME NEW b \in BackendState, NEW portal \in Portals, NEW n, b.portals[portal] # None
  PROVE  Drops(b, [b EXCEPT !.portals[portal].left = n])
  <1> DEFINE b2 == [b EXCEPT !.portals[portal].left = n]
  <1>1. b.portals \in [Portals -> Option(BackendPortal)]
    BY BackendTyped
  <1>2. b.portals[portal] \in BackendPortal
    BY <1>1 DEF Option
  <1>3. /\ b2.statements = b.statements
        /\ b2.portals = [b.portals EXCEPT ![portal] = [b.portals[portal] EXCEPT !.left = n]]
    BY DEF BackendState
  <1>4. ASSUME NEW p \in Portals, p # portal
        PROVE  b2.portals[p] = b.portals[p]
    BY <1>1, <1>3, <1>4
  <1>5. /\ b2.portals[portal].sql = b.portals[portal].sql
        /\ b2.portals[portal].format = b.portals[portal].format
    BY <1>1, <1>2, <1>3 DEF BackendPortal
  <1> HIDE DEF b2
  <1>6. ASSUME NEW p \in Portals, b2.portals[p] # None
        PROVE  /\ b.portals[p] # None
               /\ b2.portals[p].sql = b.portals[p].sql
               /\ b2.portals[p].format = b.portals[p].format
    BY <1>4, <1>5, <1>6
  <1>7. b2.skipping = b.skipping
    BY DEF b2, BackendState
  <1>8. Drops(b, b2)
    BY <1>3, <1>6, <1>7 DEF Drops
  <1> QED
    BY <1>8 DEF b2

\* Running a portal gives no name a new meaning.
LEMMA ExecuteDrops ==
  ASSUME NEW b \in BackendState, NEW m \in Message, m.tag = "Execute"
  PROVE  Drops(b, ServeExecute(b, m).db)
  <1> DEFINE portal == b.portals[m.portal]
             r == ServeExecute(b, m).db
  <1>1. m.portal \in Portals
    BY DEF Message
  <1>2. Drops(b, b)
    BY DropsByFields
  <1>3. \A t : Drops(b, [b EXCEPT !.txn = t])
    BY DropsByFields DEF BackendState
  <1>4. ASSUME NEW t
        PROVE  Drops(b, [b EXCEPT !.txn = t, !.portals = NoPortals])
    <2> DEFINE b2 == [b EXCEPT !.txn = t, !.portals = NoPortals]
    <2>1. b2.statements = b.statements /\ b2.portals = NoPortals
      BY DEF BackendState
    <2>2. \A p \in Portals : NoPortals[p] = None
      BY DEF NoPortals
    <2> HIDE DEF b2
    <2>3. Drops(b, b2)
      BY <2>1, <2>2, DropsByFields
    <2> QED
      BY <2>3 DEF b2
  <1>5. Drops(b, ExtendedError(b).db)
    BY FailDrops
  <1>6. \/ r = ExtendedError(b).db
        \/ r = [b EXCEPT !.txn = "T"]
        \/ r = [b EXCEPT !.txn = "I", !.portals = NoPortals]
        \/ r = b
        \/ portal # None /\ \E n : r = [b EXCEPT !.portals[m.portal].left = n]
    BY DEF ServeExecute, Answer
  <1>7. portal # None => \A n : Drops(b, [b EXCEPT !.portals[m.portal].left = n])
    BY <1>1, FetchDrops
  <1> HIDE DEF r
  <1> QED
    BY <1>2, <1>3, <1>4, <1>5, <1>6, <1>7 DEF r

\* Closing drops names.
LEMMA CloseDrops ==
  ASSUME NEW b \in BackendState, NEW m \in Message, m.tag = "Close"
  PROVE  Drops(b, ServeClose(b, m).db)
  <1>1. /\ b.statements \in [Statements -> Option(Sqls)]
        /\ b.portals \in [Portals -> Option(BackendPortal)]
    BY BackendTyped
  <1>2. m.target \in Target
    BY DEF Message
  <1>3. CASE m.target.kind = "portal"
    <2>1. /\ ServeClose(b, m).db.statements = b.statements
          /\ ServeClose(b, m).db.portals = [b.portals EXCEPT ![m.target.name] = None]
          /\ ServeClose(b, m).db.skipping = b.skipping
      BY <1>3 DEF ServeClose, Answer, BackendState
    <2> QED
      BY <1>1, <2>1, DropsByFields
  <1>4. CASE m.target.kind # "portal"
    <2>1. /\ ServeClose(b, m).db.statements = [b.statements EXCEPT ![m.target.name] = None]
          /\ ServeClose(b, m).db.portals =
                [p \in Portals |->
                    IF b.portals[p] # None /\ b.portals[p].from = m.target.name
                    THEN None ELSE b.portals[p]]
          /\ ServeClose(b, m).db.skipping = b.skipping
      BY <1>4 DEF ServeClose, Answer, BackendState
    <2> QED
      BY <1>1, <2>1, DropsByFields
  <1> QED
    BY <1>3, <1>4

\* A query drops the unnamed statement and, outside a transaction, the portals.
LEMMA QueryDrops ==
  ASSUME NEW b \in BackendState, NEW m \in Message, m.tag = "Query"
  PROVE  Drops(b, ServeQuery(b, m).db)
  <1> DEFINE r == ServeQuery(b, m).db
             s == [b.statements EXCEPT ![UnnamedStatement] = None]
             q == [b.portals EXCEPT ![UnnamedPortal] = None]
  <1>1. /\ b.statements \in [Statements -> Option(Sqls)]
        /\ b.portals \in [Portals -> Option(BackendPortal)]
    BY BackendTyped
  <1>2. /\ r.statements = s
        /\ r.portals \in {q, NoPortals} /\ r.skipping = b.skipping
    BY DEF ServeQuery, Fail, Answer, BackendState
  <1>3. \A x \in Statements : s[x] \in {None, b.statements[x]}
    BY <1>1
  <1>4. \A p \in Portals : NoPortals[p] = None /\ q[p] \in {None, b.portals[p]}
    BY <1>1 DEF NoPortals
  <1> HIDE DEF r, s, q
  <1>5. \A p \in Portals : r.portals[p] \in {None, b.portals[p]}
    BY <1>2, <1>4
  <1> QED
    BY <1>2, <1>3, <1>5, DropsByFields DEF r

\* Nothing but a Parse or a Bind gives a name a meaning.
LEMMA ServeDrops ==
  ASSUME NEW b \in BackendState, NEW m \in Message, m.tag \notin {"Parse", "Bind"}
  PROVE  Drops(b, Serve(b, m).db)
  <1>1. Drops(b, b)
    BY DropsByFields
  <1>2. CASE b.skipping /\ m.tag # "Sync"
    BY <1>1, <1>2 DEF Serve, Answer
  <1>3. CASE ~(b.skipping /\ m.tag # "Sync")
    <2>1. m.tag \in {"Query", "Describe", "Execute", "Close", "Sync"}
      BY DEF Message
    <2>2. CASE m.tag = "Query"
      BY <1>3, <2>2, QueryDrops DEF Serve
    <2>3. CASE m.tag = "Describe"
      <3>1. Serve(b, m) = ServeDescribe(b, m)
        BY <1>3, <2>3 DEF Serve
      <3>2. ServeDescribe(b, m).db \in {b, ExtendedError(b).db}
        BY DEF ServeDescribe, Answer
      <3> QED
        BY <1>1, <3>1, <3>2, FailDrops
    <2>4. CASE m.tag = "Execute"
      BY <1>3, <2>4, ExecuteDrops DEF Serve
    <2>5. CASE m.tag = "Close"
      BY <1>3, <2>5, CloseDrops DEF Serve
    <2>6. CASE m.tag = "Sync"
      <3>1. Serve(b, m) = ServeSync(b)
        BY <2>6 DEF Serve
      <3>2. /\ ServeSync(b).db.statements = b.statements
            /\ ServeSync(b).db.portals \in {b.portals, NoPortals}
            /\ ServeSync(b).db.skipping = FALSE
        BY DEF ServeSync, Answer, BackendState
      <3>3. \A p \in Portals : NoPortals[p] = None
        BY DEF NoPortals
      <3>4. \A p \in Portals : ServeSync(b).db.portals[p] \in {None, b.portals[p]}
        BY <3>2, <3>3
      <3> QED
        BY <3>1, <3>2, <3>4, DropsByFields
    <2> QED
      BY <2>1, <2>2, <2>3, <2>4, <2>5, <2>6
  <1> QED
    BY <1>2, <1>3

\* A Parse names the text or fails; while an exchange is failed it does neither.
LEMMA ParseServed ==
  ASSUME NEW b \in BackendState, NEW m \in Message, m.tag = "Parse", NEW a, a = Serve(b, m)
  PROVE  \/ Drops(b, a.db) /\ (b.skipping \/ Fails(a.replies))
         \/ /\ ~b.skipping /\ ~a.db.skipping
            /\ a.db.statements = [b.statements EXCEPT ![m.name] = m.sql]
            /\ a.db.portals = b.portals
            /\ Len(a.replies) = 1 /\ a.replies[1].tag = "ParseComplete"
  <1>1. CASE b.skipping
    <2>1. a.db = b
      BY <1>1 DEF Serve, Answer
    <2> QED
      BY <1>1, <2>1, DropsByFields
  <1>2. CASE ~b.skipping
    <2> DEFINE dropped == IF m.name = UnnamedStatement
                          THEN [b EXCEPT !.statements[m.name] = None] ELSE b
    <2>1. m.name \in Statements /\ m.sql \in Sqls
      BY DEF Message
    <2>2. a = ServeParse(b, m)
      BY <1>2 DEF Serve
    <2>3. \/ a = ExtendedError(dropped)
          \/ a = Answer([b EXCEPT !.statements[m.name] = m.sql], << Plain("ParseComplete") >>)
      BY <2>2 DEF ServeParse
    <2>4. CASE a = ExtendedError(dropped)
      <3>1. b.statements \in [Statements -> Option(Sqls)]
        BY BackendTyped
      <3>2. /\ dropped.statements \in {b.statements, [b.statements EXCEPT ![m.name] = None]}
            /\ dropped \in BackendState
        BY <2>1, <3>1 DEF BackendState, Option
      <3> HIDE DEF dropped
      <3>3. /\ a.db.statements = dropped.statements /\ Fails(a.replies)
            /\ \A p \in Portals : a.db.portals[p] = None
        BY <2>4, <3>2, FailDrops
      <3>4. \A s \in Statements : a.db.statements[s] \in {None, b.statements[s]}
        BY <3>1, <3>2, <3>3
      <3>5. Drops(b, a.db)
        BY <3>3, <3>4, DropsByFields
      <3> QED
        BY <3>3, <3>5
    <2>5. CASE a = Answer([b EXCEPT !.statements[m.name] = m.sql],
                          << Plain("ParseComplete") >>)
      <3>1. /\ a.db = [b EXCEPT !.statements[m.name] = m.sql]
            /\ a.replies = << Plain("ParseComplete") >>
        BY <2>5 DEF Answer
      <3>2. /\ a.db.statements = [b.statements EXCEPT ![m.name] = m.sql]
            /\ a.db.portals = b.portals /\ a.db.skipping = b.skipping
        BY <3>1 DEF BackendState
      <3> QED
        BY <1>2, <3>1, <3>2 DEF Plain
    <2> QED
      BY <2>3, <2>4, <2>5
  <1> QED
    BY <1>1, <1>2

\* A Bind gives the portal the text of its statement or fails; while an exchange is failed
\* it does neither.
LEMMA BindServed ==
  ASSUME NEW b \in BackendState, NEW m \in Message, m.tag = "Bind", NEW a, a = Serve(b, m)
  PROVE  \/ b.skipping /\ a.db = b
         \/ Drops(b, a.db) /\ \A p \in Portals : a.db.portals[p] = None
         \/ /\ a.db.statements = b.statements /\ ~a.db.skipping
            /\ b.statements[m.statement] # None
            /\ \A p \in Portals \ {m.portal} : a.db.portals[p] = b.portals[p]
            /\ a.db.portals[m.portal].sql = b.statements[m.statement]
            /\ a.db.portals[m.portal].format = m.formats
  <1>1. CASE b.skipping
    BY <1>1 DEF Serve, Answer
  <1>2. CASE ~b.skipping
    <2> DEFINE new == [sql |-> b.statements[m.statement], from |-> m.statement,
                       format |-> m.formats, left |-> FetchesPerPortal]
    <2>1. m.portal \in Portals /\ b.portals \in [Portals -> Option(BackendPortal)]
      BY BackendTyped DEF Message
    <2>2. a = ServeBind(b, m)
      BY <1>2 DEF Serve
    <2>3. \/ a = ExtendedError(b)
          \/ /\ b.statements[m.statement] # None
             /\ a.db = [b EXCEPT !.portals[m.portal] = new]
      BY <2>2 DEF ServeBind, Answer
    <2>4. CASE a = ExtendedError(b)
      BY <2>4, FailDrops
    <2>5. CASE /\ b.statements[m.statement] # None
               /\ a.db = [b EXCEPT !.portals[m.portal] = new]
      <3>1. /\ a.db.statements = b.statements /\ a.db.skipping = b.skipping
            /\ a.db.portals = [b.portals EXCEPT ![m.portal] = new]
        BY <2>5 DEF BackendState
      <3>2. a.db.portals[m.portal] = new
        BY <2>1, <3>1
      <3>3. /\ a.db.portals[m.portal].sql = b.statements[m.statement]
            /\ a.db.portals[m.portal].format = m.formats
        BY <3>2
      <3> HIDE DEF new
      <3>4. \A p \in Portals \ {m.portal} : a.db.portals[p] = b.portals[p]
        BY <2>1, <3>1
      <3> QED
        BY <1>2, <2>5, <3>1, <3>3, <3>4
    <2> QED
      BY <2>3, <2>4, <2>5
  <1> QED
    BY <1>1, <1>2

\* A description or a row is of this text, bound in this format.
Shows(reply, text, format) ==
    reply.fields = Head(Results[text]) /\ reply.text = text /\ reply.format = format

\* The description answers with what its target stands for.
LEMMA DescribeShows ==
  ASSUME NEW b \in BackendState, NEW m \in Message, m.tag = "Describe", ~b.skipping,
         NEW i \in DOMAIN Serve(b, m).replies, Serve(b, m).replies[i].tag = "RowDescription"
  PROVE  IF m.target.kind = "statement"
         THEN /\ b.statements[m.target.name] # None
              /\ Shows(Serve(b, m).replies[i], b.statements[m.target.name], "text")
         ELSE /\ b.portals[m.target.name] # None
              /\ Shows(Serve(b, m).replies[i], b.portals[m.target.name].sql,
                       b.portals[m.target.name].format)
  <1> DEFINE portal == m.target.kind = "portal"
             sql == IF ~portal
                    THEN b.statements[m.target.name]
                    ELSE IF b.portals[m.target.name] = None
                    THEN None
                    ELSE b.portals[m.target.name].sql
             format == IF portal THEN b.portals[m.target.name].format ELSE "text"
             x == IF Results[sql] = << >>
                  THEN Plain("NoData")
                  ELSE Shaped("RowDescription", Head(Results[sql]), sql, format)
             r == Serve(b, m).replies
  <1>1. m.target \in Target
    BY DEF Message
  <1>2. Serve(b, m) = ServeDescribe(b, m)
    BY DEF Serve
  <1>3. \/ r = << Plain("ErrorResponse") >>
        \/ sql # None /\ r = << x >>
    <2>1. ServeDescribe(b, m) = IF sql = None \/ Blocked(b, sql)
                                THEN ExtendedError(b) ELSE Answer(b, << x >>)
      BY DEF ServeDescribe
    <2> HIDE DEF sql, x
    <2> QED
      BY <1>2, <2>1, FailDrops DEF Answer
  <1>4. r[i].tag = "RowDescription" /\ i \in DOMAIN r
    OBVIOUS
  <1>5. sql # None /\ r[i] = x
    <2> HIDE DEF sql, x, r
    <2>1. CASE r = << Plain("ErrorResponse") >>
      BY <1>4, <2>1 DEF Plain
    <2>2. CASE sql # None /\ r = << x >>
      BY <1>4, <2>2
    <2> QED
      BY <1>3, <2>1, <2>2
  <1>6. x = Shaped("RowDescription", Head(Results[sql]), sql, format)
    <2>1. x.tag = "RowDescription"
      BY <1>4, <1>5
    <2>2. Plain("NoData").tag = "NoData"
      BY DEF Plain
    <2> QED
      BY <2>1, <2>2
  <1>7. Shows(r[i], sql, format)
    BY <1>5, <1>6 DEF Shows, Shaped
  <1>8. m.target.kind = "statement" <=> ~portal
    BY <1>1 DEF Target
  <1> QED
    BY <1>5, <1>7, <1>8

\* The row answers with what its portal stands for.
LEMMA ExecuteShows ==
  ASSUME NEW b \in BackendState, NEW m \in Message, m.tag = "Execute", ~b.skipping,
         NEW i \in DOMAIN Serve(b, m).replies, Serve(b, m).replies[i].tag = "DataRow"
  PROVE  /\ b.portals[m.portal] # None
         /\ Shows(Serve(b, m).replies[i], b.portals[m.portal].sql, b.portals[m.portal].format)
  <1> DEFINE portal == b.portals[m.portal]
             x == Shaped("DataRow", Head(Results[portal.sql]), portal.sql, portal.format)
             r == Serve(b, m).replies
  <1>1. Serve(b, m) = ServeExecute(b, m)
    BY DEF Serve
  <1>2. \/ r = << Plain("ErrorResponse") >> \/ r = << Plain("CommandComplete") >>
        \/ r = << Plain("EmptyQueryResponse") >>
        \/ portal # None /\ r = << x, Plain("PortalSuspended") >>
        \/ portal # None /\ r = << x >> \o << Plain("CommandComplete") >>
    <2>1. \/ Serve(b, m) = ExtendedError(b)
          \/ \E c : Serve(b, m) = Answer(c, << Plain("CommandComplete") >>)
          \/ \E c : Serve(b, m) = Answer(c, << Plain("EmptyQueryResponse") >>)
          \/ portal # None /\ \E c : Serve(b, m) = Answer(c, << x, Plain("PortalSuspended") >>)
          \/ portal # None
                /\ \E c : Serve(b, m) = Answer(c, << x >> \o << Plain("CommandComplete") >>)
      BY <1>1 DEF ServeExecute
    <2> HIDE DEF x, portal
    <2> QED
      BY <2>1, FailDrops DEF Answer
  <1>3. ASSUME NEW y, NEW z
        PROVE  << y >> \o << z >> = << y, z >>
    <2>1. << y >> \in Seq({y, z}) /\ << z >> \in Seq({y, z}) /\ << y, z >> \in Seq({y, z})
      OBVIOUS
    <2>2. /\ << y >> \o << z >> \in Seq({y, z}) /\ Len(<< y >> \o << z >>) = 2
          /\ (<< y >> \o << z >>)[1] = y /\ (<< y >> \o << z >>)[2] = z
      BY <2>1
    <2>3. Len(<< y, z >>) = 2 /\ << y, z >>[1] = y /\ << y, z >>[2] = z
      OBVIOUS
    <2> DEFINE s == << y >> \o << z >>
               t == << y, z >>
    <2>4. \A k \in 1 .. Len(s) : s[k] = t[k]
      BY <2>2, <2>3
    <2> HIDE DEF s, t
    <2>5. s \in Seq({y, z}) /\ t \in Seq({y, z}) /\ Len(s) = Len(t)
      BY <2>1, <2>2, <2>3 DEF s, t
    <2>6. s = t
      BY <2>4, <2>5, SeqEqual
    <2> QED
      BY <2>6 DEF s, t
  <1>4. r[i].tag = "DataRow" /\ i \in DOMAIN r
    OBVIOUS
  <1>5. portal # None /\ r[i] = x
    <2> HIDE DEF x, portal, r
    <2>1. ASSUME NEW tag \in PlainTags, r = << Plain(tag) >>
          PROVE  FALSE
      BY <1>4, <2>1 DEF Plain, PlainTags
    <2>2. ASSUME NEW tag \in PlainTags, portal # None, r = << x, Plain(tag) >>
          PROVE  r[i] = x
      BY <1>4, <2>2 DEF Plain, PlainTags
    <2> QED
      BY <1>2, <1>3, <2>1, <2>2 DEF PlainTags
  <1> QED
    BY <1>5 DEF Shows, Shaped

\* Every row is behind its own description, and all are of the one text.
Follows(d, text) ==
    \A i \in DOMAIN d :
        /\ d[i].tag \in {"RowDescription", "DataRow"} => d[i].text = text
        /\ d[i].tag = "DataRow" =>
              /\ i # 1 /\ i - 1 \in DOMAIN d
              /\ d[i - 1].tag = "RowDescription"
              /\ d[i - 1].fields = d[i].fields /\ d[i - 1].format = d[i].format

\* Replies without a row of which at most the first is a description.
LEMMA FollowsWithoutRow ==
  ASSUME NEW d, NEW text, \A i \in DOMAIN d : d[i].tag # "DataRow",
         \A i \in DOMAIN d : d[i].tag = "RowDescription" => d[i].text = text
  PROVE  Follows(d, text)
  BY DEF Follows

\* The rows of a query follow their descriptions.
LEMMA QueryFollows ==
  ASSUME NEW b \in BackendState, NEW m \in Message, m.tag = "Query", ~b.skipping
  PROVE  Follows(Serve(b, m).replies, m.sql)
  <1> DEFINE kind == IF Blocked(b, m.sql) THEN "parse_error" ELSE Kind[m.sql]
             dropped == [b EXCEPT !.statements[UnnamedStatement] = None,
                                  !.portals[UnnamedPortal] = None]
             txn == IF kind = "begin" THEN "T" ELSE IF kind = "commit" THEN "I" ELSE b.txn
             ended == [dropped EXCEPT !.txn = txn,
                                      !.portals = IF txn = "I" THEN NoPortals ELSE @]
             failed == Fail(dropped)
             Shape(tag, fields) == Shaped(tag, fields, m.sql, "text")
             Result(fields) == << Shape("RowDescription", fields), Shape("DataRow", fields),
                                  Plain("CommandComplete") >>
             results == Results[m.sql]
             rows == IF Len(results) = 1
                     THEN Result(results[1])
                     ELSE Result(results[1]) \o Result(results[2])
  <1>1. ServeQuery(b, m) =
            CASE kind = "rows" -> Answer(ended, rows \o << Ready(txn) >>)
              [] kind = "empty" -> Answer(ended, << Plain("EmptyQueryResponse"), Ready(txn) >>)
              [] kind = "parse_error" ->
                    Answer(failed, << Plain("ErrorResponse"), Ready(failed.txn) >>)
              [] kind = "run_error" ->
                    Answer(failed, << Shape("RowDescription", results[1]),
                                      Plain("ErrorResponse"), Ready(failed.txn) >>)
              [] OTHER -> Answer(ended, << Plain("CommandComplete"), Ready(txn) >>)
    BY DEF ServeQuery
  <1> HIDE DEF kind, dropped, txn, ended, failed
  <1>2. /\ \A status : Ready(status).tag = "ReadyForQuery"
        /\ \A tag : Plain(tag).tag = tag
        /\ \A tag, fields : /\ Shape(tag, fields).tag = tag
                            /\ Shape(tag, fields).fields = fields
                            /\ Shape(tag, fields).text = m.sql
                            /\ Shape(tag, fields).format = "text"
    BY DEF Ready, Plain, Shaped
  <1> HIDE DEF Shape
  <1>3. \A tag \in {"CommandComplete", "ErrorResponse", "EmptyQueryResponse"} : \A status :
            Follows(<< Plain(tag), Ready(status) >>, m.sql)
    BY <1>2, FollowsWithoutRow
  <1>4. \A status : Follows(<< Shape("RowDescription", results[1]), Plain("ErrorResponse"),
                               Ready(status) >>, m.sql)
    BY <1>2, FollowsWithoutRow
  <1>5. Follows(rows \o << Ready(txn) >>, m.sql)
    <2>1. ASSUME NEW fields PROVE Follows(Result(fields) \o << Ready(txn) >>, m.sql)
      <3> DEFINE d == Result(fields) \o << Ready(txn) >>
      <3>1. /\ DOMAIN d = 1 .. 4
            /\ d[1] = Shape("RowDescription", fields) /\ d[2] = Shape("DataRow", fields)
            /\ d[3] = Plain("CommandComplete") /\ d[4] = Ready(txn)
        OBVIOUS
      <3> HIDE DEF d
      <3>2. Follows(d, m.sql)
        BY <1>2, <3>1 DEF Follows
      <3> QED
        BY <3>2 DEF d
    <2>2. ASSUME NEW first, NEW second
          PROVE  Follows((Result(first) \o Result(second)) \o << Ready(txn) >>, m.sql)
      <3> DEFINE d == (Result(first) \o Result(second)) \o << Ready(txn) >>
      <3>1. /\ DOMAIN d = 1 .. 7
            /\ d[1] = Shape("RowDescription", first) /\ d[2] = Shape("DataRow", first)
            /\ d[3] = Plain("CommandComplete")
            /\ d[4] = Shape("RowDescription", second) /\ d[5] = Shape("DataRow", second)
            /\ d[6] = Plain("CommandComplete") /\ d[7] = Ready(txn)
        OBVIOUS
      <3> HIDE DEF d
      <3>2. Follows(d, m.sql)
        BY <1>2, <3>1 DEF Follows
      <3> QED
        BY <3>2 DEF d
    <2> HIDE DEF Result
    <2> QED
      BY <2>1, <2>2
  <1> HIDE DEF rows
  <1>6. Follows(ServeQuery(b, m).replies, m.sql)
    BY <1>1, <1>3, <1>4, <1>5 DEF Answer
  <1> QED
    BY <1>6 DEF Serve

\* Dated, they still do.
LEMMA DatedFollows ==
  ASSUME NEW d, NEW r, DatedAnswer(d, r), NEW text, Follows(r, text)
  PROVE  Follows(d, text)
  BY DEF DatedAnswer, Follows

\* So the session will read each row behind its own description.
LEMMA FollowsReading ==
  ASSUME NEW ps, NEW d \in Seq(Reply), NEW text, Follows(d, text),
         Len(ps.pending_descriptions) = 1, ps.pending_descriptions[1].sql \in {None, text}
  PROVE  Reading(ps, d)
  BY DEF Follows, Reading, BindingOf

-----------------------------------------------------------------------------
(* What the session's calls do to its names.                               *)

\* From ps to qs no text of a statement is new.
Recalls(ps, qs) == \A s \in Statements : qs.statement_sql[s] \in {None, ps.statement_sql[s]}

\* From ps to qs no name or plan is touched.
SameNames(ps, qs) ==
    /\ qs.statement_plans = ps.statement_plans /\ qs.statement_sql = ps.statement_sql
    /\ qs.portal_statement = ps.portal_statement /\ qs.portal_plans = ps.portal_plans
    /\ qs.portal_formats = ps.portal_formats

\* Touching no name forgets none.
LEMMA SameForgets ==
  ASSUME NEW ps, NEW qs, SameNames(ps, qs)
  PROVE  Forgets(ps, qs) /\ Recalls(ps, qs)
  BY DEF SameNames, Forgets, Recalls

\* The calls that only move slots and what is armed.
LEMMA NamesUntouched ==
  ASSUME NEW ps \in State
  PROVE  /\ SameNames(ps, ps)
         /\ SameNames(ps, ClearActive(ps))
         /\ \A sql : SameNames(ps, BeginSimpleQuery(ps, sql))
         /\ \A target : SameNames(ps, Describe(ps, target))
         /\ \A portal : SameNames(ps, Execute(ps, portal))
         /\ SameNames(ps, Sync(ps))
         /\ SameNames(ps, FinishParse(ps))
         /\ \A status : SameNames(ps, ReadyForQuery(ps, status))
         /\ SameNames(ps, FinishResultSet(ps))
         /\ \A epoch : SameNames(ps, FinishSuppressedEpoch(ps, epoch))
         /\ SameNames(ps, FinishNoData(ps))
         /\ SameNames(ps, FinishEmptyQuery(ps))
         /\ SameNames(ps, DiscardDescription(ps))
  <1>1. SameNames(ps, ps) /\ SameNames(ps, ClearActive(ps))
    BY DEF ClearActive, State, SameNames
  <1>2. \A sql : SameNames(ps, BeginSimpleQuery(ps, sql))
    BY DEF BeginSimpleQuery, ClearActive, State, SameNames
  <1>3. \A target : SameNames(ps, Describe(ps, target))
    BY DEF Describe, State, SameNames
  <1>4. \A portal : SameNames(ps, Execute(ps, portal))
    BY DEF Execute, QueueExecute, State, SameNames
  <1>5. SameNames(ps, Sync(ps)) /\ SameNames(ps, FinishParse(ps))
    BY DEF Sync, FinishParse, State, SameNames
  <1>6. \A status : SameNames(ps, ReadyForQuery(ps, status))
    BY DEF ReadyForQuery, State, SameNames
  <1>7. SameNames(ps, FinishResultSet(ps))
    BY DEF FinishResultSet, State, SameNames
  <1>8. \A epoch : SameNames(ps, FinishSuppressedEpoch(ps, epoch))
    BY DEF FinishSuppressedEpoch, State, SameNames
  <1>9. SameNames(ps, FinishNoData(ps)) /\ SameNames(ps, FinishEmptyQuery(ps))
    BY DEF FinishNoData, FinishEmptyQuery, State, SameNames
  <1>10. SameNames(ps, DiscardDescription(ps))
    BY DEF DiscardDescription, State, SameNames
  <1> QED
    BY <1>1, <1>2, <1>3, <1>4, <1>5, <1>6, <1>7, <1>8, <1>9, <1>10

\* sync_policy forgets plans.
LEMMA InvalidateForgets ==
  ASSUME NEW ps \in State, NEW current, NEW qs, qs = InvalidateIfStale(ps, current)
  PROVE  /\ Forgets(ps, qs) /\ qs.statement_sql = ps.statement_sql
         /\ qs.portal_statement = ps.portal_statement
         /\ qs.pending_parses = ps.pending_parses
  <1>1. /\ qs.statement_sql = ps.statement_sql /\ qs.portal_statement = ps.portal_statement
        /\ qs.portal_formats = ps.portal_formats /\ qs.pending_parses = ps.pending_parses
    BY DEF InvalidateIfStale, State
  <1>2. /\ \A s \in Statements : qs.statement_plans[s] \in {None, ps.statement_plans[s]}
        /\ \A p \in Portals : qs.portal_plans[p] \in {None, ps.portal_plans[p]}
    BY DEF InvalidateIfStale, State
  <1> QED
    BY <1>1, <1>2 DEF Forgets

\* close forgets names.
LEMMA CloseForgets ==
  ASSUME NEW ps \in State, NEW target, NEW qs, qs = Close(ps, target)
  PROVE  Forgets(ps, qs) /\ Recalls(ps, qs)
  <1> DEFINE closed == IF target.kind = "portal" THEN {target.name} ELSE BoundTo(ps, target.name)
             Without(map) == [p \in Portals |-> IF p \in closed THEN None ELSE map[p]]
             Forget(map) == [s \in Statements |->
                IF target.kind = "statement" /\ s = target.name THEN None ELSE map[s]]
  <1>1. /\ qs.statement_sql = Forget(ps.statement_sql)
        /\ qs.statement_plans = Forget(ps.statement_plans)
        /\ qs.portal_statement = Without(ps.portal_statement)
        /\ qs.portal_plans = Without(ps.portal_plans)
        /\ qs.portal_formats = Without(ps.portal_formats)
    BY DEF Close, State
  <1> HIDE DEF closed
  <1> QED
    BY <1>1 DEF Forgets, Recalls

\* discard_failed_epoch forgets the names of the failed exchange.
LEMMA DiscardForgets ==
  ASSUME NEW ps \in State, NEW qs, qs = DiscardFailedEpoch(ps)
  PROVE  Forgets(ps, qs) /\ Recalls(ps, qs)
  <1> DEFINE failed == CHOOSE e \in FailedEpochs(ps) : \A f \in FailedEpochs(ps) : e <= f
             statements == DiedWith(ps.pending_parses, failed)
             portals == DiedWith(ps.pending_binds, failed)
  <1>1. CASE FailedEpochs(ps) = {}
    <2>1. SameNames(ps, qs)
      BY <1>1 DEF DiscardFailedEpoch, State, SameNames
    <2> QED
      BY <2>1, SameForgets
  <1>2. CASE FailedEpochs(ps) # {}
    <2>1. /\ qs.statement_sql =
                [s \in Statements |-> IF s \in statements THEN None ELSE ps.statement_sql[s]]
          /\ qs.statement_plans =
                [s \in Statements |-> IF s \in statements THEN None ELSE ps.statement_plans[s]]
          /\ qs.portal_statement =
                [p \in Portals |-> IF p \in portals THEN None ELSE ps.portal_statement[p]]
          /\ qs.portal_plans =
                [p \in Portals |-> IF p \in portals THEN None ELSE ps.portal_plans[p]]
          /\ qs.portal_formats = ps.portal_formats
      BY <1>2 DEF DiscardFailedEpoch, State
    <2> HIDE DEF statements, portals
    <2> QED
      BY <2>1 DEF Forgets, Recalls
  <1> QED
    BY <1>1, <1>2

\* When one exchange is queued, the error drops the text of every Parse still queued.
LEMMA DiscardDropsParses ==
  ASSUME NEW ps \in State, NEW e \in Nat, OneEpoch(ps, e), NEW qs, qs = DiscardFailedEpoch(ps),
         NEW k \in DOMAIN ps.pending_parses
  PROVE  qs.statement_sql[ps.pending_parses[k].name] = None
  <1> DEFINE failed == CHOOSE f \in FailedEpochs(ps) : \A g \in FailedEpochs(ps) : f <= g
             statements == DiedWith(ps.pending_parses, failed)
             name == ps.pending_parses[k].name
  <1>1. /\ \A i \in DOMAIN ps.pending_parses : ps.pending_parses[i].epoch = e
        /\ \A i \in DOMAIN ps.pending_binds : ps.pending_binds[i].epoch = e
        /\ \A i \in DOMAIN ps.pending_descriptions : ps.pending_descriptions[i].epoch = e
        /\ \A i \in DOMAIN ps.pending_executes : ps.pending_executes[i].epoch = e
    BY SlotsAre DEF OneEpoch, Requests
  <1>2. /\ ps.pending_parses \in Seq(PendingParse) /\ ps.pending_binds \in Seq(PendingBind)
        /\ ps.pending_descriptions \in Seq(PendingDescribe \cup PendingSimple)
        /\ ps.pending_executes \in Seq(PendingExecute)
    BY FieldsTyped
  <1>3. ps.pending_parses # << >> /\ Head(ps.pending_parses).epoch = e
    BY <1>1, <1>2
  <1>4. /\ ps.pending_binds # << >> => Head(ps.pending_binds).epoch = e
        /\ ps.pending_descriptions # << >> => Head(ps.pending_descriptions).epoch = e
    BY <1>1, <1>2
  <1>5. FailedEpochs(ps) = {e}
    BY <1>3, <1>4 DEF FailedEpochs
  <1>6. failed = e
    BY <1>5
  <1>7. name \in Statements
    <2>1. ps.pending_parses[k] \in PendingParse
      BY <1>2
    <2> QED
      BY <2>1 DEF PendingParse
  <1>8. qs.statement_sql =
            [s \in Statements |-> IF s \in statements THEN None ELSE ps.statement_sql[s]]
    BY <1>5 DEF DiscardFailedEpoch, State
  <1> HIDE DEF failed
  <1>9. ~\E j \in DOMAIN ps.pending_parses : ps.pending_parses[j].epoch > failed
    BY <1>1, <1>6
  <1>10. name \in statements
    BY <1>1, <1>6, <1>9 DEF DiedWith
  <1> HIDE DEF statements
  <1> QED
    BY <1>7, <1>8, <1>10

\* From ps to qs a statement no portal is bound to is given a text; its plan is forgotten
\* unless the text is the same.
Reparses(ps, qs, name, sql) ==
    /\ Forgets(ps, qs)
    /\ qs.statement_sql = [ps.statement_sql EXCEPT ![name] = sql]
    /\ qs.statement_plans[name] # None => ps.statement_sql[name] = sql
    /\ qs.portal_statement = ps.portal_statement
    /\ qs.portal_bind_generations = ps.portal_bind_generations
    /\ qs.pending_descriptions = ps.pending_descriptions
    /\ qs.pending_executes = ps.pending_executes
    /\ qs.pending_parses = Append(ps.pending_parses, [name |-> name, epoch |-> ps.sync_epoch])

\* parse does so.
LEMMA ParseFacts ==
  ASSUME NEW ps \in State, NEW name \in Statements, NEW sql \in Sqls, BoundTo(ps, name) = {},
         NEW qs, qs = ParseStatement(ps, name, sql)
  PROVE  Reparses(ps, qs, name, sql)
  <1> DEFINE stale == IF ps.statement_sql[name] = sql THEN {} ELSE BoundTo(ps, name)
             kept == IF ps.statement_sql[name] = sql THEN ps.statement_plans[name] ELSE None
  <1>1. stale = {}
    OBVIOUS
  <1>2. /\ ps.statement_plans \in [Statements -> Option(Plan)]
        /\ ps.portal_bind_generations \in [Portals -> Nat]
        /\ ps.statement_sql \in [Statements -> Option(Sqls)]
        /\ ps.portal_plans \in [Portals -> Option(Plan)]
        /\ ps.portal_formats \in [Portals -> Option(Formats)]
    BY FieldsTyped
  <1>3. /\ qs.statement_sql = [ps.statement_sql EXCEPT ![name] = sql]
        /\ qs.statement_plans = [ps.statement_plans EXCEPT ![name] = kept]
        /\ qs.portal_plans = [p \in Portals |-> IF p \in stale THEN None ELSE ps.portal_plans[p]]
        /\ qs.portal_formats =
              [p \in Portals |-> IF p \in stale THEN None ELSE ps.portal_formats[p]]
        /\ qs.portal_bind_generations =
              [p \in Portals |-> IF p \in stale THEN 0 ELSE ps.portal_bind_generations[p]]
        /\ qs.portal_statement = ps.portal_statement
        /\ qs.pending_descriptions = ps.pending_descriptions
        /\ qs.pending_executes = ps.pending_executes
        /\ qs.pending_parses = Append(ps.pending_parses, [name |-> name, epoch |-> ps.sync_epoch])
    BY DEF ParseStatement, State
  <1> HIDE DEF stale
  <1>4. /\ qs.portal_bind_generations = ps.portal_bind_generations
        /\ qs.portal_plans = ps.portal_plans /\ qs.portal_formats = ps.portal_formats
    BY <1>1, <1>2, <1>3
  <1>5. /\ \A s \in Statements : qs.statement_plans[s] \in {None, ps.statement_plans[s]}
        /\ qs.statement_plans[name] = kept
    BY <1>2, <1>3
  <1> QED
    BY <1>3, <1>4, <1>5 DEF Forgets, Reparses

\* A Parse that the backend accepts gives the statement its new meaning on both sides.
LEMMA ParseAgrees ==
  ASSUME NEW ps \in State, NEW name \in Statements, NEW sql \in Sqls, BoundTo(ps, name) = {},
         NEW qs, qs = ParseStatement(ps, name, sql), NEW b \in BackendState, NEW b2, NEW T, NEW V,
         Agreed(ps, b, T, V), ps.statement_sql[name] \in {None, T[name]},
         b2.statements = [b.statements EXCEPT ![name] = sql], b2.portals = b.portals,
         ~b2.skipping
  PROVE  Agreed(qs, b2, [T EXCEPT ![name] = sql], V)
  <1> DEFINE U == [T EXCEPT ![name] = sql]
  <1>1. /\ T \in [Statements -> Sqls] /\ V \in [Portals -> Binding]
        /\ b.statements \in [Statements -> Option(Sqls)] /\ None \notin Sqls
    BY BackendTyped, NoneAssumption DEF Agreed
  <1>2. /\ U \in [Statements -> Sqls] /\ U[name] = sql
        /\ \A s \in Statements \ {name} : U[s] = T[s]
    BY <1>1
  <1>3. /\ b2.statements[name] = sql
        /\ \A s \in Statements \ {name} : b2.statements[s] = b.statements[s]
    BY <1>1
  <1> HIDE DEF U
  <1>4. /\ Forgets(ps, qs)
        /\ qs.statement_plans[name] # None => ps.statement_sql[name] = sql
        /\ qs.portal_statement = ps.portal_statement
    <2>1. Reparses(ps, qs, name, sql)
      BY ParseFacts
    <2> QED
      BY <2>1 DEF Reparses
  <1>5. ASSUME NEW s \in Statements
        PROVE  b2.statements[s] \in {None, U[s]} /\ Tells(qs.statement_plans[s], U[s])
    <2>1. /\ b.statements[s] \in {None, T[s]} /\ Tells(ps.statement_plans[s], T[s])
          /\ qs.statement_plans[s] \in {None, ps.statement_plans[s]}
      BY <1>4 DEF Agreed, Forgets
    <2>2. CASE s # name
      BY <1>2, <1>3, <2>1, <2>2 DEF Tells
    <2>3. CASE s = name
      <3>1. qs.statement_plans[s] # None => T[s] = sql
        BY <1>1, <1>4, <2>3
      <3> QED
        BY <1>2, <1>3, <2>1, <2>3, <3>1 DEF Tells
    <2> QED
      BY <2>2, <2>3
  <1>6. ASSUME NEW p \in Portals
        PROVE  /\ b2.portals[p] # None =>
                      b2.portals[p].sql = V[p].sql /\ b2.portals[p].format = V[p].format
               /\ Fits(qs.portal_plans[p], V[p])
               /\ qs.portal_statement[p] # None =>
                      V[p] = [sql |-> U[qs.portal_statement[p]],
                              format |-> qs.portal_formats[p]]
    <2>1. /\ b.portals[p] # None =>
                 b.portals[p].sql = V[p].sql /\ b.portals[p].format = V[p].format
          /\ Fits(ps.portal_plans[p], V[p])
          /\ ps.portal_statement[p] # None =>
                 V[p] = [sql |-> T[ps.portal_statement[p]], format |-> ps.portal_formats[p]]
      BY DEF Agreed
    <2>2. /\ qs.portal_plans[p] \in {None, ps.portal_plans[p]}
          /\ qs.portal_statement[p] # None => qs.portal_formats[p] = ps.portal_formats[p]
      BY <1>4 DEF Forgets
    <2>3. Fits(qs.portal_plans[p], V[p])
      BY <2>1, <2>2 DEF Fits, Tells
    <2>4. ps.portal_statement[p] # name
      BY DEF BoundTo
    <2>5. ps.portal_statement[p] # None => ps.portal_statement[p] \in Statements
      BY FieldsTyped DEF Option
    <2> QED
      BY <1>2, <1>4, <2>1, <2>2, <2>3, <2>4, <2>5
  <1>7. Agreed(qs, b2, U, V)
    BY <1>1, <1>2, <1>5, <1>6 DEF Agreed
  <1> QED
    BY <1>7 DEF U

\* From ps to qs these portals are given these plans, and so are the Executes of their
\* current bindings that had none.
Installs(ps, qs, portals, planOf) ==
    /\ DOMAIN qs.pending_executes = DOMAIN ps.pending_executes
    /\ Len(qs.pending_executes) = Len(ps.pending_executes)
    /\ \A k \in DOMAIN ps.pending_executes :
        LET e == ps.pending_executes[k]
            f == qs.pending_executes[k]
        IN  \/ f = e
            \/ /\ e.name \in portals
               /\ e.bind_generation = ps.portal_bind_generations[e.name]
               /\ f.name = e.name /\ f.bind_generation = e.bind_generation
               /\ f.plan = planOf[e.name]
    /\ \A p \in Portals :
           qs.portal_plans[p] = IF p \in portals THEN planOf[p] ELSE ps.portal_plans[p]
    /\ qs.statement_plans = ps.statement_plans /\ qs.statement_sql = ps.statement_sql
    /\ qs.portal_statement = ps.portal_statement /\ qs.portal_formats = ps.portal_formats
    /\ qs.portal_bind_generations = ps.portal_bind_generations
    /\ qs.pending_parses = ps.pending_parses
    /\ qs.pending_descriptions = ps.pending_descriptions

\* install_portal_plan does so.
LEMMA InstallFacts ==
  ASSUME NEW ps \in State, NEW portals \in SUBSET Portals, NEW planOf,
         NEW qs, qs = InstallPortalPlans(ps, portals, planOf)
  PROVE  Installs(ps, qs, portals, planOf)
  <1> DEFINE Filled(e) ==
                IF /\ e.name \in portals
                   /\ e.bind_generation = ps.portal_bind_generations[e.name]
                   /\ e.plan = None
                THEN [e EXCEPT !.plan = planOf[e.name]]
                ELSE e
             old == ps.pending_executes
             queue == [i \in DOMAIN old |-> Filled(old[i])]
             map == [p \in Portals |-> IF p \in portals THEN planOf[p] ELSE ps.portal_plans[p]]
             Given(e, f) ==
                \/ f = e
                \/ /\ e.name \in portals
                   /\ e.bind_generation = ps.portal_bind_generations[e.name]
                   /\ f.name = e.name /\ f.bind_generation = e.bind_generation
                   /\ f.plan = planOf[e.name]
  <1>1. \A e \in PendingExecute : Given(e, Filled(e))
    BY DEF PendingExecute
  <1>2. old \in Seq(PendingExecute)
    BY FieldsTyped
  <1> HIDE DEF Filled, old, Given
  <1>3. /\ DOMAIN queue = DOMAIN old /\ Len(queue) = Len(old)
        /\ \A k \in DOMAIN old : queue[k] = Filled(old[k]) /\ old[k] \in PendingExecute
    BY <1>2
  <1>4. qs = [[ps EXCEPT !.pending_executes = queue] EXCEPT !.portal_plans = map]
    BY DEF InstallPortalPlans, Filled, old, State
  <1> HIDE DEF queue, map
  <1>5. /\ qs.pending_parses = ps.pending_parses
        /\ qs.pending_descriptions = ps.pending_descriptions
        /\ qs.pending_executes = queue /\ qs.portal_plans = map
        /\ qs.statement_plans = ps.statement_plans /\ qs.statement_sql = ps.statement_sql
        /\ qs.portal_statement = ps.portal_statement /\ qs.portal_formats = ps.portal_formats
        /\ qs.portal_bind_generations = ps.portal_bind_generations
    BY <1>4 DEF State
  <1>6. \A k \in DOMAIN old : Given(old[k], queue[k])
    BY <1>1, <1>3
  <1>7. \A p \in Portals : map[p] = IF p \in portals THEN planOf[p] ELSE ps.portal_plans[p]
    BY DEF map
  <1> QED
    BY <1>3, <1>5, <1>6, <1>7 DEF old, Installs, Given

\* A stamped plan fits the binding it is stamped for.
LEMMA StampFits ==
  ASSUME NEW plan \in Plan, NEW text, plan.fields = Head(Results[text]),
         plan.text \in {None, text}, NEW format \in Formats
  PROVE  Fits(Stamp(plan, format), [sql |-> text, format |-> format])
  <1>1. format # None
    BY NoneAssumption
  <1>2. /\ Stamp(plan, format).fields = plan.fields /\ Stamp(plan, format).text = plan.text
        /\ Stamp(plan, format).format = format
    BY <1>1 DEF Stamp, Plan
  <1> QED
    BY <1>2 DEF Fits, Tells

\* From ps to qs a portal name is bound anew, under a generation no Execute holds.
Rebinds(ps, qs, portal, statement, formats) ==
    /\ qs.statement_plans = ps.statement_plans /\ qs.statement_sql = ps.statement_sql
    /\ qs.portal_statement = [ps.portal_statement EXCEPT ![portal] = statement]
    /\ qs.portal_formats = [ps.portal_formats EXCEPT ![portal] = formats]
    /\ \A p \in Portals \ {portal} :
        /\ qs.portal_plans[p] = ps.portal_plans[p]
        /\ qs.portal_bind_generations[p] = ps.portal_bind_generations[p]
    /\ qs.portal_plans[portal] = IF ps.statement_plans[statement] = None
                                 THEN None
                                 ELSE Stamp(ps.statement_plans[statement], formats)
    /\ qs.portal_bind_generations[portal] \notin HeldGenerations(ps, portal)
    /\ qs.pending_parses = ps.pending_parses
    /\ qs.pending_descriptions = ps.pending_descriptions
    /\ DOMAIN qs.pending_executes = DOMAIN ps.pending_executes
    /\ \A k \in DOMAIN ps.pending_executes : qs.pending_executes[k] = ps.pending_executes[k]

\* bind does so.
LEMMA BindFacts ==
  ASSUME NEW ps \in State, NEW portal \in Portals, NEW statement \in Statements,
         NEW formats \in Formats, NEW qs, qs = Bind(ps, portal, statement, formats)
  PROVE  Rebinds(ps, qs, portal, statement, formats)
  <1> DEFINE slot == [name |-> portal, epoch |-> ps.sync_epoch]
             bumped == BumpedGeneration(ps, portal)
             bound == [ps EXCEPT
                !.portal_statement[portal] = statement,
                !.pending_binds = Append(@, slot),
                !.portal_formats[portal] = formats,
                !.portal_bind_generations[portal] = bumped]
             plan == ps.statement_plans[statement]
             planOf == [p \in {portal} |-> Stamp(plan, formats)]
  <1>1. /\ ps.pending_executes \in Seq(PendingExecute)
        /\ ps.portal_bind_generations \in [Portals -> Nat]
        /\ ps.portal_plans \in [Portals -> Option(Plan)]
        /\ ps.pending_binds \in Seq(PendingBind) /\ slot \in PendingBind
        /\ formats \in Option(Formats) /\ statement \in Option(Statements)
    BY FieldsTyped DEF PendingBind, Option
  <1>2. bumped \in Nat /\ bumped \notin HeldGenerations(ps, portal)
    BY <1>1, BumpIsFresh
  <1> HIDE DEF bumped, slot
  <1>3. bound \in State
    <2> DEFINE s1 == [ps EXCEPT !.portal_statement[portal] = statement]
               s2 == [s1 EXCEPT !.pending_binds = Append(@, slot)]
               s3 == [s2 EXCEPT !.portal_formats[portal] = formats]
               s4 == [s3 EXCEPT !.portal_bind_generations[portal] = bumped]
    <2>1. s1 \in State
      BY <1>1, FieldsTyped, UpdateTyped
    <2> HIDE DEF s1
    <2>2. s2 \in State
      <3>1. Append(s1.pending_binds, slot) \in Seq(PendingBind)
        BY <1>1, <2>1, FieldsTyped
      <3> QED
        BY <2>1, <3>1, UpdateTyped
    <2> HIDE DEF s2
    <2>3. s3 \in State
      BY <1>1, <2>2, FieldsTyped, UpdateTyped
    <2> HIDE DEF s3
    <2>4. s4 \in State
      BY <1>2, <2>3, FieldsTyped, UpdateTyped
    <2> QED
      BY <2>4 DEF s1, s2, s3
  <1>4. /\ bound.statement_plans = ps.statement_plans /\ bound.statement_sql = ps.statement_sql
        /\ bound.portal_statement = [ps.portal_statement EXCEPT ![portal] = statement]
        /\ bound.portal_formats = [ps.portal_formats EXCEPT ![portal] = formats]
        /\ bound.portal_bind_generations = [ps.portal_bind_generations EXCEPT ![portal] = bumped]
        /\ bound.portal_plans = ps.portal_plans
        /\ bound.pending_parses = ps.pending_parses
        /\ bound.pending_descriptions = ps.pending_descriptions
        /\ bound.pending_executes = ps.pending_executes
    BY DEF State
  <1>5. qs = IF plan = None
             THEN [bound EXCEPT !.portal_plans[portal] = None]
             ELSE InstallPortalPlans(bound, {portal}, planOf)
    BY DEF Bind, slot, bumped
  <1> HIDE DEF bound
  <1>6. /\ bound.portal_bind_generations[portal] = bumped
        /\ \A p \in Portals \ {portal} :
               bound.portal_bind_generations[p] = ps.portal_bind_generations[p]
    BY <1>1, <1>4
  <1>7. CASE plan = None
    <2>1. qs = [bound EXCEPT !.portal_plans[portal] = None]
      BY <1>5, <1>7
    <2>2. /\ qs.portal_plans = [bound.portal_plans EXCEPT ![portal] = None]
          /\ qs.statement_plans = bound.statement_plans /\ qs.statement_sql = bound.statement_sql
          /\ qs.portal_statement = bound.portal_statement
          /\ qs.portal_formats = bound.portal_formats
          /\ qs.portal_bind_generations = bound.portal_bind_generations
          /\ qs.pending_parses = bound.pending_parses
          /\ qs.pending_descriptions = bound.pending_descriptions
          /\ qs.pending_executes = bound.pending_executes
      BY <1>3, <2>1 DEF State
    <2>3. /\ qs.portal_plans[portal] = None
          /\ \A p \in Portals \ {portal} : qs.portal_plans[p] = ps.portal_plans[p]
      BY <1>1, <1>4, <2>2
    <2> QED
      BY <1>2, <1>4, <1>6, <1>7, <2>2, <2>3 DEF Rebinds
  <1>8. CASE plan # None
    <2> HIDE DEF planOf
    <2>1. Installs(bound, qs, {portal}, planOf)
      BY <1>3, <1>5, <1>8, InstallFacts
    <2>2. planOf[portal] = Stamp(plan, formats)
      BY DEF planOf
    <2>3. ASSUME NEW k \in DOMAIN ps.pending_executes
          PROVE  qs.pending_executes[k] = ps.pending_executes[k]
      <3> DEFINE e == ps.pending_executes[k]
      <3>1. e.name = portal => e.bind_generation \in HeldGenerations(ps, portal)
        BY DEF HeldGenerations
      <3>2. \/ qs.pending_executes[k] = e
            \/ e.name = portal /\ e.bind_generation = bumped
        <4>1. \/ qs.pending_executes[k] = e
              \/ e.name \in {portal} /\ e.bind_generation = bound.portal_bind_generations[e.name]
          BY <1>4, <2>1 DEF Installs
        <4> QED
          BY <1>6, <4>1
      <3> QED
        BY <1>2, <3>1, <3>2
    <2>4. \A p \in Portals :
              qs.portal_plans[p] = IF p \in {portal} THEN planOf[p] ELSE ps.portal_plans[p]
      BY <1>4, <2>1 DEF Installs
    <2>5. /\ qs.portal_plans[portal] = Stamp(plan, formats)
          /\ \A p \in Portals \ {portal} : qs.portal_plans[p] = ps.portal_plans[p]
      BY <2>2, <2>4
    <2>6. /\ qs.statement_plans = bound.statement_plans /\ qs.statement_sql = bound.statement_sql
          /\ qs.portal_statement = bound.portal_statement
          /\ qs.portal_formats = bound.portal_formats
          /\ qs.portal_bind_generations = bound.portal_bind_generations
          /\ qs.pending_parses = bound.pending_parses
          /\ qs.pending_descriptions = bound.pending_descriptions
          /\ DOMAIN qs.pending_executes = DOMAIN bound.pending_executes
      BY <2>1 DEF Installs
    <2> QED
      BY <1>2, <1>4, <1>6, <1>8, <2>3, <2>5, <2>6 DEF Rebinds
  <1> QED
    BY <1>7, <1>8

\* What a portal name stands for once it is bound.
Rebound(V, portal, text, format) == [V EXCEPT ![portal] = [sql |-> text, format |-> format]]

\* A Bind gives the portal name its new meaning on the session's side, and on the backend's
\* if it is accepted.
LEMMA BindAgrees ==
  ASSUME NEW ps \in State, NEW portal \in Portals, NEW statement \in Statements,
         NEW formats \in Formats, NEW qs, Rebinds(ps, qs, portal, statement, formats),
         NEW b, NEW b2, NEW T, NEW V, Agreed(ps, b, T, V),
         \/ Drops(b, b2) /\ \A p \in Portals : b2.portals[p] = None
         \/ /\ b2.statements = b.statements /\ ~b2.skipping
            /\ b.statements[statement] # None
            /\ \A p \in Portals \ {portal} : b2.portals[p] = b.portals[p]
            /\ b2.portals[portal].sql = b.statements[statement]
            /\ b2.portals[portal].format = formats
  PROVE  Agreed(qs, b2, T, Rebound(V, portal, T[statement], formats))
  <1> DEFINE U == Rebound(V, portal, T[statement], formats)
             binding == [sql |-> T[statement], format |-> formats]
  <1>1. T \in [Statements -> Sqls] /\ V \in [Portals -> Binding]
    BY DEF Agreed
  <1>2. binding \in Binding
    BY <1>1 DEF Binding
  <1>3. /\ U \in [Portals -> Binding] /\ U[portal] = binding
        /\ \A p \in Portals \ {portal} : U[p] = V[p]
    BY <1>1, <1>2 DEF Rebound
  <1>4. binding.sql = T[statement] /\ binding.format = formats
    OBVIOUS
  <1> HIDE DEF U, binding
  <1>5. ASSUME NEW s \in Statements
        PROVE  b2.statements[s] \in {None, T[s]} /\ Tells(qs.statement_plans[s], T[s])
    <2>1. b.statements[s] \in {None, T[s]} /\ Tells(ps.statement_plans[s], T[s])
      BY DEF Agreed
    <2>2. qs.statement_plans = ps.statement_plans
      BY DEF Rebinds
    <2>3. b2.statements[s] \in {None, b.statements[s]}
      BY DEF Drops
    <2> QED
      BY <2>1, <2>2, <2>3
  <1>6. ASSUME NEW p \in Portals, p # portal
        PROVE  /\ b2.portals[p] # None =>
                      b2.portals[p].sql = U[p].sql /\ b2.portals[p].format = U[p].format
               /\ Fits(qs.portal_plans[p], U[p])
               /\ qs.portal_statement[p] # None =>
                      U[p] = [sql |-> T[qs.portal_statement[p]],
                              format |-> qs.portal_formats[p]]
               /\ b2.skipping => b2.portals[p] = None
    <2>1. /\ b.portals[p] # None =>
                 b.portals[p].sql = V[p].sql /\ b.portals[p].format = V[p].format
          /\ Fits(ps.portal_plans[p], V[p])
          /\ ps.portal_statement[p] # None =>
                 V[p] = [sql |-> T[ps.portal_statement[p]], format |-> ps.portal_formats[p]]
      BY DEF Agreed
    <2>2. /\ ps.portal_statement \in [Portals -> Option(Statements)]
          /\ ps.portal_formats \in [Portals -> Option(Formats)]
      BY FieldsTyped
    <2>3. /\ qs.portal_plans[p] = ps.portal_plans[p]
          /\ qs.portal_statement = [ps.portal_statement EXCEPT ![portal] = statement]
          /\ qs.portal_formats = [ps.portal_formats EXCEPT ![portal] = formats]
      BY <1>6 DEF Rebinds
    <2>4. /\ qs.portal_statement[p] = ps.portal_statement[p]
          /\ qs.portal_formats[p] = ps.portal_formats[p]
      BY <1>6, <2>2, <2>3
    <2>5. /\ b2.portals[p] # None => b2.portals[p] = b.portals[p]
          /\ b2.skipping => b2.portals[p] = None
      BY <1>6
    <2> QED
      BY <1>3, <1>6, <2>1, <2>3, <2>4, <2>5
  <1>7. /\ b2.portals[portal] # None =>
               b2.portals[portal].sql = U[portal].sql /\ b2.portals[portal].format = U[portal].format
        /\ Fits(qs.portal_plans[portal], U[portal])
        /\ qs.portal_statement[portal] # None =>
               U[portal] = [sql |-> T[qs.portal_statement[portal]],
                            format |-> qs.portal_formats[portal]]
        /\ b2.skipping => b2.portals[portal] = None
    <2>1. /\ b.statements[statement] \in {None, T[statement]}
          /\ Tells(ps.statement_plans[statement], T[statement])
      BY DEF Agreed
    <2>2. /\ ps.portal_statement \in [Portals -> Option(Statements)]
          /\ ps.portal_formats \in [Portals -> Option(Formats)]
          /\ ps.statement_plans[statement] \in Option(Plan)
      BY FieldsTyped
    <2>3. /\ qs.portal_statement[portal] = statement /\ qs.portal_formats[portal] = formats
      BY <2>2 DEF Rebinds
    <2>4. Fits(qs.portal_plans[portal], binding)
      <3>1. CASE ps.statement_plans[statement] = None
        BY <3>1 DEF Rebinds, Fits, Tells
      <3>2. CASE ps.statement_plans[statement] # None
        <4>1. /\ ps.statement_plans[statement] \in Plan
              /\ ps.statement_plans[statement].fields = Head(Results[T[statement]])
              /\ ps.statement_plans[statement].text \in {None, T[statement]}
          BY <2>1, <2>2, <3>2 DEF Tells, Option
        <4>2. qs.portal_plans[portal] = Stamp(ps.statement_plans[statement], formats)
          BY <3>2 DEF Rebinds
        <4> QED
          BY <4>1, <4>2, StampFits DEF binding
      <3> QED
        BY <3>1, <3>2
    <2>5. b2.portals[portal] # None =>
              b2.portals[portal].sql = T[statement] /\ b2.portals[portal].format = formats
      BY <2>1
    <2>6. binding = [sql |-> T[qs.portal_statement[portal]],
                     format |-> qs.portal_formats[portal]]
      BY <2>3 DEF binding
    <2> QED
      BY <1>3, <1>4, <2>4, <2>5, <2>6
  <1>8. Agreed(qs, b2, T, U)
    BY <1>1, <1>3, <1>5, <1>6, <1>7 DEF Agreed
  <1> QED
    BY <1>8 DEF U

\* Plans that fit their portals contradict nothing.
LEMMA InstallAgrees ==
  ASSUME NEW ps, NEW qs, NEW portals, NEW planOf, Installs(ps, qs, portals, planOf),
         NEW b, NEW T, NEW V, Agreed(ps, b, T, V),
         \A p \in portals : Fits(planOf[p], V[p])
  PROVE  Agreed(qs, b, T, V)
  <1>1. /\ qs.statement_plans = ps.statement_plans /\ qs.statement_sql = ps.statement_sql
        /\ qs.portal_statement = ps.portal_statement /\ qs.portal_formats = ps.portal_formats
        /\ \A p \in Portals :
               qs.portal_plans[p] = IF p \in portals THEN planOf[p] ELSE ps.portal_plans[p]
    BY DEF Installs
  <1>2. \A p \in Portals : Fits(ps.portal_plans[p], V[p])
    BY DEF Agreed
  <1>3. \A p \in Portals : Fits(qs.portal_plans[p], V[p])
    BY <1>1, <1>2
  <1> QED
    BY <1>1, <1>3 DEF Agreed

\* A slot keeps what it is of; it is given a plan only if its portal name still stands for it.
Refilled(e, f, generations, V) ==
    /\ f.name = e.name /\ f.bind_generation = e.bind_generation
    /\ \/ f.plan = e.plan
       \/ e.bind_generation = generations[e.name] /\ Fits(f.plan, V[e.name])

\* From ps to qs the session learns plans and nothing else.
Learns(ps, qs, V) ==
    /\ qs.statement_sql = ps.statement_sql
    /\ qs.portal_bind_generations = ps.portal_bind_generations
    /\ qs.pending_parses = ps.pending_parses
    /\ DOMAIN qs.pending_executes = DOMAIN ps.pending_executes
    /\ Len(qs.pending_executes) = Len(ps.pending_executes)
    /\ \A k \in DOMAIN ps.pending_executes :
           Refilled(ps.pending_executes[k], qs.pending_executes[k],
                    ps.portal_bind_generations, V)

\* install_portal_plan does so.
LEMMA InstallLearns ==
  ASSUME NEW ps, NEW qs, NEW portals, NEW planOf, Installs(ps, qs, portals, planOf),
         NEW V, \A p \in portals : Fits(planOf[p], V[p])
  PROVE  Learns(ps, qs, V)
  <1>1. ASSUME NEW k \in DOMAIN ps.pending_executes
        PROVE  Refilled(ps.pending_executes[k], qs.pending_executes[k],
                        ps.portal_bind_generations, V)
    <2> DEFINE e == ps.pending_executes[k]
               f == qs.pending_executes[k]
    <2>1. \/ f = e
          \/ /\ e.name \in portals
             /\ e.bind_generation = ps.portal_bind_generations[e.name]
             /\ f.name = e.name /\ f.bind_generation = e.bind_generation
             /\ f.plan = planOf[e.name]
      BY DEF Installs
    <2> QED
      BY <2>1 DEF Refilled
  <1> QED
    BY <1>1 DEF Learns, Installs

\* finish_bind gives the portal the plan of what it is bound to by then.
LEMMA FinishBindLearns ==
  ASSUME NEW ps \in State, NEW qs, qs = FinishBind(ps), NEW b, NEW T, NEW V,
         Agreed(ps, b, T, V)
  PROVE  /\ Agreed(qs, b, T, V) /\ Learns(ps, qs, V)
         /\ qs.pending_descriptions = ps.pending_descriptions
  <1> DEFINE portal == Head(ps.pending_binds).name
             statement == ps.portal_statement[portal]
             described == IF statement = None THEN None ELSE ps.statement_plans[statement]
             plan == IF ps.portal_plans[portal] # None
                     THEN ps.portal_plans[portal]
                     ELSE IF described = None
                     THEN None
                     ELSE Stamp(described, ps.portal_formats[portal])
             popped == [ps EXCEPT !.pending_binds = PopFront(@)]
             planOf == [p \in {portal} |-> plan]
             only == {portal}
             installed == InstallPortalPlans(popped, only, planOf)
             active == IF ps.active_portal = portal THEN plan ELSE installed.active_plan
  <1>1. popped \in State
    BY PopFrontTyped, FieldsTyped, UpdateTyped
  <1>2. /\ SameNames(ps, popped)
        /\ popped.portal_bind_generations = ps.portal_bind_generations
        /\ popped.pending_parses = ps.pending_parses
        /\ popped.pending_descriptions = ps.pending_descriptions
        /\ popped.pending_executes = ps.pending_executes
    BY DEF State, SameNames
  <1> HIDE DEF popped
  <1>3. Agreed(popped, b, T, V)
    <2>1. Drops(b, b)
      BY DropsByFields
    <2> QED
      BY <1>2, <2>1, SameForgets, AgreedForgets
  <1>4. CASE ps.pending_binds = << >> \/ plan = None
    <2>1. qs = ps \/ qs = popped
      BY <1>4 DEF FinishBind, PopFront, popped
    <2>2. /\ qs.statement_sql = ps.statement_sql
          /\ qs.portal_bind_generations = ps.portal_bind_generations
          /\ qs.pending_parses = ps.pending_parses
          /\ qs.pending_descriptions = ps.pending_descriptions
          /\ qs.pending_executes = ps.pending_executes
      BY <1>2, <2>1 DEF SameNames
    <2> QED
      BY <1>3, <2>1, <2>2 DEF Learns, Refilled
  <1>5. CASE ps.pending_binds # << >> /\ plan # None
    <2>1. portal \in Portals
      <3>1. Head(ps.pending_binds) \in PendingBind
        BY <1>5, FieldsTyped
      <3> QED
        BY <3>1 DEF PendingBind
    <2>2. qs = [installed EXCEPT !.active_plan = active]
      BY <1>5 DEF FinishBind, PopFront, popped
    <2> HIDE DEF portal
    <2>3. Fits(plan, V[portal])
      <3>1. CASE ps.portal_plans[portal] # None
        BY <2>1, <3>1 DEF Agreed
      <3>2. CASE ps.portal_plans[portal] = None
        <4>1. statement # None /\ described # None /\ described = ps.statement_plans[statement]
          BY <1>5, <3>2
        <4>2. statement \in Statements
          BY <2>1, <4>1, FieldsTyped DEF Option
        <4>3. /\ V \in [Portals -> Binding]
              /\ V[portal] = [sql |-> T[statement], format |-> ps.portal_formats[portal]]
              /\ Tells(described, T[statement])
          BY <2>1, <4>1, <4>2 DEF Agreed
        <4>4. ps.portal_formats[portal] \in Formats
          <5>1. V[portal] \in Binding
            BY <2>1, <4>3
          <5>2. V[portal].format = ps.portal_formats[portal]
            BY <4>3
          <5> QED
            BY <5>1, <5>2 DEF Binding
        <4>5. described \in Plan
          BY <4>1, <4>2, FieldsTyped DEF Option
        <4>6. plan = Stamp(described, ps.portal_formats[portal])
          BY <3>2, <4>1
        <4> HIDE DEF plan, described, statement
        <4>7. Fits(Stamp(described, ps.portal_formats[portal]),
                   [sql |-> T[statement], format |-> ps.portal_formats[portal]])
          BY <4>1, <4>3, <4>4, <4>5, StampFits DEF Tells
        <4> QED
          BY <4>3, <4>6, <4>7
      <3> QED
        BY <3>1, <3>2
    <2> HIDE DEF plan
    <2>4. only \in SUBSET Portals /\ \A p \in only : Fits(planOf[p], V[p])
      BY <2>1, <2>3
    <2> HIDE DEF only, planOf, active
    <2>5. Installs(popped, installed, only, planOf)
      BY <1>1, <2>4, InstallFacts
    <2>6. installed \in State
      <3>1. plan \in Plan
        <4>1. ps.portal_plans[portal] \in Option(Plan)
          BY <2>1, FieldsTyped
        <4>2. described \in Option(Plan)
          BY <2>1, FieldsTyped DEF Option
        <4> QED
          BY <1>5, <2>1, <4>1, <4>2, FieldsTyped, StampTyped DEF plan, Option
      <3>2. \A p \in only : planOf[p] \in Plan
        BY <3>1 DEF only, planOf
      <3> QED
        BY <1>1, <2>4, <3>2, InstallPortalPlansTyped
    <2>7. Agreed(installed, b, T, V) /\ Learns(popped, installed, V)
      BY <1>3, <2>4, <2>5, InstallAgrees, InstallLearns
    <2> HIDE DEF installed
    <2>8. /\ SameNames(installed, qs)
          /\ qs.portal_bind_generations = installed.portal_bind_generations
          /\ qs.pending_parses = installed.pending_parses
          /\ qs.pending_descriptions = installed.pending_descriptions
          /\ qs.pending_executes = installed.pending_executes
      BY <2>2, <2>6 DEF State, SameNames
    <2>9. Agreed(qs, b, T, V)
      <3>1. Drops(b, b)
        BY DropsByFields
      <3> QED
        BY <2>7, <2>8, <3>1, SameForgets, AgreedForgets
    <2>10. Learns(ps, qs, V)
      BY <1>2, <2>7, <2>8 DEF Learns, SameNames
    <2>11. qs.pending_descriptions = ps.pending_descriptions
      BY <1>2, <2>5, <2>8 DEF Installs
    <2> QED
      BY <2>9, <2>10, <2>11
  <1> QED
    BY <1>4, <1>5

\* The plan is of the described result, which is what the slot's target stands for.
Planned(plan, d, rd, T, V) ==
    /\ plan.fields = rd.fields /\ plan.text = d.sql /\ plan.format = rd.format
    /\ Describes(d, rd, T, V)

\* A plan of a described statement contradicts nothing.
LEMMA PlanAgrees ==
  ASSUME NEW ps \in State, NEW name \in Statements, NEW plan \in Plan, NEW b, NEW T, NEW V,
         Agreed(ps, b, T, V), plan.fields = Head(Results[T[name]]),
         plan.text \in {None, T[name]},
         NEW qs, qs = [ps EXCEPT !.statement_plans[name] = plan]
  PROVE  Agreed(qs, b, T, V)
  <1>1. /\ qs.statement_plans = [ps.statement_plans EXCEPT ![name] = plan]
        /\ qs.portal_plans = ps.portal_plans
        /\ qs.portal_statement = ps.portal_statement
        /\ qs.portal_formats = ps.portal_formats
    BY DEF State
  <1>2. ps.statement_plans \in [Statements -> Option(Plan)]
    BY FieldsTyped
  <1>3. ASSUME NEW s \in Statements
        PROVE  Tells(qs.statement_plans[s], T[s])
    <2>1. CASE s = name
      BY <1>1, <1>2, <2>1 DEF Tells
    <2>2. CASE s # name
      <3>1. qs.statement_plans[s] = ps.statement_plans[s]
        BY <1>1, <1>2, <2>2
      <3> QED
        BY <3>1 DEF Agreed
    <2> QED
      BY <2>1, <2>2
  <1> QED
    BY <1>1, <1>3 DEF Agreed

\* finish_description gives a target the plan of what it stands for.
LEMMA FinishDescriptionLearns ==
  ASSUME NEW ps \in State, HeadIs(ps, "describe"), NEW plan \in Plan,
         NEW rd, NEW b, NEW T, NEW V, Agreed(ps, b, T, V),
         Planned(plan, Head(ps.pending_descriptions), rd, T, V),
         NEW qs, qs = FinishDescription(ps, plan)
  PROVE  /\ Agreed(qs, b, T, V) /\ Learns(ps, qs, V)
         /\ qs.pending_descriptions = Tail(ps.pending_descriptions)
  <1> DEFINE pending == Head(ps.pending_descriptions)
             name == pending.target.name
             popped == [ps EXCEPT !.pending_descriptions = Tail(@),
                                  !.streaming_simple_result = (pending.kind = "simple"),
                                  !.active_plan = plan,
                                  !.active_epoch = pending.epoch]
  <1>1. /\ ps.pending_descriptions # << >>
        /\ ps.pending_descriptions \in Seq(PendingDescribe \cup PendingSimple)
        /\ pending.kind = "describe"
    BY FieldsTyped DEF HeadIs
  <1>2. pending \in PendingDescribe
    <2>1. pending \in PendingDescribe \cup PendingSimple
      BY <1>1
    <2> QED
      BY <1>1, <2>1 DEF PendingSimple
  <1>3. pending.target \in Target /\ pending.epoch \in Nat
    BY <1>2 DEF PendingDescribe
  <1>4. popped \in State
    <2>1. Tail(ps.pending_descriptions) \in Seq(PendingDescribe \cup PendingSimple)
      BY <1>1
    <2> DEFINE s1 == [ps EXCEPT !.pending_descriptions = Tail(ps.pending_descriptions)]
               s2 == [s1 EXCEPT !.streaming_simple_result = (pending.kind = "simple")]
               s3 == [s2 EXCEPT !.active_plan = plan]
               s4 == [s3 EXCEPT !.active_epoch = pending.epoch]
    <2>2. s1 \in State
      BY <2>1, UpdateTyped
    <2>3. s2 \in State
      <3> HIDE DEF s1
      <3> QED
        BY <2>2, UpdateTyped
    <2>4. s3 \in State
      <3> HIDE DEF s2
      <3> QED
        BY <2>3, UpdateTyped DEF Option
    <2>5. s4 \in State
      <3> HIDE DEF s3
      <3> QED
        BY <1>3, <2>4, UpdateTyped DEF Option
    <2>6. popped = s4
      BY DEF State
    <2> QED
      BY <2>5, <2>6
  <1>5. /\ SameNames(ps, popped)
        /\ popped.portal_bind_generations = ps.portal_bind_generations
        /\ popped.pending_parses = ps.pending_parses
        /\ popped.pending_descriptions = Tail(ps.pending_descriptions)
        /\ popped.pending_executes = ps.pending_executes
    BY DEF State, SameNames
  <1>6. qs = IF pending.target.kind = "portal"
             THEN InstallPortalPlans(popped, {name}, [p \in {name} |-> plan])
             ELSE InstallPortalPlans([popped EXCEPT !.statement_plans[name] = plan],
                                     BoundTo(ps, name),
                                     [p \in BoundTo(ps, name) |->
                                         Stamp(plan, ps.portal_formats[p])])
    BY <1>1, <1>3 DEF FinishDescription, Target
  <1> HIDE DEF popped
  <1>7. Agreed(popped, b, T, V)
    <2>1. Drops(b, b)
      BY DropsByFields
    <2> QED
      BY <1>5, <2>1, SameForgets, AgreedForgets
  <1>8. /\ plan.fields = rd.fields /\ plan.text = pending.sql /\ plan.format = rd.format
        /\ rd.fields = Head(Results[rd.text]) /\ pending.sql \in {None, rd.text}
        /\ IF pending.target.kind = "statement"
           THEN rd.text = T[name]
           ELSE BindingOf(rd) = V[name]
    BY DEF Planned, Describes
  <1> HIDE DEF pending
  <1>9. CASE pending.target.kind = "portal"
    <2> DEFINE only == {name}
               planOf == [p \in {name} |-> plan]
    <2>1. name \in Portals
      BY <1>3, <1>9 DEF Target
    <2>2. /\ V[name].sql = rd.text /\ V[name].format = rd.format
      BY <1>8, <1>9 DEF BindingOf
    <2>3. Fits(plan, V[name])
      BY <1>8, <2>2 DEF Fits, Tells
    <2>4. only \in SUBSET Portals /\ \A p \in only : Fits(planOf[p], V[p])
      BY <2>1, <2>3
    <2>5. qs = InstallPortalPlans(popped, only, planOf)
      BY <1>6, <1>9
    <2> HIDE DEF only, planOf
    <2>6. Installs(popped, qs, only, planOf)
      BY <1>4, <2>4, <2>5, InstallFacts
    <2>7. Agreed(qs, b, T, V) /\ Learns(popped, qs, V)
      BY <1>7, <2>4, <2>6, InstallAgrees, InstallLearns
    <2> QED
      BY <1>5, <2>6, <2>7 DEF Learns, SameNames, Installs
  <1>10. CASE pending.target.kind # "portal"
    <2> DEFINE waiting == BoundTo(ps, name)
               planOf == [p \in waiting |-> Stamp(plan, ps.portal_formats[p])]
               mid == [popped EXCEPT !.statement_plans[name] = plan]
    <2>1. pending.target.kind = "statement" /\ name \in Statements
      BY <1>3, <1>10 DEF Target
    <2>2. rd.text = T[name]
      BY <1>8, <2>1
    <2>3. mid \in State
      <3>1. mid = [popped EXCEPT !.statement_plans = [popped.statement_plans EXCEPT ![name] = plan]]
        BY <1>4 DEF State
      <3>2. [popped.statement_plans EXCEPT ![name] = plan] \in [Statements -> Option(Plan)]
        BY <1>4, FieldsTyped DEF Option
      <3> QED
        BY <1>4, <3>1, <3>2, UpdateTyped
    <2>4. Agreed(mid, b, T, V)
      BY <1>4, <1>7, <1>8, <2>1, <2>2, PlanAgrees
    <2>5. /\ mid.statement_sql = ps.statement_sql
          /\ mid.portal_bind_generations = ps.portal_bind_generations
          /\ mid.pending_parses = ps.pending_parses
          /\ mid.pending_descriptions = Tail(ps.pending_descriptions)
          /\ mid.pending_executes = ps.pending_executes
      BY <1>4, <1>5 DEF State, SameNames
    <2>6. ASSUME NEW p \in waiting
          PROVE  p \in Portals /\ Fits(planOf[p], V[p])
      <3>1. p \in Portals /\ ps.portal_statement[p] = name
        BY <2>6 DEF BoundTo
      <3>2. name # None
        BY <2>1, NoneAssumption
      <3>3. /\ V \in [Portals -> Binding]
            /\ V[p] = [sql |-> T[name], format |-> ps.portal_formats[p]]
        BY <3>1, <3>2 DEF Agreed
      <3>4. ps.portal_formats[p] \in Formats
        <4>1. V[p] \in Binding
          BY <3>1, <3>3
        <4>2. V[p].format = ps.portal_formats[p]
          BY <3>3
        <4> QED
          BY <4>1, <4>2 DEF Binding
      <3>5. Fits(Stamp(plan, ps.portal_formats[p]), [sql |-> T[name], format |-> ps.portal_formats[p]])
        BY <1>8, <2>2, <3>4, StampFits
      <3>6. planOf[p] = Stamp(plan, ps.portal_formats[p])
        BY <2>6
      <3> QED
        BY <3>1, <3>3, <3>5, <3>6
    <2>7. waiting \in SUBSET Portals /\ \A p \in waiting : Fits(planOf[p], V[p])
      BY <2>6
    <2>8. qs = InstallPortalPlans(mid, waiting, planOf)
      BY <1>6, <1>10
    <2> HIDE DEF waiting, planOf, mid
    <2>9. Installs(mid, qs, waiting, planOf)
      BY <2>3, <2>7, <2>8, InstallFacts
    <2>10. Agreed(qs, b, T, V) /\ Learns(mid, qs, V)
      BY <2>4, <2>7, <2>9, InstallAgrees, InstallLearns
    <2> QED
      BY <2>5, <2>9, <2>10 DEF Learns, Installs
  <1> QED
    BY <1>9, <1>10

-----------------------------------------------------------------------------
(* The session's texts.                                                    *)

\* The session has the text of every statement right.
Plainly(ps, T) == \A x \in Statements : ps.statement_sql[x] \in {None, T[x]}

\* So it has, unless a Parse is unanswered and nothing is there to be refused.
LEMMA KnownPlainly ==
  ASSUME NEW ps, NEW w, NEW s, NEW T, Known(ps, w, s, T),
         \/ s # None \/ Has(w, Judged)
         \/ \A k \in DOMAIN ps.pending_parses : ~(k > Count(w, {"ParseComplete"}))
  PROVE  Plainly(ps, T)
  BY DEF Known, Plainly, Unanswered

\* What it forgets it does not get wrong.
LEMMA PlainlyKnown ==
  ASSUME NEW ps, NEW qs, NEW T, Plainly(ps, T), Recalls(ps, qs)
  PROVE  Plainly(qs, T) /\ \A w, s : Known(qs, w, s, T)
  <1>1. Plainly(qs, T)
    BY DEF Plainly, Recalls
  <1> QED
    BY <1>1 DEF Plainly, Known

\* While an exchange has not failed every Parse in it has its answer on the way.
LEMMA ParsesAnswered ==
  ASSUME NEW ps \in State, NEW w \in Seq(Reply), NEW e, NEW refusals,
         Exchanging(ps, w, None, e, refusals), ~Has(w, {"ErrorResponse"})
  PROVE  \A k \in DOMAIN ps.pending_parses : ~(k > Count(w, {"ParseComplete"}))
  <1>1. Answered(ps, w, "Parse")
    BY DEF Exchanging, Requests
  <1>2. Len(ps.pending_parses) <= Count(w, {"ParseComplete"})
    BY <1>1, SlotsAre DEF Answered, Answering
  <1>3. DOMAIN ps.pending_parses = 1 .. Len(ps.pending_parses)
        /\ Len(ps.pending_parses) \in Nat
    BY SlotsCounted, SlotsAre DEF Requests
  <1>4. Count(w, {"ParseComplete"}) \in Nat
    BY CountIsZero
  <1> QED
    BY <1>2, <1>3, <1>4

\* A reply is read, and the slot of the Parse it completes is taken.
LEMMA KnownTail ==
  ASSUME NEW ps \in State, NEW qs \in State, NEW w \in Seq(Reply), w # << >>, NEW T,
         Known(ps, w, None, T), Recalls(ps, qs),
         IF Head(w).tag = "ParseComplete"
         THEN ps.pending_parses # << >> /\ qs.pending_parses = Tail(ps.pending_parses)
         ELSE qs.pending_parses = ps.pending_parses
  PROVE  Known(qs, Tail(w), None, T)
  <1> DEFINE done == {"ParseComplete"}
             one == IF Head(w).tag \in done THEN 1 ELSE 0
  <1>1. /\ Count(w, done) = Count(Tail(w), done) + one
        /\ Has(Tail(w), Judged) => Has(w, Judged)
        /\ Tail(w) \in Seq(Reply)
    BY CountOfTail
  <1>2. Count(Tail(w), done) \in Nat
    BY <1>1, CountIsZero
  <1>3. ASSUME NEW k \in DOMAIN ps.pending_parses, k > Count(w, done)
        PROVE  \E j \in DOMAIN qs.pending_parses :
                  /\ j > Count(Tail(w), done)
                  /\ qs.pending_parses[j] = ps.pending_parses[k]
    <2>1. ps.pending_parses \in Seq(PendingParse) /\ k \in Nat /\ k >= 1
      BY FieldsTyped
    <2>2. CASE Head(w).tag = "ParseComplete"
      <3>1. one = 1
        BY <2>2
      <3>2. k - 1 \in DOMAIN Tail(ps.pending_parses) /\ k - 1 > Count(Tail(w), done)
        BY <1>1, <1>2, <1>3, <2>1, <2>2, <3>1
      <3>3. Tail(ps.pending_parses)[k - 1] = ps.pending_parses[k]
        BY <2>1, <2>2, <3>2
      <3> QED
        BY <2>2, <3>2, <3>3
    <2>3. CASE Head(w).tag # "ParseComplete"
      <3>1. one = 0
        BY <2>3
      <3> QED
        BY <1>1, <1>2, <1>3, <2>3, <3>1
    <2> QED
      BY <2>2, <2>3
  <1> HIDE DEF one
  <1>4. ASSUME NEW x \in Statements
        PROVE  \/ qs.statement_sql[x] \in {None, T[x]}
               \/ Unanswered(qs, Tail(w), x) /\ ~Has(Tail(w), Judged)
    <2>1. CASE ps.statement_sql[x] \in {None, T[x]}
      BY <2>1 DEF Recalls
    <2>2. CASE Unanswered(ps, w, x) /\ ~Has(w, Judged)
      BY <1>1, <1>3, <2>2 DEF Unanswered
    <2> QED
      BY <2>1, <2>2 DEF Known
  <1> QED
    BY <1>4 DEF Known

\* A message that parses nothing joins an exchange.
LEMMA KnownGrows ==
  ASSUME NEW ps \in State, NEW qs \in State, NEW w \in Seq(Reply), NEW d, NEW e, NEW refusals,
         NEW T, Exchanging(ps, w, None, e, refusals), Known(ps, w, None, T), Recalls(ps, qs),
         qs.pending_parses = ps.pending_parses,
         NEW w2, w2 = IF Has(w, {"ErrorResponse"}) THEN w ELSE w \o d
  PROVE  Known(qs, w2, None, T)
  <1>1. CASE Has(w, {"ErrorResponse"})
    <2>1. \A x : Unanswered(ps, w, x) => Unanswered(qs, w2, x)
      BY <1>1 DEF Unanswered
    <2> QED
      BY <1>1, <2>1 DEF Known, Recalls
  <1>2. CASE ~Has(w, {"ErrorResponse"})
    BY <1>2, ParsesAnswered, KnownPlainly, PlainlyKnown
  <1> QED
    BY <1>1, <1>2

\* Nothing can be refused while there is no Describe and no Execute to answer.
LEMMA NothingToRefuse ==
  ASSUME NEW ps \in State, NEW w \in Seq(Reply), NEW e, NEW refusals,
         Exchanging(ps, w, None, e, refusals), Owned(ps, w),
         ps.pending_descriptions = << >>, ps.pending_executes = << >>
  PROVE  ~Has(w, Judged)
  <1>1. Answered(ps, w, "Describe") /\ Answered(ps, w, "Execute")
    BY DEF Exchanging, Requests
  <1>2. /\ Count(w, {"RowDescription", "NoData"}) <= 0
        /\ Count(w, {"CommandComplete", "EmptyQueryResponse"}) <= 0
    BY <1>1, SlotsAre DEF Answered, Answering
  <1>3. /\ Count(w, {"RowDescription", "NoData"}) = 0
        /\ Count(w, {"CommandComplete", "EmptyQueryResponse"}) = 0
    BY <1>2, CountIsZero
  <1>4. /\ ~Has(w, {"RowDescription", "NoData"})
        /\ ~Has(w, {"CommandComplete", "EmptyQueryResponse"})
    BY <1>3, CountIsZero
  <1>5. ASSUME NEW i \in DOMAIN w, w[i].tag = "DataRow"
        PROVE  FALSE
    <2> DEFINE n == Upto(w, Answering("Execute"), i)
    <2>1. n + 1 <= 0
      BY <1>5 DEF Owned
    <2>2. n \in Nat
      BY UptoInCount
    <2> QED
      BY <2>1, <2>2
  <1> QED
    BY <1>4, <1>5 DEF Has, Judged

\* A Parse joins an exchange: it is accepted, or its exchange has failed.
LEMMA KnownParsed ==
  ASSUME NEW ps \in State, NEW qs \in State, NEW w \in Seq(Reply), NEW d \in Seq(Reply),
         NEW e, NEW refusals, NEW T \in [Statements -> Sqls],
         NEW name \in Statements, NEW sql \in Sqls,
         Exchanging(ps, w, None, e, refusals), Owned(ps, w), Known(ps, w, None, T),
         Reparses(ps, qs, name, sql), Brings(d, "Parse"),
         ps.pending_descriptions = << >>, ps.pending_executes = << >>,
         Count(w, {"ParseComplete"}) <= Len(ps.pending_parses),
         NEW w2, w2 = IF Has(w, {"ErrorResponse"}) THEN w ELSE w \o d
  PROVE  /\ ~Has(w, {"ErrorResponse"}) =>
                /\ ps.statement_sql[name] \in {None, T[name]}
                /\ Known(qs, w2, None, [T EXCEPT ![name] = sql])
         /\ Has(w2, {"ErrorResponse"}) => Known(qs, w2, None, T)
  <1> DEFINE done == {"ParseComplete"}
             slot == [name |-> name, epoch |-> ps.sync_epoch]
             old == ps.pending_parses
             new == qs.pending_parses
  <1>1. ps.statement_sql \in [Statements -> Option(Sqls)] /\ old \in Seq(PendingParse)
    BY FieldsTyped
  <1>2. qs.statement_sql = [ps.statement_sql EXCEPT ![name] = sql] /\ new = Append(old, slot)
    BY DEF Reparses
  <1>3. ASSUME ~Has(w, {"ErrorResponse"})
        PROVE  /\ ps.statement_sql[name] \in {None, T[name]}
               /\ Known(qs, w2, None, [T EXCEPT ![name] = sql])
    <2>1. Plainly(ps, T)
      BY <1>3, ParsesAnswered, KnownPlainly
    <2>2. Plainly(qs, [T EXCEPT ![name] = sql])
      <3>1. ASSUME NEW x \in Statements
            PROVE  qs.statement_sql[x] \in {None, [T EXCEPT ![name] = sql][x]}
        BY <1>1, <1>2, <2>1 DEF Plainly
      <3> QED
        BY <3>1 DEF Plainly
    <2> QED
      BY <2>1, <2>2 DEF Plainly, Known
  <1>4. ASSUME Has(w2, {"ErrorResponse"})
        PROVE  Known(qs, w2, None, T)
    <2>1. Count(w2, done) = Count(w, done)
      <3>1. CASE Has(w, {"ErrorResponse"})
        BY <3>1
      <3>2. CASE ~Has(w, {"ErrorResponse"})
        <4>1. w2 = w \o d
          BY <3>2
        <4>2. Has(d, {"ErrorResponse"})
          BY <1>4, <3>2, <4>1, UptoOfAppended
        <4>3. Count(d, done) = 0
          <5>1. Count(d, Answering("Parse")) = 0
            BY <4>2 DEF Brings, Requests
          <5> QED
            BY <5>1 DEF Answering
        <4>4. Count(w, done) \in Nat
          BY CountIsZero
        <4>5. Count(w \o d, done) = Count(w, done) + Count(d, done)
          BY UptoOfAppended
        <4> QED
          BY <4>1, <4>3, <4>4, <4>5
      <3> QED
        BY <3>1, <3>2
    <2>2. ~Has(w2, Judged)
      <3>1. ~Has(w, Judged)
        BY NothingToRefuse
      <3>2. ~Has(w, {"ErrorResponse"}) => ~Has(d, Judged)
        <4>1. ASSUME ~Has(w, {"ErrorResponse"})
              PROVE  ~Has(d, Judged)
          <5>1. Has(d, {"ErrorResponse"})
            BY <1>4, <4>1, UptoOfAppended
          <5>2. Len(d) = 1
            BY <5>1 DEF Brings
          <5>3. d[1].tag = "ErrorResponse"
            BY <5>1, <5>2 DEF Has
          <5> QED
            BY <5>2, <5>3 DEF Has, Judged
        <4> QED
          BY <4>1
      <3> QED
        BY <3>1, <3>2, UptoOfAppended
    <2>3. Count(w, done) <= Len(old) /\ Count(w, done) \in Nat /\ Len(old) \in Nat
      <3>1. Count(w, done) \in Nat /\ Len(old) \in Nat
        BY <1>1, CountIsZero
      <3> QED
        BY <3>1
    <2>4. Unanswered(qs, w2, name)
      <3>1. /\ Len(old) + 1 \in DOMAIN new /\ new[Len(old) + 1] = slot
        BY <1>1, <1>2
      <3>2. Len(old) + 1 > Count(w2, done)
        BY <2>1, <2>3
      <3>3. new[Len(old) + 1].name = name
        BY <3>1
      <3> QED
        BY <3>1, <3>2, <3>3 DEF Unanswered
    <2>5. ASSUME NEW x \in Statements, Unanswered(ps, w, x)
          PROVE  Unanswered(qs, w2, x)
      <3>1. PICK k \in DOMAIN old : k > Count(w, done) /\ old[k].name = x
        BY <2>5 DEF Unanswered
      <3>2. k \in DOMAIN new /\ new[k] = old[k]
        BY <1>1, <1>2
      <3> QED
        BY <2>1, <3>1, <3>2 DEF Unanswered
    <2>6. ASSUME NEW x \in Statements, x # name
          PROVE  qs.statement_sql[x] = ps.statement_sql[x]
      BY <1>1, <1>2, <2>6
    <2> QED
      BY <2>2, <2>4, <2>5, <2>6 DEF Known
  <1> QED
    BY <1>3, <1>4

-----------------------------------------------------------------------------
(* Descriptions and rows on the way, and what they are of.                 *)

\* From ps to qs every slot keeps its place, and what it is about.
Retells(ps, qs, T, V, T2, V2) ==
    /\ \A k \in DOMAIN ps.pending_descriptions : \A rd :
           Describes(ps.pending_descriptions[k], rd, T, V) =>
               Describes(qs.pending_descriptions[k], rd, T2, V2)
    /\ \A k \in DOMAIN ps.pending_executes : \A row :
           Belongs(ps.pending_executes[k], row, ps.portal_bind_generations, V) =>
               Belongs(qs.pending_executes[k], row, qs.portal_bind_generations, V2)

\* The new slots of qs are about what is answered in d.
Tallies(ps, qs, d, T2, V2) ==
    \A i \in DOMAIN d :
        /\ d[i].tag = "RowDescription" =>
               Describes(qs.pending_descriptions[Len(ps.pending_descriptions) + 1], d[i], T2, V2)
        /\ d[i].tag = "DataRow" =>
               Belongs(qs.pending_executes[Len(ps.pending_executes) + 1], d[i],
                       qs.portal_bind_generations, V2)

\* A message joins an exchange, and what it brings finds the slot just queued for it.
LEMMA ExplainsGrows ==
  ASSUME NEW ps \in State, NEW qs \in State, NEW w \in Seq(Reply), NEW d \in Seq(Reply),
         NEW w2, NEW tag, NEW e, NEW refusals, NEW T, NEW V, NEW T2, NEW V2,
         Exchanging(ps, w, None, e, refusals), Owned(ps, w), Explains(ps, w, T, V),
         Brings(d, tag), w2 = IF Has(w, {"ErrorResponse"}) THEN w ELSE w \o d,
         Len(qs.pending_parses) = IF tag = "Parse" THEN Len(ps.pending_parses) + 1
                                  ELSE Len(ps.pending_parses),
         Retells(ps, qs, T, V, T2, V2),
         ~Has(w, {"ErrorResponse"}) => Tallies(ps, qs, d, T2, V2)
  PROVE  Explains(qs, w2, T2, V2)
  <1> DEFINE failed == Has(w, {"ErrorResponse"})
             told == Answering("Describe")
             ended == Answering("Execute")
             done == {"ParseComplete"}
             pd == ps.pending_descriptions
             qd == qs.pending_descriptions
             pe == ps.pending_executes
             qe == qs.pending_executes
             gens == qs.portal_bind_generations
             a == Len(w)
             wd == w \o d
  <1>1. /\ a \in Nat /\ DOMAIN w = 1 .. a
        /\ \A i \in DOMAIN w : wd[i] = w[i]
        /\ \A i \in DOMAIN wd : i \notin 1 .. a => /\ i - a \in DOMAIN d /\ wd[i] = d[i - a]
                                                  /\ i - a \in Nat /\ i = a + (i - a)
    OBVIOUS
  <1>2. \A tags : \A n \in 0 .. a : Upto(wd, tags, n) = Upto(w, tags, n)
    BY UptoOfAppended
  <1>3. /\ Len(pd) \in Nat /\ DOMAIN pd = 1 .. Len(pd)
        /\ Len(pe) \in Nat /\ DOMAIN pe = 1 .. Len(pe)
        /\ Len(ps.pending_parses) \in Nat
    BY SlotsCounted, SlotsAre DEF Requests
  <1>4. Answered(ps, w, "Describe") /\ Answered(ps, w, "Execute") /\ Answered(ps, w, "Parse")
    BY DEF Exchanging, Requests
  <1>5. /\ Count(w, told) <= Len(pd) /\ (~failed => Count(w, told) = Len(pd))
        /\ Count(w, ended) <= Len(pe) /\ (~failed => Count(w, ended) = Len(pe))
    <2>1. Count(w, told) \in Nat /\ Count(w, ended) \in Nat
      BY CountIsZero
    <2>2. Slots(ps, "Describe") = pd /\ Slots(ps, "Execute") = pe
      BY SlotsAre
    <2> QED
      BY <1>3, <1>4, <2>1, <2>2 DEF Answered
  <1>6. Count(w2, done) <= Len(qs.pending_parses)
    <2>1. Count(w, done) <= Len(ps.pending_parses) /\ Count(w, done) \in Nat
      BY CountIsZero DEF Explains
    <2> DEFINE x == Count(w, done)
               y == Count(d, done)
               n == Len(ps.pending_parses)
               m == Len(qs.pending_parses)
    <2>2. n \in Nat /\ x \in Nat /\ x <= n /\ m = IF tag = "Parse" THEN n + 1 ELSE n
      BY <1>3, <2>1
    <2>3. CASE failed
      <3>1. w2 = w
        BY <2>3
      <3>2. x <= m
        <4> HIDE DEF x, n, m
        <4> QED
          BY <2>2
      <3> QED
        BY <3>1, <3>2
    <2>4. CASE ~failed
      <3>1. w2 = w \o d /\ Count(w \o d, done) = x + y
        BY <2>4, UptoOfAppended
      <3>2. y = IF "Parse" = tag /\ ~Has(d, {"ErrorResponse"}) THEN 1 ELSE 0
        <4>1. Answering("Parse") = done
          BY DEF Answering
        <4> QED
          BY <4>1 DEF Brings, Requests
      <3>3. y = 0 \/ (tag = "Parse" /\ y = 1)
        BY <3>2
      <3> HIDE DEF x, y, n, m
      <3>4. x + y <= m
        BY <2>2, <3>3
      <3> QED
        BY <3>1, <3>4 DEF x, y, m
    <2> QED
      BY <2>3, <2>4
  <1>7. ASSUME NEW i \in DOMAIN w
        PROVE  /\ w[i].tag = "RowDescription" => Describes(qd[Upto(w, told, i)], w[i], T2, V2)
               /\ w[i].tag = "DataRow" => Belongs(qe[Upto(w, ended, i) + 1], w[i], gens, V2)
    <2>1. ASSUME w[i].tag = "RowDescription"
          PROVE  Describes(qd[Upto(w, told, i)], w[i], T2, V2)
      <3> DEFINE k == Upto(w, told, i)
      <3>1. w[i].tag \in told
        BY <2>1 DEF Answering
      <3>2. k \in Nat /\ k >= 1 /\ k <= Count(w, told) /\ Count(w, told) \in Nat
        BY <3>1, UptoInCount
      <3>3. Describes(pd[k], w[i], T, V)
        BY <2>1 DEF Explains
      <3> HIDE DEF k, told
      <3>4. k \in DOMAIN pd
        BY <1>3, <1>5, <3>2
      <3> HIDE DEF pd, qd
      <3>5. \A rd : Describes(pd[k], rd, T, V) => Describes(qd[k], rd, T2, V2)
        BY <3>4 DEF Retells, pd, qd
      <3> QED
        BY <3>3, <3>5 DEF k
    <2>2. ASSUME w[i].tag = "DataRow"
          PROVE  Belongs(qe[Upto(w, ended, i) + 1], w[i], gens, V2)
      <3> DEFINE k == Upto(w, ended, i) + 1
      <3>1. Upto(w, ended, i) \in Nat
        BY UptoInCount
      <3>2. k <= Len(pe)
        BY <2>2 DEF Owned
      <3>3. Belongs(pe[k], w[i], ps.portal_bind_generations, V)
        BY <2>2 DEF Explains
      <3>4. k \in DOMAIN pe
        BY <1>3, <3>1, <3>2
      <3> HIDE DEF k, ended, pe, qe, gens
      <3>5. \A row : Belongs(pe[k], row, ps.portal_bind_generations, V)
                        => Belongs(qe[k], row, gens, V2)
        BY <3>4 DEF Retells, pe, qe, gens
      <3> QED
        BY <3>3, <3>5 DEF k
    <2> QED
      BY <2>1, <2>2
  <1>8. ASSUME ~failed, NEW i \in DOMAIN wd, i \notin DOMAIN w
        PROVE  /\ wd[i].tag = "RowDescription" => Describes(qd[Upto(wd, told, i)], wd[i], T2, V2)
               /\ wd[i].tag = "DataRow" => Belongs(qe[Upto(wd, ended, i) + 1], wd[i], gens, V2)
    <2>1. i - a \in DOMAIN d /\ wd[i] = d[i - a] /\ i = a + (i - a)
      BY <1>1, <1>8
    <2>2. Tallies(ps, qs, d, T2, V2)
      BY <1>8
    <2>3. \A tags : i = a + 1 =>
              Upto(wd, tags, i) = Count(w, tags) + (IF wd[i].tag \in tags THEN 1 ELSE 0)
      <3>1. \A tags : Upto(wd, tags, a) = Count(w, tags)
        BY <1>1, <1>2 DEF Count
      <3> HIDE DEF wd, a
      <3>2. \A tags : i = a + 1 =>
                Upto(wd, tags, i) = Upto(wd, tags, a) + (IF wd[i].tag \in tags THEN 1 ELSE 0)
        BY <1>1, UptoGrows
      <3> QED
        BY <3>1, <3>2
    <2>4. ASSUME wd[i].tag = "RowDescription"
          PROVE  Describes(qd[Upto(wd, told, i)], wd[i], T2, V2)
      <3>1. Len(d) = 1
        BY <2>1, <2>4 DEF Brings, Has
      <3>2. i = a + 1
        BY <1>1, <2>1, <3>1
      <3>3. wd[i].tag \in told
        BY <2>4 DEF Answering
      <3>4. Upto(wd, told, i) = Len(pd) + 1
        BY <1>5, <1>8, <2>3, <3>2, <3>3
      <3>5. Describes(qd[Len(pd) + 1], d[i - a], T2, V2)
        BY <2>1, <2>2, <2>4 DEF Tallies
      <3> QED
        BY <2>1, <3>4, <3>5
    <2>5. ASSUME wd[i].tag = "DataRow"
          PROVE  Belongs(qe[Upto(wd, ended, i) + 1], wd[i], gens, V2)
      <3>1. i - a = 1
        BY <2>1, <2>5 DEF Brings
      <3>2. i = a + 1
        BY <1>1, <2>1, <3>1
      <3>3. wd[i].tag \notin ended
        BY <2>5 DEF Answering
      <3>4. Upto(wd, ended, i) = Len(pe)
        BY <1>3, <1>5, <1>8, <2>3, <3>2, <3>3
      <3>5. Belongs(qe[Len(pe) + 1], d[i - a], gens, V2)
        BY <2>1, <2>2, <2>5 DEF Tallies
      <3> QED
        BY <2>1, <3>4, <3>5
    <2> QED
      BY <2>4, <2>5
  <1> HIDE DEF failed, told, ended, done, pd, qd, pe, qe, gens, wd
  <1>9. CASE failed
    BY <1>6, <1>7, <1>9 DEF Explains, failed, told, ended, done, qd, qe, gens
  <1>10. CASE ~failed
    <2>1. \A i \in DOMAIN w : \A tags : Upto(wd, tags, i) = Upto(w, tags, i)
      BY <1>1, <1>2
    <2>2. w2 = wd
      BY <1>10 DEF wd, failed
    <2>3. ASSUME NEW i \in DOMAIN wd
          PROVE  /\ wd[i].tag = "RowDescription" =>
                        Describes(qd[Upto(wd, told, i)], wd[i], T2, V2)
                 /\ wd[i].tag = "DataRow" =>
                        Belongs(qe[Upto(wd, ended, i) + 1], wd[i], gens, V2)
      <3>1. CASE i \in DOMAIN w
        <4>1. /\ wd[i] = w[i] /\ Upto(wd, told, i) = Upto(w, told, i)
              /\ Upto(wd, ended, i) = Upto(w, ended, i)
          BY <1>1, <2>1, <3>1
        <4> QED
          BY <1>7, <3>1, <4>1
      <3>2. CASE i \notin DOMAIN w
        BY <1>8, <1>10, <2>3, <3>2
      <3> QED
        BY <3>1, <3>2
    <2> QED
      BY <1>6, <2>2, <2>3 DEF Explains, told, ended, done, qd, qe, gens
  <1> QED
    BY <1>9, <1>10

\* A slot that is given a plan is still about the same rows.
LEMMA RefilledBelongs ==
  ASSUME NEW x, NEW y, NEW generations, NEW V, Refilled(x, y, generations, V),
         NEW row, Belongs(x, row, generations, V)
  PROVE  Belongs(y, row, generations, V)
  BY DEF Refilled, Belongs

\* An answer is read and takes its slot; what is still on the way keeps its own.
LEMMA ExplainsShrinks ==
  ASSUME NEW ps \in State, NEW qs \in State, NEW w \in Seq(Reply), w # << >>, NEW tag,
         NEW e, NEW refusals, NEW T, NEW V,
         Exchanging(ps, w, None, e, refusals), Owned(ps, w), Explains(ps, w, T, V),
         \A t \in Requests : Head(w).tag \in Answering(t) <=> t = tag,
         Len(qs.pending_parses) = Len(Popped(ps, tag, "Parse")),
         qs.pending_descriptions = Popped(ps, tag, "Describe"),
         \A k \in DOMAIN Popped(ps, tag, "Execute") :
             Refilled(Popped(ps, tag, "Execute")[k], qs.pending_executes[k],
                      ps.portal_bind_generations, V),
         qs.portal_bind_generations = ps.portal_bind_generations
  PROVE  Explains(qs, Tail(w), T, V)
  <1> DEFINE tl == Tail(w)
             told == Answering("Describe")
             ended == Answering("Execute")
             done == {"ParseComplete"}
             pd == ps.pending_descriptions
             qd == qs.pending_descriptions
             pe == ps.pending_executes
             popped == Popped(ps, tag, "Execute")
             qe == qs.pending_executes
             gens == ps.portal_bind_generations
             one(t) == IF Head(w).tag \in Answering(t) THEN 1 ELSE 0
  <1>1. /\ \A i \in DOMAIN tl : i \in 0 .. Len(w) - 1 /\ i \in Nat /\ i >= 1
                                /\ i + 1 \in DOMAIN w /\ tl[i] = w[i + 1]
        /\ tl \in Seq(Reply)
    OBVIOUS
  <1>2. \A tags : \A i \in DOMAIN tl :
            Upto(w, tags, i + 1) = Upto(tl, tags, i) + (IF Head(w).tag \in tags THEN 1 ELSE 0)
    BY <1>1, UptoOfTail
  <1>3. /\ pd \in Seq(PendingDescribe \cup PendingSimple) /\ pe \in Seq(PendingExecute)
        /\ ps.pending_parses \in Seq(PendingParse)
    BY FieldsTyped
  <1>4. /\ qd = IF Head(w).tag \in told THEN PopFront(pd) ELSE pd
        /\ popped = IF Head(w).tag \in ended THEN PopFront(pe) ELSE pe
        /\ Len(qs.pending_parses) = Len(IF Head(w).tag \in done THEN PopFront(ps.pending_parses)
                                        ELSE ps.pending_parses)
    <2>1. /\ Head(w).tag \in told <=> "Describe" = tag
          /\ Head(w).tag \in ended <=> "Execute" = tag
          /\ Head(w).tag \in Answering("Parse") <=> "Parse" = tag
      BY DEF Requests
    <2>2. Answering("Parse") = done
      BY DEF Answering
    <2> QED
      BY <2>1, <2>2, SlotsAre DEF Popped
  <1>5. Count(tl, done) <= Len(qs.pending_parses)
    <2> DEFINE x == Count(w, done)
               y == Count(tl, done)
               n == Len(ps.pending_parses)
    <2>1. x <= n /\ n \in Nat /\ x \in Nat /\ y \in Nat
      <3>1. x <= n
        BY DEF Explains
      <3>2. n \in Nat
        BY <1>3
      <3>3. x \in Nat /\ y \in Nat
        BY <1>1, CountIsZero
      <3> QED
        BY <3>1, <3>2, <3>3
    <2>2. x = y + IF Head(w).tag \in done THEN 1 ELSE 0
      BY CountOfTail
    <2>3. CASE Head(w).tag \in done
      <3>1. x = y + 1
        BY <2>2, <2>3
      <3>2. ps.pending_parses # << >>
        BY <1>3, <2>1, <3>1
      <3>3. Len(qs.pending_parses) = n - 1
        BY <1>3, <1>4, <2>3, <3>2 DEF PopFront
      <3> HIDE DEF x, y, n
      <3>4. y <= n - 1
        BY <2>1, <3>1
      <3> QED
        BY <3>3, <3>4 DEF y
    <2>4. CASE Head(w).tag \notin done
      <3>1. x = y
        BY <2>1, <2>2, <2>4
      <3>2. Len(qs.pending_parses) = n
        BY <1>4, <2>4
      <3> QED
        BY <2>1, <3>1, <3>2
    <2> QED
      BY <2>3, <2>4
  <1>6. ASSUME NEW i \in DOMAIN tl, tl[i].tag = "RowDescription"
        PROVE  Describes(qd[Upto(tl, told, i)], tl[i], T, V)
    <2> DEFINE j == i + 1
               u == Upto(tl, told, i)
               v == Upto(w, told, j)
    <2>1. j \in DOMAIN w /\ tl[i] = w[j]
      BY <1>1
    <2>2. Describes(pd[v], w[j], T, V)
      BY <1>6, <2>1 DEF Explains
    <2>3. tl[i].tag \in told
      BY <1>6 DEF Answering
    <2>4. u \in Nat /\ u >= 1
      BY <1>1, <2>3, UptoInCount
    <2>5. v \in Nat /\ v <= Count(w, told) /\ Count(w, told) \in Nat
      BY <2>1, UptoInCount
    <2>6. Count(w, told) <= Len(pd)
      <3>1. Answered(ps, w, "Describe")
        BY DEF Exchanging, Requests
      <3> QED
        BY <3>1, SlotsAre DEF Answered
    <2>7. v = u + IF Head(w).tag \in told THEN 1 ELSE 0
      BY <1>2
    <2> HIDE DEF u, v, j, told, pd, qd, tl
    <2>8. v <= Len(pd) /\ Len(pd) \in Nat
      BY <1>3, <2>5, <2>6
    <2>9. qd[u] = pd[v]
      <3>1. CASE Head(w).tag \in told
        <4>1. v = u + 1
          BY <2>7, <3>1
        <4>2. pd # << >>
          BY <1>3, <2>4, <2>8, <4>1
        <4>3. qd = Tail(pd)
          BY <1>4, <3>1, <4>2 DEF PopFront
        <4> QED
          BY <1>3, <2>4, <2>8, <4>1, <4>2, <4>3
      <3>2. CASE Head(w).tag \notin told
        <4>1. v = u
          BY <2>4, <2>7, <3>2
        <4> QED
          BY <1>4, <3>2, <4>1
      <3> QED
        BY <3>1, <3>2
    <2> QED
      BY <2>1, <2>2, <2>9 DEF u
  <1>7. ASSUME NEW i \in DOMAIN tl, tl[i].tag = "DataRow"
        PROVE  Belongs(qe[Upto(tl, ended, i) + 1], tl[i], gens, V)
    <2> DEFINE j == i + 1
               u == Upto(tl, ended, i) + 1
               v == Upto(w, ended, j) + 1
    <2>1. j \in DOMAIN w /\ tl[i] = w[j]
      BY <1>1
    <2>2. Belongs(pe[v], w[j], gens, V)
      BY <1>7, <2>1 DEF Explains
    <2>3. v <= Len(pe)
      BY <1>7, <2>1 DEF Owned
    <2>4. Upto(tl, ended, i) \in Nat /\ Upto(w, ended, j) \in Nat
      BY <1>1, <2>1, UptoInCount
    <2>5. Upto(w, ended, j) = Upto(tl, ended, i) + IF Head(w).tag \in ended THEN 1 ELSE 0
      BY <1>2
    <2>6. u \in Nat /\ u >= 1 /\ v \in Nat /\ v = u + IF Head(w).tag \in ended THEN 1 ELSE 0
      BY <2>4, <2>5
    <2> HIDE DEF u, v, j, ended, pe, popped, tl
    <2>7. u \in DOMAIN popped /\ popped[u] = pe[v]
      <3>1. CASE Head(w).tag \in ended
        <4>1. v = u + 1
          BY <2>6, <3>1
        <4>2. pe # << >>
          BY <1>3, <2>3, <2>6, <4>1
        <4>3. popped = Tail(pe)
          BY <1>4, <3>1, <4>2 DEF PopFront
        <4> QED
          BY <1>3, <2>3, <2>6, <4>1, <4>2, <4>3
      <3>2. CASE Head(w).tag \notin ended
        <4>1. v = u
          BY <2>6, <3>2
        <4> QED
          BY <1>3, <1>4, <2>3, <2>6, <3>2, <4>1
      <3> QED
        BY <3>1, <3>2
    <2>8. Refilled(popped[u], qe[u], gens, V)
      BY <2>7 DEF popped
    <2> HIDE DEF qe, gens
    <2>9. Belongs(qe[u], w[j], gens, V)
      BY <2>2, <2>7, <2>8, RefilledBelongs
    <2> QED
      BY <2>1, <2>9 DEF u
  <1> QED
    BY <1>5, <1>6, <1>7 DEF Explains

\* A row of an exchange is judged by a plan of the very result it belongs to, or by none.
LEMMA RowIsJudged ==
  ASSUME NEW ps \in State, NEW w \in Seq(Reply), w # << >>, NEW b, NEW T, NEW V,
         Agreed(ps, b, T, V), Explains(ps, w, T, V), Owned(ps, w),
         ps.streaming_simple_result = FALSE, Head(w).tag = "DataRow"
  PROVE  Judges(StreamingPlan(ps), Head(w))
  <1> DEFINE row == Head(w)
             owner == Head(ps.pending_executes)
             ended == Answering("Execute")
  <1>1. 1 \in DOMAIN w /\ w[1] = row
    BY CountOfTail
  <1>2. Upto(w, ended, 1) = 0
    <2>1. w[1].tag \notin ended
      BY <1>1 DEF Answering
    <2> HIDE DEF ended
    <2>2. Upto(w, ended, 1) = Upto(w, ended, 0) + (IF w[1].tag \in ended THEN 1 ELSE 0)
      BY UptoGrows
    <2> QED
      BY <2>1, <2>2, UptoGrows
  <1>3. /\ 1 <= Len(ps.pending_executes)
        /\ Belongs(ps.pending_executes[1], row, ps.portal_bind_generations, V)
    <2>1. /\ Upto(w, ended, 1) + 1 <= Len(ps.pending_executes)
          /\ Belongs(ps.pending_executes[Upto(w, ended, 1) + 1], row,
                     ps.portal_bind_generations, V)
      BY <1>1 DEF Owned, Explains
    <2> QED
      BY <1>2, <2>1
  <1>4. /\ ps.pending_executes # << >> /\ owner = ps.pending_executes[1]
        /\ owner \in PendingExecute
    <2>1. ps.pending_executes \in Seq(PendingExecute)
      BY FieldsTyped
    <2> QED
      BY <1>3, <2>1
  <1>5. /\ row.fields = Head(Results[row.text]) /\ Fits(owner.plan, BindingOf(row))
        /\ owner.bind_generation = ps.portal_bind_generations[owner.name] =>
               V[owner.name] = BindingOf(row)
    BY <1>3, <1>4 DEF Belongs
  <1>6. owner.name \in Portals
    BY <1>4 DEF PendingExecute
  <1> HIDE DEF owner, row
  <1>7. Fits(StreamingPlan(ps), BindingOf(row))
    <2>1. StreamingPlan(ps) =
              IF owner.plan # None
              THEN owner.plan
              ELSE IF owner.bind_generation = ps.portal_bind_generations[owner.name]
              THEN ps.portal_plans[owner.name]
              ELSE None
      BY <1>4 DEF StreamingPlan, owner
    <2>2. Fits(ps.portal_plans[owner.name], V[owner.name])
      BY <1>6 DEF Agreed
    <2>3. Fits(None, BindingOf(row))
      BY DEF Fits, Tells
    <2> QED
      BY <1>5, <2>1, <2>2, <2>3
  <1>8. BindingOf(row).sql = row.text /\ BindingOf(row).format = row.format
    BY DEF BindingOf
  <1>9. Judges(StreamingPlan(ps), row)
    BY <1>5, <1>7, <1>8 DEF Fits, Tells, Judges
  <1> QED
    BY <1>9 DEF row

\* A reply of a query is read: the next row is right behind its description or of the plan
\* that its description has just armed.
LEMMA ReadingTail ==
  ASSUME NEW ps, NEW qs, NEW w \in Seq(Reply), w # << >>, Reading(ps, w),
         IF Head(w).tag = "RowDescription"
         THEN qs.pending_descriptions = << >> /\ Judges(qs.active_plan, Head(w))
         ELSE qs.pending_descriptions \in {<< >>, ps.pending_descriptions}
  PROVE  Reading(qs, Tail(w))
  <1> DEFINE tl == Tail(w)
  <1>1. /\ \A i \in DOMAIN tl : /\ i \in Nat /\ i + 1 \in DOMAIN w /\ tl[i] = w[i + 1]
                                /\ i + 1 # 1 /\ (i # 1 => i - 1 \in DOMAIN tl)
                                /\ (i # 1 => tl[i - 1] = w[i])
        /\ w[1] = Head(w)
    OBVIOUS
  <1>2. ASSUME NEW i \in DOMAIN tl, tl[i].tag = "DataRow"
        PROVE  IF i = 1
               THEN Judges(qs.active_plan, tl[1])
               ELSE /\ tl[i - 1].tag = "RowDescription" /\ tl[i - 1].fields = tl[i].fields
                    /\ BindingOf(tl[i - 1]) = BindingOf(tl[i])
    <2> DEFINE j == i + 1
    <2>1. /\ i \in Nat /\ j \in DOMAIN w /\ tl[i] = w[j] /\ j # 1 /\ j - 1 = i
          /\ i # 1 => tl[i - 1] = w[i]
      BY <1>1
    <2> HIDE DEF j, tl
    <2>2. /\ w[i].tag = "RowDescription" /\ w[i].fields = w[j].fields
          /\ BindingOf(w[i]) = BindingOf(w[j])
      BY <1>2, <2>1 DEF Reading
    <2>3. CASE i = 1
      <3>1. Head(w).tag = "RowDescription"
        BY <1>1, <2>2, <2>3
      <3>2. Judges(qs.active_plan, w[1])
        BY <1>1, <3>1
      <3>3. w[1].text = w[j].text /\ w[1].format = w[j].format
        BY <2>2, <2>3 DEF BindingOf
      <3>4. Judges(qs.active_plan, w[j])
        BY <2>2, <2>3, <3>2, <3>3 DEF Judges
      <3> QED
        BY <2>1, <2>3, <3>4
    <2>4. CASE i # 1
      BY <2>1, <2>2, <2>4
    <2> QED
      BY <2>3, <2>4
  <1>3. ASSUME qs.pending_descriptions # << >>, NEW i \in DOMAIN tl,
               tl[i].tag = "RowDescription"
        PROVE  qs.pending_descriptions[1].sql \in {None, tl[i].text}
    <2>1. qs.pending_descriptions = ps.pending_descriptions
      BY <1>3
    <2>2. i + 1 \in DOMAIN w /\ tl[i] = w[i + 1]
      BY <1>1
    <2> HIDE DEF tl
    <2> QED
      BY <1>3, <2>1, <2>2 DEF Reading
  <1> HIDE DEF tl
  <1>4. Reading(qs, tl)
    BY <1>2, <1>3 DEF Reading
  <1> QED
    BY <1>4 DEF tl

-----------------------------------------------------------------------------
(* The backend's replies.                                                  *)

\* From ps to qs an answer takes the first slot of its kind; the others keep what they are
\* about.
Takes(ps, qs, tag, V) ==
    /\ qs.pending_parses = Popped(ps, tag, "Parse")
    /\ qs.pending_descriptions = Popped(ps, tag, "Describe")
    /\ \A k \in DOMAIN Popped(ps, tag, "Execute") :
           Refilled(Popped(ps, tag, "Execute")[k], qs.pending_executes[k],
                    ps.portal_bind_generations, V)
    /\ qs.portal_bind_generations = ps.portal_bind_generations

\* From ps to qs the first reply of a query is read.
ReadsOn(ps, qs, w) ==
    IF Head(w).tag = "RowDescription"
    THEN qs.pending_descriptions = << >> /\ Judges(qs.active_plan, Head(w))
    ELSE qs.pending_descriptions \in {<< >>, ps.pending_descriptions}

\* What is to be shown of an arm that reads an answer and refuses nothing.
LEMMA AnswerNamed ==
  ASSUME NEW ps \in State, NEW qs \in State, NEW w \in Seq(Reply), w # << >>, NEW b,
         NEW o \in {"none", "exchange", "query"}, NEW n, NEW g, NEW refusals, NEW tag,
         NEW T, NEW V, Sound(ps, w, None, b, o, n, g, refusals),
         Named(ps, w, None, b, o, T, V),
         \A t \in Requests : Head(w).tag \in Answering(t) <=> t = tag,
         Agreed(qs, b, T, V), Recalls(ps, qs),
         o # "query" => Takes(ps, qs, tag, V),
         o = "query" => ReadsOn(ps, qs, w)
  PROVE  Named(qs, Tail(w), None, b, o, T, V)
  <1>1. Known(ps, w, None, T)
    BY DEF Named
  <1>2. CASE o = "query"
    <2>1. Querying(ps, w, None) /\ Reading(ps, w)
      BY <1>2 DEF Sound, Named
    <2>2. ps.pending_parses = << >>
      BY <2>1, SlotsAre DEF Querying, Requests
    <2>3. Known(qs, Tail(w), None, T)
      BY <1>1, <2>2, KnownPlainly, PlainlyKnown
    <2>4. Reading(qs, Tail(w))
      BY <1>2, <2>1, ReadingTail DEF ReadsOn
    <2> QED
      BY <1>2, <2>3, <2>4 DEF Named
  <1>3. CASE o # "query"
    <2>1. PICK e : Exchanging(ps, w, None, e, refusals) /\ Owned(ps, w)
      BY <1>3, InExchange DEF Underway
    <2>2. Explains(ps, w, T, V)
      BY <1>3 DEF Named
    <2>3. Takes(ps, qs, tag, V)
      BY <1>3
    <2>4. ps.pending_parses \in Seq(PendingParse)
      BY FieldsTyped
    <2>5. Head(w).tag = "ParseComplete" <=> tag = "Parse"
      BY DEF Requests, Answering
    <2>6. IF Head(w).tag = "ParseComplete"
          THEN ps.pending_parses # << >> /\ qs.pending_parses = Tail(ps.pending_parses)
          ELSE qs.pending_parses = ps.pending_parses
      <3>1. CASE tag = "Parse"
        <4>1. Count(w, {"ParseComplete"}) <= Len(ps.pending_parses)
          BY <2>2 DEF Explains
        <4>2. /\ Count(w, {"ParseComplete"}) = Count(Tail(w), {"ParseComplete"}) + 1
              /\ Count(Tail(w), {"ParseComplete"}) \in Nat
          <5>1. Tail(w) \in Seq(Reply) /\ Head(w).tag \in {"ParseComplete"}
            BY <2>5, <3>1, CountOfTail
          <5> DEFINE done == {"ParseComplete"}
          <5>2. Count(w, done) = Count(Tail(w), done) + (IF Head(w).tag \in done THEN 1 ELSE 0)
            BY CountOfTail
          <5>3. Count(Tail(w), done) \in Nat
            BY <5>1, CountIsZero
          <5> QED
            BY <5>1, <5>2, <5>3
        <4>3. Len(ps.pending_parses) > 0
          BY <2>4, <4>1, <4>2
        <4>4. ps.pending_parses # << >>
          BY <2>4, <4>3
        <4> QED
          BY <2>3, <2>5, <3>1, <4>4, SlotsAre DEF Takes, Popped, PopFront
      <3>2. CASE tag # "Parse"
        BY <2>3, <2>5, <3>2, SlotsAre DEF Takes, Popped
      <3> QED
        BY <3>1, <3>2
    <2>7. Known(qs, Tail(w), None, T)
      BY <1>1, <2>6, KnownTail
    <2>8. Explains(qs, Tail(w), T, V)
      BY <2>1, <2>2, <2>3, ExplainsShrinks DEF Takes
    <2> QED
      BY <1>3, <2>7, <2>8 DEF Named
  <1> QED
    BY <1>2, <1>3

\* A call that moves slots and what is armed, but no name.
LEMMA SameNamesAgree ==
  ASSUME NEW ps, NEW qs, SameNames(ps, qs), NEW b, NEW T, NEW V, Agreed(ps, b, T, V)
  PROVE  Agreed(qs, b, T, V) /\ Recalls(ps, qs)
  BY SameForgets, AgreedForgets, DropsByFields

\* An answer that takes a slot of its queue and fills none.
LEMMA PoppedTakes ==
  ASSUME NEW ps, NEW qs, NEW tag, NEW V,
         qs.pending_parses = Popped(ps, tag, "Parse"),
         qs.pending_descriptions = Popped(ps, tag, "Describe"),
         qs.pending_executes = Popped(ps, tag, "Execute"),
         qs.portal_bind_generations = ps.portal_bind_generations
  PROVE  Takes(ps, qs, tag, V)
  BY DEF Takes, Refilled

\* What is refused may only be swallowed because the texts are right.
LEMMA RejectNamed ==
  ASSUME NEW ps, NEW qs, NEW w \in Seq(Reply), w # << >>, NEW s, s # None, NEW b, NEW o,
         NEW T, NEW V, Named(ps, w, None, b, o, T, V), SameNames(ps, qs),
         Head(w).tag \in Judged
  PROVE  Named(qs, Tail(w), s, b, o, T, V)
  <1>1. Has(w, Judged)
    BY CountOfTail
  <1>2. Plainly(ps, T)
    BY <1>1, KnownPlainly DEF Named
  <1>3. Agreed(qs, b, T, V) /\ Recalls(ps, qs)
    BY SameNamesAgree DEF Named
  <1> QED
    BY <1>2, <1>3, PlainlyKnown DEF Named

\* What is swallowed changes nothing.
LEMMA SwallowedNamed ==
  ASSUME NEW ps, NEW w, NEW w2, NEW s, s # None, NEW b, NEW o, NEW T, NEW V,
         Named(ps, w, s, b, o, T, V)
  PROVE  Named(ps, w2, s, b, o, T, V)
  BY DEF Named, Known

\* The answers that complete a Parse, a Bind or a Close, and a row that is let through.
LEMMA CompleteNamed ==
  ASSUME NEW ps \in State, NEW w \in Seq(Reply), w # << >>, NEW b,
         NEW o \in {"none", "exchange", "query"}, NEW n, NEW g, NEW refusals, NEW T, NEW V,
         Sound(ps, w, None, b, o, n, g, refusals), Named(ps, w, None, b, o, T, V)
  PROVE  /\ Head(w).tag = "ParseComplete" => Named(FinishParse(ps), Tail(w), None, b, o, T, V)
         /\ Head(w).tag = "BindComplete" => Named(FinishBind(ps), Tail(w), None, b, o, T, V)
         /\ Head(w).tag \in {"CloseComplete", "DataRow"} => Named(ps, Tail(w), None, b, o, T, V)
  <1>1. Agreed(ps, b, T, V)
    BY DEF Named
  <1>2. ASSUME Head(w).tag = "ParseComplete"
        PROVE  Named(FinishParse(ps), Tail(w), None, b, o, T, V)
    <2> DEFINE qs == FinishParse(ps)
    <2>1. qs \in State
      BY FinishParseTyped
    <2>2. /\ qs.pending_parses = PopFront(ps.pending_parses)
          /\ qs.pending_descriptions = ps.pending_descriptions
          /\ qs.pending_executes = ps.pending_executes
          /\ qs.portal_bind_generations = ps.portal_bind_generations
      BY DEF FinishParse, State
    <2>3. SameNames(ps, qs)
      BY NamesUntouched
    <2> HIDE DEF qs
    <2>4. Takes(ps, qs, "Parse", V)
      BY <2>2, PoppedTakes, SlotsAre DEF Popped
    <2>5. ReadsOn(ps, qs, w)
      BY <1>2, <2>2 DEF ReadsOn
    <2>6. Agreed(qs, b, T, V) /\ Recalls(ps, qs)
      BY <1>1, <2>3, SameNamesAgree
    <2>7. \A t \in Requests : Head(w).tag \in Answering(t) <=> t = "Parse"
      BY <1>2 DEF Answering, Requests
    <2>8. Named(qs, Tail(w), None, b, o, T, V)
      BY <2>1, <2>4, <2>5, <2>6, <2>7, AnswerNamed
    <2> QED
      BY <2>8 DEF qs
  <1>3. ASSUME Head(w).tag = "BindComplete"
        PROVE  Named(FinishBind(ps), Tail(w), None, b, o, T, V)
    <2> DEFINE qs == FinishBind(ps)
    <2>1. qs \in State
      BY FinishBindTyped
    <2>2. /\ Agreed(qs, b, T, V) /\ Learns(ps, qs, V)
          /\ qs.pending_descriptions = ps.pending_descriptions
      BY <1>1, FinishBindLearns
    <2> HIDE DEF qs
    <2>3. /\ qs.pending_parses = ps.pending_parses
          /\ qs.portal_bind_generations = ps.portal_bind_generations
          /\ \A k \in DOMAIN ps.pending_executes :
                 Refilled(ps.pending_executes[k], qs.pending_executes[k],
                          ps.portal_bind_generations, V)
          /\ Recalls(ps, qs)
      BY <2>2 DEF Learns, Recalls
    <2>4. Takes(ps, qs, "Bind", V)
      BY <2>2, <2>3, SlotsAre DEF Popped, Takes
    <2>5. ReadsOn(ps, qs, w)
      BY <1>3, <2>2 DEF ReadsOn
    <2>6. \A t \in Requests : Head(w).tag \in Answering(t) <=> t = "Bind"
      BY <1>3 DEF Answering, Requests
    <2>7. Named(qs, Tail(w), None, b, o, T, V)
      BY <2>1, <2>2, <2>3, <2>4, <2>5, <2>6, AnswerNamed
    <2> QED
      BY <2>7 DEF qs
  <1>4. ASSUME Head(w).tag \in {"CloseComplete", "DataRow"}
        PROVE  Named(ps, Tail(w), None, b, o, T, V)
    <2>1. Takes(ps, ps, "Close", V)
      BY PoppedTakes, SlotsAre DEF Popped
    <2>2. ReadsOn(ps, ps, w)
      BY <1>4 DEF ReadsOn
    <2>3. Recalls(ps, ps)
      BY DEF Recalls
    <2>4. \A t \in Requests : Head(w).tag \in Answering(t) <=> t = "Close"
      BY <1>4 DEF Answering, Requests
    <2> QED
      BY <1>1, <2>1, <2>2, <2>3, <2>4, AnswerNamed
  <1> QED
    BY <1>2, <1>3, <1>4

\* The end of a result.
LEMMA CommandNamed ==
  ASSUME NEW ps \in State, NEW w \in Seq(Reply), w # << >>, NEW b,
         NEW o \in {"none", "exchange", "query"}, NEW n, NEW g, NEW refusals, NEW T, NEW V,
         Sound(ps, w, None, b, o, n, g, refusals), Named(ps, w, None, b, o, T, V),
         Head(w).tag = "CommandComplete"
  PROVE  Named(FinishResultSet(ps), Tail(w), None, b, o, T, V)
  <1> DEFINE qs == FinishResultSet(ps)
  <1>1. qs \in State /\ SameNames(ps, qs)
    BY FinishResultSetTyped, NamesUntouched
  <1>2. Agreed(qs, b, T, V) /\ Recalls(ps, qs)
    BY <1>1, SameNamesAgree DEF Named
  <1>3. ASSUME o # "query"
        PROVE  Takes(ps, qs, "Execute", V)
    <2>1. PICK e : Underway(ps, w, None, e, refusals)
      BY <1>3, InExchange
    <2>2. ~SimpleIsNext(ps)
      <3>1. ps.pending_descriptions \in Seq(PendingDescribe \cup PendingSimple)
        BY FieldsTyped
      <3>2. \A i \in DOMAIN ps.pending_descriptions :
                ps.pending_descriptions[i].kind = "describe"
        BY <2>1 DEF Underway, Exchanging, OfEpoch
      <3> QED
        BY <3>1, <3>2 DEF SimpleIsNext
    <2>3. ps.streaming_simple_result = FALSE
      BY <1>3 DEF Sound
    <2>4. /\ qs.pending_parses = ps.pending_parses
          /\ qs.pending_descriptions = ps.pending_descriptions
          /\ qs.pending_executes = PopFront(ps.pending_executes)
          /\ qs.portal_bind_generations = ps.portal_bind_generations
      BY <2>2, <2>3 DEF FinishResultSet, State
    <2> HIDE DEF qs
    <2> QED
      BY <2>4, PoppedTakes, SlotsAre DEF Popped
  <1>4. ASSUME o = "query"
        PROVE  ReadsOn(ps, qs, w)
    <2>1. Querying(ps, w, None)
      BY <1>4 DEF Sound
    <2>2. ps.pending_descriptions # << >> => Tail(ps.pending_descriptions) = << >>
      BY <2>1, QueryIsNext
    <2>3. qs.pending_descriptions = ps.pending_descriptions
            \/ (ps.pending_descriptions # << >>
                  /\ qs.pending_descriptions = Tail(ps.pending_descriptions))
      BY DEF FinishResultSet, SimpleIsNext, State
    <2> QED
      BY <2>2, <2>3 DEF ReadsOn
  <1>5. \A t \in Requests : Head(w).tag \in Answering(t) <=> t = "Execute"
    BY DEF Answering, Requests
  <1> HIDE DEF qs
  <1>6. Named(qs, Tail(w), None, b, o, T, V)
    BY <1>1, <1>2, <1>3, <1>4, <1>5, AnswerNamed
  <1> QED
    BY <1>6 DEF qs

\* The answer to a Describe that returns no rows.
LEMMA NoDataNamed ==
  ASSUME NEW ps \in State, NEW w \in Seq(Reply), w # << >>, NEW b,
         NEW o \in {"none", "exchange", "query"}, NEW n, NEW g, NEW refusals, NEW T, NEW V,
         Sound(ps, w, None, b, o, n, g, refusals), Named(ps, w, None, b, o, T, V),
         Head(w).tag = "NoData"
  PROVE  IF HeadIs(ps, "describe")
         THEN Named(FinishNoData(ps), Tail(w), None, b, o, T, V)
         ELSE Named(ClearActive(ps), Tail(w), RejectionEpoch(ps), b, o, T, V)
  <1>1. CASE HeadIs(ps, "describe")
    <2> DEFINE qs == FinishNoData(ps)
    <2>1. qs \in State /\ SameNames(ps, qs)
      BY <1>1, FinishNoDataTyped, NamesUntouched
    <2>2. Agreed(qs, b, T, V) /\ Recalls(ps, qs)
      BY <2>1, SameNamesAgree DEF Named
    <2>3. ps.pending_descriptions # << >>
      BY <1>1 DEF HeadIs
    <2>4. /\ qs.pending_parses = ps.pending_parses
          /\ qs.pending_descriptions = PopFront(ps.pending_descriptions)
          /\ qs.pending_executes = ps.pending_executes
          /\ qs.portal_bind_generations = ps.portal_bind_generations
      BY <2>3 DEF FinishNoData, State, PopFront
    <2> HIDE DEF qs
    <2>5. Takes(ps, qs, "Describe", V)
      BY <2>4, PoppedTakes, SlotsAre DEF Popped
    <2>6. ASSUME o = "query" PROVE FALSE
      <3>1. Querying(ps, w, None)
        BY <2>6 DEF Sound
      <3> QED
        BY <1>1, <2>3, <3>1, QueryIsNext
    <2>7. \A t \in Requests : Head(w).tag \in Answering(t) <=> t = "Describe"
      BY DEF Answering, Requests
    <2>8. Named(qs, Tail(w), None, b, o, T, V)
      BY <2>1, <2>2, <2>5, <2>6, <2>7, AnswerNamed
    <2> QED
      BY <1>1, <2>8 DEF qs
  <1>2. CASE ~HeadIs(ps, "describe")
    <2>1. SameNames(ps, ClearActive(ps)) /\ RejectionEpoch(ps) # None
      BY NamesUntouched, ClearedFacts
    <2>2. Head(w).tag \in Judged
      BY DEF Judged
    <2>3. Named(ClearActive(ps), Tail(w), RejectionEpoch(ps), b, o, T, V)
      BY <2>1, <2>2, RejectNamed
    <2> QED
      BY <1>2, <2>3
  <1> QED
    BY <1>1, <1>2

\* The answer to an empty text.
LEMMA EmptyNamed ==
  ASSUME NEW ps \in State, NEW w \in Seq(Reply), w # << >>, NEW b,
         NEW o \in {"none", "exchange", "query"}, NEW n, NEW g, NEW refusals, NEW T, NEW V,
         Sound(ps, w, None, b, o, n, g, refusals), Named(ps, w, None, b, o, T, V),
         Head(w).tag = "EmptyQueryResponse"
  PROVE  IF HeadIs(ps, "simple")
         THEN Named(FinishEmptyQuery(ps), Tail(w), None, b, o, T, V)
         ELSE Named(ClearActive(ps), Tail(w), RejectionEpoch(ps), b, o, T, V)
  <1>1. CASE HeadIs(ps, "simple")
    <2> DEFINE qs == FinishEmptyQuery(ps)
    <2>1. qs \in State /\ SameNames(ps, qs)
      BY <1>1, FinishEmptyQueryTyped, NamesUntouched
    <2>2. Agreed(qs, b, T, V) /\ Recalls(ps, qs)
      BY <2>1, SameNamesAgree DEF Named
    <2>3. ps.pending_descriptions # << >>
      BY <1>1 DEF HeadIs
    <2>4. qs.pending_descriptions = Tail(ps.pending_descriptions)
      BY DEF FinishEmptyQuery, State
    <2> HIDE DEF qs
    <2>5. o = "query"
      <3>1. SUFFICES ASSUME o # "query" PROVE FALSE
        OBVIOUS
      <3>2. PICK e : Underway(ps, w, None, e, refusals)
        BY <3>1, InExchange
      <3>3. \A i \in DOMAIN ps.pending_descriptions :
                ps.pending_descriptions[i].kind = "describe"
        BY <3>2 DEF Underway, Exchanging, OfEpoch
      <3>4. ps.pending_descriptions \in Seq(PendingDescribe \cup PendingSimple)
        BY FieldsTyped
      <3> QED
        BY <1>1, <3>3, <3>4 DEF HeadIs
    <2>6. Querying(ps, w, None)
      BY <2>5 DEF Sound
    <2>7. Tail(ps.pending_descriptions) = << >>
      BY <2>3, <2>6, QueryIsNext
    <2>8. ReadsOn(ps, qs, w)
      BY <2>4, <2>7 DEF ReadsOn
    <2>9. \A t \in Requests : Head(w).tag \in Answering(t) <=> t = "Execute"
      BY DEF Answering, Requests
    <2>10. Named(qs, Tail(w), None, b, o, T, V)
      <3>1. o # "query" => Takes(ps, qs, "Execute", V)
        BY <2>5
      <3>2. o = "query" => ReadsOn(ps, qs, w)
        BY <2>8
      <3> QED
        BY <2>1, <2>2, <2>9, <3>1, <3>2, AnswerNamed
    <2> QED
      BY <1>1, <2>10 DEF qs
  <1>2. CASE ~HeadIs(ps, "simple")
    <2>1. SameNames(ps, ClearActive(ps)) /\ RejectionEpoch(ps) # None
      BY NamesUntouched, ClearedFacts
    <2>2. Head(w).tag \in Judged
      BY DEF Judged
    <2>3. Named(ClearActive(ps), Tail(w), RejectionEpoch(ps), b, o, T, V)
      BY <2>1, <2>2, RejectNamed
    <2> QED
      BY <1>2, <2>3
  <1> QED
    BY <1>1, <1>2

\* The plan that handle_row_description makes of a description.
MadeFrom(ps, rd, plan) ==
    plan.fields = rd.fields /\ plan.text = DescribedSql(ps) /\ plan.format = rd.format

\* The description of a result that is planned.
LEMMA DescribedNamed ==
  ASSUME NEW ps \in State, NEW w \in Seq(Reply), w # << >>, NEW b,
         NEW o \in {"none", "exchange", "query"}, NEW n, NEW g, NEW refusals, NEW T, NEW V,
         Sound(ps, w, None, b, o, n, g, refusals), Named(ps, w, None, b, o, T, V),
         Head(w).tag = "RowDescription", ps.pending_descriptions # << >>,
         NEW plan \in Plan, MadeFrom(ps, Head(w), plan)
  PROVE  Named(FinishDescription(ps, plan), Tail(w), None, b, o, T, V)
  <1> DEFINE qs == FinishDescription(ps, plan)
  <1>1. qs \in State
    BY FinishDescriptionTyped
  <1>2. Agreed(ps, b, T, V)
    BY DEF Named
  <1>3. plan.text = Head(ps.pending_descriptions).sql
    BY DEF MadeFrom, DescribedSql
  <1>4. \A t \in Requests : Head(w).tag \in Answering(t) <=> t = "Describe"
    BY DEF Answering, Requests
  <1>5. 1 \in DOMAIN w /\ w[1] = Head(w)
    BY CountOfTail
  <1>6. ps.pending_descriptions \in Seq(PendingDescribe \cup PendingSimple)
    BY FieldsTyped
  <1>7. CASE o # "query"
    <2>1. PICK e : Underway(ps, w, None, e, refusals)
      BY <1>7, InExchange
    <2>2. HeadIs(ps, "describe")
      BY <2>1, DescribeIsNext DEF Answering
    <2>3. Upto(w, Answering("Describe"), 1) = 1
      <3> DEFINE tags == Answering("Describe")
      <3>1. w[1].tag \in tags
        BY <1>5 DEF Answering
      <3> HIDE DEF tags
      <3>2. Upto(w, tags, 1) = Upto(w, tags, 0) + (IF w[1].tag \in tags THEN 1 ELSE 0)
        BY UptoGrows
      <3>3. Upto(w, tags, 0) = 0
        BY UptoGrows
      <3>4. Upto(w, tags, 1) = 1
        BY <3>1, <3>2, <3>3
      <3> QED
        BY <3>4 DEF tags
    <2>4. Explains(ps, w, T, V)
      BY <1>7 DEF Named
    <2>5. Describes(ps.pending_descriptions[1], w[1], T, V)
      BY <1>5, <2>3, <2>4 DEF Explains
    <2>6. Planned(plan, Head(ps.pending_descriptions), Head(w), T, V)
      BY <1>3, <1>5, <1>6, <2>5 DEF Planned, MadeFrom
    <2>7. /\ Agreed(qs, b, T, V) /\ Learns(ps, qs, V)
          /\ qs.pending_descriptions = Tail(ps.pending_descriptions)
      BY <1>2, <2>2, <2>6, FinishDescriptionLearns
    <2> HIDE DEF qs
    <2>8. /\ qs.pending_parses = ps.pending_parses
          /\ qs.portal_bind_generations = ps.portal_bind_generations
          /\ \A k \in DOMAIN ps.pending_executes :
                 Refilled(ps.pending_executes[k], qs.pending_executes[k],
                          ps.portal_bind_generations, V)
          /\ Recalls(ps, qs)
      BY <2>7 DEF Learns, Recalls
    <2>9. Takes(ps, qs, "Describe", V)
      BY <2>7, <2>8, SlotsAre DEF Popped, Takes, PopFront
    <2>10. Named(qs, Tail(w), None, b, o, T, V)
      <3>1. o # "query" => Takes(ps, qs, "Describe", V)
        BY <2>9
      <3>2. o = "query" => ReadsOn(ps, qs, w)
        BY <1>7
      <3> QED
        BY <1>1, <1>4, <2>7, <2>8, <3>1, <3>2, AnswerNamed
    <2> QED
      BY <2>10 DEF qs
  <1>8. CASE o = "query"
    <2>1. Querying(ps, w, None) /\ Reading(ps, w)
      BY <1>8 DEF Sound, Named
    <2>2. HeadIs(ps, "simple") /\ Tail(ps.pending_descriptions) = << >>
      BY <2>1, QueryIsNext
    <2>3. qs.pending_descriptions = << >> /\ qs.active_plan = plan /\ SameNames(ps, qs)
      BY <2>2 DEF FinishDescription, State, HeadIs, SameNames
    <2>4. ps.pending_descriptions[1].sql \in {None, w[1].text}
      BY <1>5, <2>1 DEF Reading
    <2>5. Judges(plan, Head(w))
      BY <1>3, <1>5, <1>6, <2>4 DEF Judges, MadeFrom
    <2> HIDE DEF qs
    <2>6. ReadsOn(ps, qs, w)
      BY <2>3, <2>5 DEF ReadsOn
    <2>7. Agreed(qs, b, T, V) /\ Recalls(ps, qs)
      BY <1>2, <2>3, SameNamesAgree
    <2>8. Named(qs, Tail(w), None, b, o, T, V)
      <3>1. o # "query" => Takes(ps, qs, "Describe", V)
        BY <1>8
      <3>2. o = "query" => ReadsOn(ps, qs, w)
        BY <2>6
      <3> QED
        BY <1>1, <1>4, <2>7, <3>1, <3>2, AnswerNamed
    <2> QED
      BY <2>8 DEF qs
  <1> QED
    BY <1>7, <1>8

\* The description of a result that is refused, or of none that was asked for.
LEMMA RefusedNamed ==
  ASSUME NEW ps \in State, NEW mid, mid \in {ps, DiscardDescription(ps)},
         NEW w \in Seq(Reply), w # << >>, NEW b, NEW o, NEW T, NEW V,
         Named(ps, w, None, b, o, T, V), Head(w).tag = "RowDescription"
  PROVE  Named(ClearActive(mid), Tail(w), RejectionEpoch(mid), b, o, T, V)
  <1>1. mid \in State /\ SameNames(ps, mid)
    BY DiscardDescriptionTyped, NamesUntouched
  <1>2. SameNames(mid, ClearActive(mid)) /\ RejectionEpoch(mid) # None
    BY <1>1, NamesUntouched, ClearedFacts
  <1>3. SameNames(ps, ClearActive(mid))
    BY <1>1, <1>2 DEF SameNames
  <1>4. Head(w).tag \in Judged
    BY DEF Judged
  <1> QED
    BY <1>2, <1>3, <1>4, RejectNamed

\* Nothing is to be explained when only the end of an exchange is on the way.
LEMMA NothingToExplain ==
  ASSUME NEW ps \in State, NEW w \in Seq(Reply), NEW T, NEW V,
         \A i \in DOMAIN w : w[i].tag = "ReadyForQuery"
  PROVE  Explains(ps, w, T, V)
  <1>1. ~Has(w, {"ParseComplete"})
    BY DEF Has
  <1>2. Count(w, {"ParseComplete"}) = 0
    BY <1>1, CountIsZero
  <1>3. Len(ps.pending_parses) \in Nat
    BY FieldsTyped
  <1> QED
    BY <1>2, <1>3 DEF Explains

\* An ErrorResponse ends the exchange, or the query: the texts the backend may not have taken
\* are forgotten.
LEMMA ErrorNamed ==
  ASSUME NEW ps \in State, NEW w \in Seq(Reply), w # << >>, NEW b \in BackendState,
         NEW o \in {"none", "exchange", "query"}, NEW n, NEW g, NEW refusals, NEW T, NEW V,
         Sound(ps, w, None, b, o, n, g, refusals), Named(ps, w, None, b, o, T, V),
         Head(w).tag = "ErrorResponse"
  PROVE  Named(DiscardFailedEpoch(ps), Tail(w), None, b, o, T, V)
  <1> DEFINE qs == DiscardFailedEpoch(ps)
  <1>1. qs \in State
    BY DiscardFailedEpochTyped
  <1>2. Forgets(ps, qs) /\ Recalls(ps, qs)
    BY DiscardForgets
  <1>3. PICK e \in Nat : OneEpoch(ps, e)
    BY SoundIsOneEpoch
  <1>4. \A k \in DOMAIN ps.pending_parses : qs.statement_sql[ps.pending_parses[k].name] = None
    BY <1>3, DiscardDropsParses
  <1>5. NoSlots(qs)
    BY <1>3, DiscardFailedCleans DEF Cleaned
  <1> HIDE DEF qs
  <1>6. Agreed(qs, b, T, V)
    <2>1. Drops(b, b)
      BY DropsByFields
    <2> QED
      BY <1>2, <2>1, AgreedForgets DEF Named
  <1>7. Plainly(qs, T)
    <2>1. SUFFICES ASSUME NEW x \in Statements PROVE qs.statement_sql[x] \in {None, T[x]}
      BY DEF Plainly
    <2>2. CASE ps.statement_sql[x] \in {None, T[x]}
      BY <1>2, <2>2 DEF Recalls
    <2>3. CASE Unanswered(ps, w, x)
      BY <1>4, <2>3 DEF Unanswered
    <2> QED
      BY <2>2, <2>3 DEF Named, Known
  <1>8. Known(qs, Tail(w), None, T)
    BY <1>7 DEF Plainly, Known
  <1>9. ASSUME o # "query" PROVE Explains(qs, Tail(w), T, V)
    <2>1. PICK f : Underway(ps, w, None, f, refusals)
      BY <1>9, InExchange
    <2>2. LastBeforeReady(w, {"ErrorResponse"}) /\ Head(w).tag \in {"ErrorResponse"}
      BY <2>1 DEF Underway, Exchanging
    <2>3. \A i \in DOMAIN Tail(w) : Tail(w)[i].tag = "ReadyForQuery"
      BY <2>2, TailKeeps
    <2>4. Tail(w) \in Seq(Reply)
      OBVIOUS
    <2> QED
      BY <1>1, <2>3, <2>4, NothingToExplain
  <1>10. ASSUME o = "query" PROVE Reading(qs, Tail(w))
    <2>1. qs.pending_descriptions = << >>
      BY <1>5, SlotsAre DEF NoSlots, Requests
    <2>2. Reading(ps, w)
      BY <1>10 DEF Named
    <2> QED
      BY <2>1, <2>2, ReadingTail
  <1>11. Named(qs, Tail(w), None, b, o, T, V)
    BY <1>6, <1>8, <1>9, <1>10 DEF Named
  <1> QED
    BY <1>11 DEF qs

\* The end of what is under way.
LEMMA ReadyNamed ==
  ASSUME NEW ps \in State, NEW qs \in State, NEW w \in Seq(Reply), w # << >>, NEW s,
         NEW b \in BackendState, NEW o \in {"none", "exchange", "query"}, NEW n, NEW g \in Nat,
         NEW refusals, NEW T, NEW V, Sound(ps, w, s, b, o, n, g, refusals),
         Named(ps, w, s, b, o, T, V), Head(w).tag = "ReadyForQuery", Closes(ps, qs, s)
  PROVE  Named(qs, Tail(w), None, b, "none", T, V)
  <1>1. SameNames(ps, qs)
    BY NamesUntouched DEF Closes
  <1>2. Agreed(qs, b, T, V) /\ Recalls(ps, qs)
    BY <1>1, SameNamesAgree DEF Named
  <1>3. Tail(w) = << >>
    BY TailKeeps DEF Sound
  <1>4. NoSlots(qs)
    <2>1. Sound(qs, Tail(w), None, b, "none", 0, g, refusals)
      BY ReadySound
    <2> QED
      BY <2>1 DEF Sound, Resting
  <1>5. Plainly(ps, T)
    <2>1. CASE s # None
      BY <2>1, KnownPlainly DEF Named
    <2>2. CASE s = None
      <3>1. PICK status : qs = ReadyForQuery(ps, status)
        BY <2>2 DEF Closes
      <3>2. qs = ps
        BY <3>1 DEF ReadyForQuery, Sound
      <3>3. ps.pending_parses = << >>
        BY <1>4, <3>2, SlotsAre DEF NoSlots, Requests
      <3>4. \A k \in DOMAIN ps.pending_parses : ~(k > Count(w, {"ParseComplete"}))
        BY <3>3
      <3>5. Known(ps, w, s, T)
        BY DEF Named
      <3> QED
        BY <3>4, <3>5, KnownPlainly
    <2> QED
      BY <2>1, <2>2
  <1>6. Known(qs, Tail(w), None, T)
    BY <1>2, <1>5, PlainlyKnown
  <1>7. Explains(qs, Tail(w), T, V)
    <2> DEFINE x == Tail(w)
    <2>1. x = << >> /\ x \in Seq(Reply)
      BY <1>3
    <2> HIDE DEF x
    <2>2. Explains(qs, x, T, V)
      <3>1. \A i \in DOMAIN x : x[i].tag = "ReadyForQuery"
        BY <2>1
      <3> QED
        BY <2>1, <3>1, NothingToExplain
    <2> QED
      BY <2>2 DEF x
  <1> QED
    BY <1>2, <1>6, <1>7 DEF Named

\* sync_policy only forgets plans.
LEMMA RefreshedNamed ==
  ASSUME NEW ps \in State, NEW g \in Nat, NEW qs, qs = InvalidateIfStale(ps, g),
         NEW w, NEW s, NEW b, NEW o, NEW T, NEW V, Named(ps, w, s, b, o, T, V)
  PROVE  Named(qs, w, s, b, o, T, V)
  <1>1. /\ Forgets(ps, qs) /\ qs.statement_sql = ps.statement_sql
        /\ qs.portal_statement = ps.portal_statement
        /\ qs.pending_parses = ps.pending_parses
    BY InvalidateForgets
  <1>2. /\ qs.active_plan = ps.active_plan
        /\ qs.pending_executes = ps.pending_executes
        /\ qs.pending_descriptions = ps.pending_descriptions
        /\ qs.portal_bind_generations = ps.portal_bind_generations
    BY InvalidateRefreshes DEF Refreshes
  <1>3. Agreed(qs, b, T, V)
    <2>1. Drops(b, b)
      BY DropsByFields
    <2> QED
      BY <1>1, <2>1, AgreedForgets DEF Named
  <1>4. Known(qs, w, s, T)
    BY <1>1 DEF Named, Known, Unanswered
  <1>5. Explains(ps, w, T, V) => Explains(qs, w, T, V)
    BY <1>1, <1>2 DEF Explains
  <1>6. Reading(ps, w) => Reading(qs, w)
    BY <1>2 DEF Reading
  <1> QED
    BY <1>3, <1>4, <1>5, <1>6 DEF Named

\* A row is judged by a plan of the very result it belongs to, or by none.
LEMMA RowIsOwn ==
  ASSUME NEW ps \in State, NEW w \in Seq(Reply), w # << >>, NEW b,
         NEW o \in {"none", "exchange", "query"}, NEW n, NEW g, NEW refusals, NEW T, NEW V,
         Sound(ps, w, None, b, o, n, g, refusals), Named(ps, w, None, b, o, T, V),
         Head(w).tag = "DataRow"
  PROVE  Judges(StreamingPlan(ps), Head(w))
  <1>1. CASE o # "query"
    <2>1. PICK e : Underway(ps, w, None, e, refusals)
      BY <1>1, InExchange
    <2>2. Owned(ps, w) /\ ps.streaming_simple_result = FALSE
      BY <1>1, <2>1 DEF Underway, Sound
    <2>3. Agreed(ps, b, T, V) /\ Explains(ps, w, T, V)
      BY <1>1 DEF Named
    <2> QED
      BY <2>2, <2>3, RowIsJudged
  <1>2. CASE o = "query"
    <2>1. Querying(ps, w, None) /\ ps.suspended = FALSE /\ Reading(ps, w)
      BY <1>2 DEF Sound, Named
    <2>2. ps.pending_executes = << >>
      BY <2>1, SlotsAre DEF Querying, Requests
    <2>3. StreamingPlan(ps) = ps.active_plan
      BY <2>1, <2>2 DEF StreamingPlan
    <2>4. 1 \in DOMAIN w /\ w[1] = Head(w)
      BY CountOfTail
    <2>5. Judges(ps.active_plan, w[1])
      BY <2>1, <2>4 DEF Reading
    <2> QED
      BY <2>3, <2>4, <2>5
  <1> QED
    BY <1>1, <1>2

\* Nothing is given to the client, or no row is.
LEMMA NoRow ==
  ASSUME delivered' = None
  PROVE  RowsJudgedByOwnPlan' /\ RowsDecodedInBoundFormat'
  BY DEF RowsJudgedByOwnPlan, RowsDecodedInBoundFormat, Row

\* What is to be shown of a step: what the names stand for, and what is delivered.
LEMMA StepNamed ==
  ASSUME NEW T \in [Statements -> Sqls], NEW V \in [Portals -> Binding],
         Named(plans', wire', suppressing', db', open', T, V),
         RowsJudgedByOwnPlan', RowsDecodedInBoundFormat'
  PROVE  NameInv'
  BY DEF NameInv

\* Each kind of backend message.
LEMMA BackendNamed ==
  ASSUME IInv, SlotInv, NameInv, HandleBackend
  PROVE  NameInv'
  <1> DEFINE r == PlanRefuses[scenario]
             S(ps) == Sound(ps, wire, None, db, open, owed, generation, r)
             Arm(tag) == Reads(tag) /\ tag # "ReadyForQuery"
  <1>1. /\ wire \in Seq(Reply) /\ generation \in Nat /\ open \in {"none", "exchange", "query"}
        /\ plans \in State /\ db \in BackendState
        /\ Sound(plans, wire, suppressing, db, open, owed, generation, r)
    BY DEF IInv, TypeOK, SlotInv
  <1>2. IInv'
    BY BackendGood
  <1>3. PICK T \in [Statements -> Sqls], V \in [Portals -> Binding] :
            Named(plans, wire, suppressing, db, open, T, V)
    BY DEF NameInv
  <1> DEFINE N(ps) == Named(ps, wire, None, db, open, T, V)
             After(qs, s) == Named(qs, Tail(wire), s, db, open, T, V)
  <1>4. ASSUME NEW tag, Arm(tag)
        PROVE  /\ wire # << >> /\ Head(wire).tag = tag /\ suppressing = None
               /\ wire' = Tail(wire) /\ UNCHANGED << db, open >>
               /\ S(plans) /\ N(plans)
    <2>1. /\ wire # << >> /\ Head(wire).tag = tag /\ suppressing = None
          /\ wire' = Tail(wire) /\ UNCHANGED << db, open >>
      BY <1>4 DEF Reads
    <2> QED
      BY <1>1, <1>3, <2>1
  <1>5. ASSUME NEW tag, Arm(tag), NEW qs, Relays(qs), After(qs, None)
        PROVE  NameInv'
    <2>1. /\ plans' = qs /\ suppressing' = None /\ delivered' = None
      BY <1>4, <1>5 DEF Relays
    <2>2. Named(plans', wire', suppressing', db', open', T, V)
      BY <1>4, <1>5, <2>1
    <2> QED
      BY <2>1, <2>2, NoRow, StepNamed
  <1>6. ASSUME NEW tag, Arm(tag), NEW mid, Reject(mid),
               After(ClearActive(mid), RejectionEpoch(mid))
        PROVE  NameInv'
    <2>1. plans' = ClearActive(mid) /\ suppressing' = RejectionEpoch(mid) /\ delivered' = None
      BY <1>6 DEF Reject
    <2>2. Named(plans', wire', suppressing', db', open', T, V)
      BY <1>4, <1>6, <2>1
    <2> QED
      BY <2>1, <2>2, NoRow, StepNamed
  <1>7. CASE Suppressed
    <2>1. /\ suppressing # None /\ wire' = Tail(wire) /\ delivered' = None
          /\ UNCHANGED << plans, suppressing, db, open >>
      BY <1>7 DEF Suppressed
    <2>2. Named(plans, Tail(wire), suppressing, db, open, T, V)
      BY <1>3, <2>1, SwallowedNamed
    <2>3. Named(plans', wire', suppressing', db', open', T, V)
      BY <2>1, <2>2
    <2> QED
      BY <2>1, <2>3, NoRow, StepNamed
  <1>8. CASE BackendReady
    <2> DEFINE status == Head(wire).status
               qs == plans'
    <2>1. /\ wire # << >> /\ Head(wire).tag = "ReadyForQuery" /\ wire' = Tail(wire)
          /\ suppressing' = None /\ delivered' = None
          /\ qs = IF suppressing # None THEN FinishSuppressedEpoch(plans, suppressing)
                  ELSE ReadyForQuery(plans, status)
          /\ open' = IF open = "query" /\ owed = 1 THEN "none" ELSE open
          /\ UNCHANGED db
      BY <1>8 DEF BackendReady
    <2>2. qs \in State
      BY <1>2 DEF IInv, TypeOK
    <2> HIDE DEF qs, status
    <2>3. Closes(plans, qs, suppressing)
      BY <2>1 DEF Closes
    <2>4. /\ owed = 1 /\ open # "exchange"
          /\ Sound(qs, Tail(wire), None, db, "none", 0, generation, r)
      <3>1. Head(wire).tag = "ReadyForQuery" /\ wire # << >>
        BY <2>1
      <3> HIDE DEF r, S, Arm, N, After
      <3> QED
        BY <1>1, <2>2, <2>3, <3>1, ReadySound
    <2>5. Named(qs, Tail(wire), None, db, "none", T, V)
      <3> HIDE DEF r
      <3> QED
        BY <1>1, <1>3, <2>1, <2>2, <2>3, ReadyNamed
    <2>6. open' = "none"
      BY <1>1, <2>1, <2>4
    <2>7. Named(plans', wire', suppressing', db', open', T, V)
      BY <2>1, <2>5, <2>6 DEF qs
    <2> QED
      BY <2>1, <2>7, NoRow, StepNamed
  <1>9. CASE BackendParseComplete
    <2>1. Arm("ParseComplete") /\ Relays(FinishParse(plans))
      BY <1>9 DEF BackendParseComplete
    <2>2. After(FinishParse(plans), None)
      BY <1>1, <1>4, <2>1, CompleteNamed
    <2> QED
      BY <1>5, <2>1, <2>2
  <1>10. CASE BackendBindComplete
    <2>1. Arm("BindComplete") /\ Relays(FinishBind(plans))
      BY <1>10 DEF BackendBindComplete
    <2>2. After(FinishBind(plans), None)
      BY <1>1, <1>4, <2>1, CompleteNamed
    <2> QED
      BY <1>5, <2>1, <2>2
  <1>11. CASE BackendCloseComplete
    <2>1. Arm("CloseComplete") /\ Relays(plans)
      BY <1>11 DEF BackendCloseComplete
    <2>2. After(plans, None)
      BY <1>1, <1>4, <2>1, CompleteNamed
    <2> QED
      BY <1>5, <2>1, <2>2
  <1>12. CASE BackendCommandComplete
    <2>1. Arm("CommandComplete") /\ Relays(FinishResultSet(plans))
      BY <1>12 DEF BackendCommandComplete
    <2>2. After(FinishResultSet(plans), None)
      BY <1>1, <1>4, <2>1, CommandNamed
    <2> QED
      BY <1>5, <2>1, <2>2
  <1>13. CASE BackendErrorResponse
    <2>1. Arm("ErrorResponse") /\ Relays(DiscardFailedEpoch(plans))
      BY <1>13 DEF BackendErrorResponse
    <2>2. After(DiscardFailedEpoch(plans), None)
      BY <1>1, <1>4, <2>1, ErrorNamed
    <2> QED
      BY <1>5, <2>1, <2>2
  <1>14. CASE BackendNoData
    <2>1. /\ Arm("NoData")
          /\ IF HeadIs(plans, "describe") THEN Relays(FinishNoData(plans)) ELSE Reject(plans)
      BY <1>14 DEF BackendNoData
    <2>2. IF HeadIs(plans, "describe")
          THEN After(FinishNoData(plans), None)
          ELSE After(ClearActive(plans), RejectionEpoch(plans))
      BY <1>1, <1>4, <2>1, NoDataNamed
    <2> HIDE DEF Arm, After
    <2> QED
      BY <1>5, <1>6, <2>1, <2>2
  <1>15. CASE BackendEmptyQueryResponse
    <2>1. /\ Arm("EmptyQueryResponse")
          /\ IF HeadIs(plans, "simple") THEN Relays(FinishEmptyQuery(plans)) ELSE Reject(plans)
      BY <1>15 DEF BackendEmptyQueryResponse
    <2>2. IF HeadIs(plans, "simple")
          THEN After(FinishEmptyQuery(plans), None)
          ELSE After(ClearActive(plans), RejectionEpoch(plans))
      BY <1>1, <1>4, <2>1, EmptyNamed
    <2> HIDE DEF Arm, After
    <2> QED
      BY <1>5, <1>6, <2>1, <2>2
  <1>16. CASE BackendPortalSuspended
    <2>1. wire # << >> /\ Head(wire).tag = "PortalSuspended"
      BY <1>16 DEF BackendPortalSuspended, Reads
    <2>2. Has(wire, {"PortalSuspended"})
      BY <1>1, <2>1, CountOfTail
    <2> QED
      BY <1>1, <2>2 DEF Sound
  <1>17. CASE BackendDataRow
    <2> DEFINE row == Head(wire)
               plan == StreamingPlan(plans)
    <2>1. /\ Arm("DataRow")
          /\ \/ Reject(plans)
             \/ /\ plan # None /\ delivered' = [row |-> row, plan |-> plan]
                /\ UNCHANGED << plans, suppressing >>
      BY <1>17 DEF BackendDataRow
    <2>2. wire # << >> /\ row.tag = "DataRow" /\ S(plans) /\ N(plans) /\ suppressing = None
          /\ wire' = Tail(wire) /\ UNCHANGED << db, open >>
      BY <1>4, <2>1
    <2>3. CASE Reject(plans)
      <3>1. row.tag \in Judged /\ RejectionEpoch(plans) # None
            /\ SameNames(plans, ClearActive(plans))
        BY <1>1, <2>2, NamesUntouched, ClearedFacts DEF Judged
      <3>2. After(ClearActive(plans), RejectionEpoch(plans))
        BY <1>1, <2>2, <3>1, RejectNamed
      <3> QED
        BY <1>6, <2>1, <2>3, <3>2
    <2>4. CASE plan # None /\ delivered' = [row |-> row, plan |-> plan]
               /\ UNCHANGED << plans, suppressing >>
      <3>1. Judges(plan, row)
        BY <1>1, <2>2, RowIsOwn
      <3>2. RowsJudgedByOwnPlan' /\ RowsDecodedInBoundFormat'
        BY <2>4, <3>1 DEF RowsJudgedByOwnPlan, RowsDecodedInBoundFormat, Judges
      <3>3. After(plans, None)
        BY <1>1, <2>2, CompleteNamed
      <3>4. Named(plans', wire', suppressing', db', open', T, V)
        BY <2>2, <2>4, <3>3
      <3> QED
        BY <3>2, <3>4, StepNamed
    <2> QED
      BY <2>1, <2>3, <2>4
  <1>18. CASE BackendRowDescription
    <2> DEFINE ps == Synced
               plan == PlanFor(ps, Head(wire))
    <2>1. /\ Arm("RowDescription")
          /\ \/ Reject(DiscardDescription(ps))
             \/ Reject(ps)
             \/ /\ plans.pending_descriptions # << >>
                /\ Relays(FinishDescription(ps, plan))
      BY <1>18 DEF BackendRowDescription
    <2>2. wire # << >> /\ Head(wire).tag = "RowDescription" /\ N(plans) /\ suppressing = None
      BY <1>4, <2>1
    <2>3. ps \in State
      BY SyncedGood DEF Good
    <2>4. Refreshes(plans, ps, generation)
      BY <1>1, InvalidateRefreshes DEF Synced
    <2>5. ps.pending_descriptions = plans.pending_descriptions
      BY <2>4 DEF Refreshes
    <2>6. N(ps)
      BY <1>1, <2>2, RefreshedNamed DEF Synced
    <2>7. plan \in Plan /\ MadeFrom(ps, Head(wire), plan)
      <3>1. Head(wire) \in Reply
        BY <1>1, <2>2
      <3>2. Head(wire).fields \in Sqls /\ Head(wire).format \in Formats
        BY <2>2, <3>1 DEF Reply, PlainTags
      <3>3. DescribedSql(ps) \in Option(Sqls)
        BY <2>3, DescribedSqlTyped
      <3> QED
        BY <1>1, <3>2, <3>3 DEF PlanFor, Plan, MadeFrom
    <2> HIDE DEF ps, plan
    <2>8. S(ps)
      <3>1. Sound(ps, wire, suppressing, db, open, owed, generation, r)
        BY <1>1, <2>2, <2>3, <2>4, RefreshSound
      <3> QED
        BY <2>2, <3>1
    <2>9. ASSUME NEW mid, mid \in {ps, DiscardDescription(ps)}, Reject(mid)
          PROVE  NameInv'
      <3>1. After(ClearActive(mid), RejectionEpoch(mid))
        BY <1>1, <2>2, <2>3, <2>6, <2>9, RefusedNamed
      <3> QED
        BY <1>6, <2>1, <2>9, <3>1
    <2>10. CASE plans.pending_descriptions # << >> /\ Relays(FinishDescription(ps, plan))
      <3>1. After(FinishDescription(ps, plan), None)
        BY <1>1, <2>2, <2>3, <2>5, <2>6, <2>7, <2>8, <2>10, DescribedNamed
      <3> QED
        BY <1>5, <2>1, <2>10, <3>1
    <2> QED
      BY <2>1, <2>9, <2>10
  <1> QED
    BY <1>7, <1>8, <1>9, <1>10, <1>11, <1>12, <1>13, <1>14, <1>15, <1>16, <1>17, <1>18
    DEF HandleBackend

-----------------------------------------------------------------------------
(* The client's messages.                                                  *)

\* What the client keeps to.
LEMMA OrderlyKeeps ==
  ASSUME IInv, Orderly, NEW m \in Menu[scenario], ClientMay(m)
  PROVE  /\ m.tag = "Parse" => /\ BoundTo(plans, m.name) = {} /\ m.sql \in Decodable
                               /\ plans.pending_descriptions = << >>
                               /\ plans.pending_executes = << >>
         /\ m.tag = "Bind" => Settled([kind |-> "portal", name |-> m.portal])
  <1>1. Keeps("settled_names", m)
    BY DEF ClientMay, Orderly
  <1>2. m.tag = "Parse" => m.sql \in Decodable /\ Keeps("parses_first", m)
    BY DEF ClientMay, Orderly
  <1>3. m.tag = "Parse" => BoundTo(plans, m.name) = {}
    BY <1>1 DEF Keeps
  <1>4. m.tag = "Bind" => Settled([kind |-> "portal", name |-> m.portal])
    BY <1>1 DEF Keeps
  <1>5. m.tag = "Parse" => /\ m.sql \in Decodable
                           /\ plans.pending_descriptions = << >>
                           /\ plans.pending_executes = << >>
    BY <1>2 DEF Keeps
  <1> QED
    BY <1>3, <1>4, <1>5

\* The exchange has failed and the error is on the way.
Failed(w) == Has(w, {"ErrorResponse"})

\* A message m joins the exchange on the wire w and the backend brings it to w2.
Joins(ps, w, d, w2, b, b2, m, T, V) ==
    /\ \E e, refusals : Exchanging(ps, w, None, e, refusals)
    /\ Owned(ps, w)
    /\ Agreed(ps, b, T, V) /\ Known(ps, w, None, T) /\ Explains(ps, w, T, V)
    /\ b.skipping <=> Failed(w)
    /\ Brings(d, m.tag) /\ w2 = IF Failed(w) THEN w ELSE w \o d
    /\ b2 = Serve(b, m).db
    /\ Failed(w2) => b2.skipping
    /\ ~b.skipping => DatedAnswer(d, Serve(b, m).replies)

\* What is to be shown of a message that joins an exchange.
LEMMA JoinNamed ==
  ASSUME NEW ps \in State, NEW qs \in State, NEW w \in Seq(Reply), NEW d \in Seq(Reply), NEW w2,
         NEW b, NEW b2, NEW m, NEW T, NEW V, NEW T2, NEW V2,
         Joins(ps, w, d, w2, b, b2, m, T, V),
         Agreed(qs, b2, T2, V2), Known(qs, w2, None, T2),
         Len(qs.pending_parses) = IF m.tag = "Parse" THEN Len(ps.pending_parses) + 1
                                  ELSE Len(ps.pending_parses),
         Retells(ps, qs, T, V, T2, V2), ~Failed(w) => Tallies(ps, qs, d, T2, V2)
  PROVE  Named(qs, w2, None, b2, "exchange", T2, V2)
  <1>1. PICK e, refusals : Exchanging(ps, w, None, e, refusals)
    BY DEF Joins
  <1>2. Explains(qs, w2, T2, V2)
    BY <1>1, ExplainsGrows DEF Joins, Failed
  <1> QED
    BY <1>2 DEF Named

\* A message that parses nothing leaves the texts as they are.
LEMMA JoinKnown ==
  ASSUME NEW ps \in State, NEW qs \in State, NEW w \in Seq(Reply), NEW d, NEW w2,
         NEW b, NEW b2, NEW m, NEW T, NEW V, Joins(ps, w, d, w2, b, b2, m, T, V),
         Recalls(ps, qs), qs.pending_parses = ps.pending_parses
  PROVE  Known(qs, w2, None, T)
  <1>1. PICK e, refusals : Exchanging(ps, w, None, e, refusals)
    BY DEF Joins
  <1> QED
    BY <1>1, KnownGrows DEF Joins, Failed

\* Nothing is described or given but to a Describe and an Execute.
LEMMA NothingToTally ==
  ASSUME NEW ps, NEW qs, NEW d, NEW tag, Brings(d, tag), tag \notin {"Describe", "Execute"},
         NEW T, NEW V
  PROVE  Tallies(ps, qs, d, T, V)
  <1>1. ~Has(d, {"RowDescription"}) /\ ~Has(d, {"DataRow", "EmptyQueryResponse"})
    BY DEF Brings
  <1> QED
    BY <1>1 DEF Has, Tallies

\* The same slots, about the same.
LEMMA SameRetells ==
  ASSUME NEW ps, NEW qs, NEW T, NEW V,
         \A k \in DOMAIN ps.pending_descriptions :
             qs.pending_descriptions[k] = ps.pending_descriptions[k],
         \A k \in DOMAIN ps.pending_executes :
             qs.pending_executes[k] = ps.pending_executes[k],
         qs.portal_bind_generations = ps.portal_bind_generations
  PROVE  Retells(ps, qs, T, V, T, V)
  BY DEF Retells

\* A Close joins an exchange.
LEMMA CloseNamed ==
  ASSUME NEW ps \in State, NEW qs \in State, NEW w \in Seq(Reply), NEW d \in Seq(Reply), NEW w2,
         NEW b \in BackendState, NEW b2, NEW m \in Message, NEW T, NEW V,
         Joins(ps, w, d, w2, b, b2, m, T, V), m.tag = "Close", qs = Close(ps, m.target)
  PROVE  Named(qs, w2, None, b2, "exchange", T, V)
  <1>1. Forgets(ps, qs) /\ Recalls(ps, qs)
    BY CloseForgets
  <1>2. /\ qs.pending_parses = ps.pending_parses
        /\ qs.pending_descriptions = ps.pending_descriptions
        /\ qs.pending_executes = ps.pending_executes
        /\ qs.portal_bind_generations = ps.portal_bind_generations
    BY DEF Close, State
  <1>3. Drops(b, b2)
    BY ServeDrops DEF Joins
  <1>4. Agreed(qs, b2, T, V)
    BY <1>1, <1>3, AgreedForgets DEF Joins
  <1>5. Known(qs, w2, None, T)
    BY <1>1, <1>2, JoinKnown
  <1>6. Retells(ps, qs, T, V, T, V)
    BY <1>2, SameRetells
  <1>7. Tallies(ps, qs, d, T, V)
    BY NothingToTally DEF Joins
  <1>8. Len(qs.pending_parses) = IF m.tag = "Parse" THEN Len(ps.pending_parses) + 1
                                 ELSE Len(ps.pending_parses)
    BY <1>2
  <1> QED
    BY <1>4, <1>5, <1>6, <1>7, <1>8, JoinNamed

\* While an exchange has not failed the session has every text right.
LEMMA JoinPlainly ==
  ASSUME NEW ps \in State, NEW w \in Seq(Reply), NEW d, NEW w2, NEW b, NEW b2, NEW m, NEW T,
         NEW V, Joins(ps, w, d, w2, b, b2, m, T, V), ~Failed(w)
  PROVE  Plainly(ps, T)
  <1>1. PICK e, refusals : Exchanging(ps, w, None, e, refusals)
    BY DEF Joins
  <1>2. \A k \in DOMAIN ps.pending_parses : ~(k > Count(w, {"ParseComplete"}))
    BY <1>1, ParsesAnswered DEF Failed
  <1>3. Known(ps, w, None, T)
    BY DEF Joins
  <1> QED
    BY <1>2, <1>3, KnownPlainly

\* A Describe joins an exchange, and its slot records what is described.
LEMMA DescribeNamed ==
  ASSUME NEW ps \in State, NEW qs \in State, NEW w \in Seq(Reply), NEW d \in Seq(Reply), NEW w2,
         NEW b \in BackendState, NEW b2, NEW m \in Message, NEW T, NEW V,
         Joins(ps, w, d, w2, b, b2, m, T, V), m.tag = "Describe", qs = Describe(ps, m.target)
  PROVE  Named(qs, w2, None, b2, "exchange", T, V)
  <1> DEFINE target == m.target
             text == IF target.kind = "statement" THEN ps.statement_sql[target.name]
                     ELSE SqlForPortal(ps, target.name)
             slot == [kind |-> "describe", target |-> target, sql |-> text,
                      epoch |-> ps.sync_epoch]
  <1>1. SameNames(ps, qs)
    BY NamesUntouched
  <1>2. /\ qs.pending_parses = ps.pending_parses
        /\ qs.pending_descriptions = Append(ps.pending_descriptions, slot)
        /\ qs.pending_executes = ps.pending_executes
        /\ qs.portal_bind_generations = ps.portal_bind_generations
    BY DEF Describe, State
  <1>3. slot.target = target /\ slot.sql = text
    OBVIOUS
  <1>4. target \in Target
    BY DEF Message
  <1> HIDE DEF slot
  <1>5. ps.pending_descriptions \in Seq(PendingDescribe \cup PendingSimple)
    BY FieldsTyped
  <1>6. /\ \A k \in DOMAIN ps.pending_descriptions :
               qs.pending_descriptions[k] = ps.pending_descriptions[k]
        /\ qs.pending_descriptions[Len(ps.pending_descriptions) + 1] = slot
    BY <1>2, <1>5
  <1>7. Forgets(ps, qs) /\ Recalls(ps, qs)
    BY <1>1, SameForgets
  <1>8. Drops(b, b2)
    BY ServeDrops DEF Joins
  <1>9. Agreed(qs, b2, T, V)
    BY <1>7, <1>8, AgreedForgets DEF Joins
  <1>10. Known(qs, w2, None, T)
    BY <1>2, <1>7, JoinKnown
  <1>11. Retells(ps, qs, T, V, T, V)
    BY <1>2, <1>6, SameRetells
  <1>12. ASSUME ~Failed(w) PROVE Tallies(ps, qs, d, T, V)
    <2> DEFINE r == Serve(b, m).replies
    <2>1. ~b.skipping /\ DatedAnswer(d, r) /\ Brings(d, m.tag) /\ Agreed(ps, b, T, V)
      BY <1>12 DEF Joins
    <2>2. Plainly(ps, T)
      BY <1>12, JoinPlainly
    <2>3. \A i \in DOMAIN d : d[i].tag # "DataRow"
      BY <2>1 DEF Brings, Has
    <2>4. ASSUME NEW i \in DOMAIN d, d[i].tag = "RowDescription"
          PROVE  Describes(slot, d[i], T, V)
      <3>1. /\ i \in DOMAIN r /\ r[i].tag = "RowDescription"
            /\ d[i].fields = r[i].fields /\ d[i].text = r[i].text /\ d[i].format = r[i].format
        BY <2>1, <2>4 DEF DatedAnswer
      <3>2. IF target.kind = "statement"
            THEN /\ b.statements[target.name] # None
                 /\ Shows(r[i], b.statements[target.name], "text")
            ELSE /\ b.portals[target.name] # None
                 /\ Shows(r[i], b.portals[target.name].sql, b.portals[target.name].format)
        BY <2>1, <3>1, DescribeShows
      <3>3. CASE target.kind = "statement"
        <4>1. target.name \in Statements
          BY <1>4, <3>3 DEF Target
        <4>2. b.statements[target.name] = T[target.name] /\ text \in {None, T[target.name]}
          BY <2>1, <2>2, <3>2, <3>3, <4>1 DEF Agreed, Plainly
        <4> QED
          BY <1>3, <3>1, <3>2, <3>3, <4>2 DEF Describes, Shows
      <3>4. CASE target.kind # "statement"
        <4>1. target.name \in Portals
          BY <1>4, <3>4 DEF Target
        <4>2. /\ b.portals[target.name].sql = V[target.name].sql
              /\ b.portals[target.name].format = V[target.name].format
              /\ V \in [Portals -> Binding]
          BY <2>1, <3>2, <3>4, <4>1 DEF Agreed
        <4>3. V[target.name] = [sql |-> V[target.name].sql, format |-> V[target.name].format]
          BY <4>1, <4>2 DEF Binding
        <4>4. text \in {None, V[target.name].sql}
          <5> DEFINE s == ps.portal_statement[target.name]
          <5>1. s = None => text = None
            BY <3>4 DEF SqlForPortal
          <5>2. s # None => text = ps.statement_sql[s]
            BY <3>4 DEF SqlForPortal
          <5>3. s # None => V[target.name].sql = T[s]
            BY <2>1, <4>1 DEF Agreed
          <5>4. s \in Option(Statements)
            BY <4>1, FieldsTyped
          <5> HIDE DEF s, text
          <5>5. s # None => ps.statement_sql[s] \in {None, T[s]}
            BY <2>2, <5>4 DEF Plainly, Option
          <5> QED
            BY <5>1, <5>2, <5>3, <5>5
        <4>5. BindingOf(d[i]) = V[target.name]
          BY <3>1, <3>2, <3>4, <4>2, <4>3 DEF BindingOf, Shows
        <4> QED
          BY <1>3, <3>1, <3>2, <3>4, <4>2, <4>4, <4>5 DEF Describes, Shows
      <3> QED
        BY <3>3, <3>4
    <2> QED
      BY <1>6, <2>3, <2>4 DEF Tallies
  <1>13. Len(qs.pending_parses) = IF m.tag = "Parse" THEN Len(ps.pending_parses) + 1
                                  ELSE Len(ps.pending_parses)
    BY <1>2
  <1> QED
    BY <1>9, <1>10, <1>11, <1>12, <1>13, JoinNamed

\* From ps to qs an Execute of the portal is queued, with the plan its portal has.
Enqueues(ps, qs, portal) ==
    /\ qs.pending_parses = ps.pending_parses
    /\ qs.pending_descriptions = ps.pending_descriptions
    /\ qs.portal_bind_generations = ps.portal_bind_generations
    /\ \A k \in DOMAIN ps.pending_executes :
           qs.pending_executes[k] = ps.pending_executes[k]
    /\ LET slot == qs.pending_executes[Len(ps.pending_executes) + 1]
       IN  /\ slot.name = portal /\ slot.plan = ps.portal_plans[portal]
           /\ slot.bind_generation = ps.portal_bind_generations[portal]

\* execute does so, unless it resumes the Execute in front.
LEMMA ExecuteEnqueues ==
  ASSUME NEW ps \in State, NEW portal \in Portals, ~IsResume(ps, portal), ps.suspended = FALSE,
         NEW qs, qs = Execute(ps, portal)
  PROVE  Enqueues(ps, qs, portal)
  <1> DEFINE slot == [name |-> portal, epoch |-> ps.sync_epoch,
                      order |-> ps.next_result_order, plan |-> ps.portal_plans[portal],
                      bind_generation |-> ps.portal_bind_generations[portal]]
             active == [ps EXCEPT !.active_plan = ps.portal_plans[portal],
                                  !.active_epoch = ps.sync_epoch,
                                  !.active_portal = portal,
                                  !.suspended = FALSE]
  <1>1. qs = QueueExecute(active, portal)
    BY DEF Execute
  <1>2. /\ active.pending_parses = ps.pending_parses
        /\ active.pending_descriptions = ps.pending_descriptions
        /\ active.portal_bind_generations = ps.portal_bind_generations
        /\ active.pending_executes = ps.pending_executes
        /\ active.portal_plans = ps.portal_plans
        /\ active.sync_epoch = ps.sync_epoch
        /\ active.next_result_order = ps.next_result_order
    BY DEF State
  <1>3. /\ qs.pending_parses = active.pending_parses
        /\ qs.pending_descriptions = active.pending_descriptions
        /\ qs.portal_bind_generations = active.portal_bind_generations
        /\ qs.pending_executes =
               Append(active.pending_executes,
                      [name |-> portal, epoch |-> active.sync_epoch,
                       order |-> active.next_result_order,
                       plan |-> active.portal_plans[portal],
                       bind_generation |-> active.portal_bind_generations[portal]])
    BY <1>1 DEF QueueExecute, State
  <1> HIDE DEF active
  <1>4. qs.pending_executes = Append(ps.pending_executes, slot)
    BY <1>2, <1>3
  <1>5. /\ slot.name = portal /\ slot.plan = ps.portal_plans[portal]
        /\ slot.bind_generation = ps.portal_bind_generations[portal]
    OBVIOUS
  <1>6. ps.pending_executes \in Seq(PendingExecute)
    BY FieldsTyped
  <1> HIDE DEF slot
  <1>7. /\ \A k \in DOMAIN ps.pending_executes :
               qs.pending_executes[k] = ps.pending_executes[k]
        /\ qs.pending_executes[Len(ps.pending_executes) + 1] = slot
    BY <1>4, <1>6
  <1> QED
    BY <1>2, <1>3, <1>5, <1>7 DEF Enqueues

\* An Execute joins an exchange, and its slot records what is executed.
LEMMA ExecuteNamed ==
  ASSUME NEW ps \in State, NEW qs \in State, NEW w \in Seq(Reply), NEW d \in Seq(Reply), NEW w2,
         NEW b \in BackendState, NEW b2, NEW m \in Message, NEW T, NEW V,
         Joins(ps, w, d, w2, b, b2, m, T, V), m.tag = "Execute",
         ~IsResume(ps, m.portal), ps.suspended = FALSE, qs = Execute(ps, m.portal)
  PROVE  Named(qs, w2, None, b2, "exchange", T, V)
  <1> DEFINE portal == m.portal
  <1>1. SameNames(ps, qs)
    BY NamesUntouched
  <1>2. portal \in Portals
    BY DEF Message
  <1>3. Enqueues(ps, qs, portal)
    BY <1>2, ExecuteEnqueues
  <1>4. Forgets(ps, qs) /\ Recalls(ps, qs)
    BY <1>1, SameForgets
  <1>5. Drops(b, b2)
    BY ServeDrops DEF Joins
  <1>6. Agreed(qs, b2, T, V)
    BY <1>4, <1>5, AgreedForgets DEF Joins
  <1>7. Known(qs, w2, None, T)
    BY <1>3, <1>4, JoinKnown DEF Enqueues
  <1>8. Retells(ps, qs, T, V, T, V)
    BY <1>3, SameRetells DEF Enqueues
  <1>9. ASSUME ~Failed(w) PROVE Tallies(ps, qs, d, T, V)
    <2> DEFINE r == Serve(b, m).replies
               slot == qs.pending_executes[Len(ps.pending_executes) + 1]
    <2>1. ~b.skipping /\ DatedAnswer(d, r) /\ Brings(d, m.tag) /\ Agreed(ps, b, T, V)
      BY <1>9 DEF Joins
    <2>2. \A i \in DOMAIN d : d[i].tag # "RowDescription"
      BY <2>1 DEF Brings, Has
    <2>3. /\ slot.name = portal /\ slot.plan = ps.portal_plans[portal]
          /\ slot.bind_generation = ps.portal_bind_generations[portal]
          /\ qs.portal_bind_generations = ps.portal_bind_generations
      BY <1>3 DEF Enqueues
    <2> HIDE DEF slot
    <2>4. ASSUME NEW i \in DOMAIN d, d[i].tag = "DataRow"
          PROVE  Belongs(slot, d[i], qs.portal_bind_generations, V)
      <3>1. /\ i \in DOMAIN r /\ r[i].tag = "DataRow"
            /\ d[i].fields = r[i].fields /\ d[i].text = r[i].text /\ d[i].format = r[i].format
        BY <2>1, <2>4 DEF DatedAnswer
      <3>2. /\ b.portals[portal] # None
            /\ Shows(r[i], b.portals[portal].sql, b.portals[portal].format)
        BY <2>1, <3>1, ExecuteShows
      <3>3. /\ b.portals[portal].sql = V[portal].sql
            /\ b.portals[portal].format = V[portal].format
            /\ V \in [Portals -> Binding]
            /\ Fits(ps.portal_plans[portal], V[portal])
        BY <1>2, <2>1, <3>2 DEF Agreed
      <3>4. V[portal] = [sql |-> V[portal].sql, format |-> V[portal].format]
        BY <1>2, <3>3 DEF Binding
      <3>5. BindingOf(d[i]) = V[portal]
        BY <3>1, <3>2, <3>3, <3>4 DEF BindingOf, Shows
      <3>6. d[i].fields = Head(Results[d[i].text])
        BY <3>1, <3>2 DEF Shows
      <3> HIDE DEF portal
      <3> QED
        BY <2>3, <3>3, <3>5, <3>6 DEF Belongs
    <2> QED
      BY <2>2, <2>4 DEF Tallies, slot
  <1>10. Len(qs.pending_parses) = IF m.tag = "Parse" THEN Len(ps.pending_parses) + 1
                                  ELSE Len(ps.pending_parses)
    BY <1>3 DEF Enqueues
  <1> QED
    BY <1>6, <1>7, <1>8, <1>9, <1>10, JoinNamed

\* A Bind joins an exchange: no Describe of its portal name is queued, and no Execute of it is
\* of the new binding.
LEMMA BindNamed ==
  ASSUME NEW ps \in State, NEW qs \in State, NEW w \in Seq(Reply), NEW d \in Seq(Reply), NEW w2,
         NEW b \in BackendState, NEW b2, NEW m \in Message, NEW T, NEW V,
         Joins(ps, w, d, w2, b, b2, m, T, V), m.tag = "Bind",
         qs = Bind(ps, m.portal, m.statement, m.formats),
         \A k \in DOMAIN ps.pending_descriptions :
             ps.pending_descriptions[k].target # [kind |-> "portal", name |-> m.portal]
  PROVE  \E V2 \in [Portals -> Binding] : Named(qs, w2, None, b2, "exchange", T, V2)
  <1> DEFINE portal == m.portal
             statement == m.statement
             formats == m.formats
             V2 == Rebound(V, portal, T[statement], formats)
  <1>1. portal \in Portals /\ statement \in Statements /\ formats \in Formats
    BY DEF Message
  <1>2. Rebinds(ps, qs, portal, statement, formats)
    BY <1>1, BindFacts
  <1>3. Agreed(ps, b, T, V)
    BY DEF Joins
  <1>4. \/ Drops(b, b2) /\ \A p \in Portals : b2.portals[p] = None
        \/ /\ b2.statements = b.statements /\ ~b2.skipping
           /\ b.statements[statement] # None
           /\ \A p \in Portals \ {portal} : b2.portals[p] = b.portals[p]
           /\ b2.portals[portal].sql = b.statements[statement]
           /\ b2.portals[portal].format = formats
    <2> DEFINE a == Serve(b, m)
    <2>1. a.db = b2
      BY DEF Joins
    <2> HIDE DEF a
    <2>2. \/ b.skipping /\ a.db = b
          \/ Drops(b, a.db) /\ \A p \in Portals : a.db.portals[p] = None
          \/ /\ a.db.statements = b.statements /\ ~a.db.skipping
             /\ b.statements[statement] # None
             /\ \A p \in Portals \ {portal} : a.db.portals[p] = b.portals[p]
             /\ a.db.portals[portal].sql = b.statements[statement]
             /\ a.db.portals[portal].format = formats
      BY BindServed DEF a
    <2>3. CASE b.skipping /\ a.db = b
      <3>1. \A p \in Portals : b.portals[p] = None
        BY <1>3, <2>3 DEF Agreed
      <3>2. Drops(b, b)
        BY DropsByFields
      <3> QED
        BY <2>1, <2>3, <3>1, <3>2
    <2> QED
      BY <2>1, <2>2, <2>3
  <1> HIDE DEF V2, portal, statement, formats
  <1>5. Agreed(qs, b2, T, V2)
    BY <1>1, <1>2, <1>3, <1>4, BindAgrees DEF V2
  <1>6. Known(qs, w2, None, T)
    <2>1. Recalls(ps, qs) /\ qs.pending_parses = ps.pending_parses
      BY <1>2 DEF Rebinds, Recalls
    <2> QED
      BY <2>1, JoinKnown
  <1>7. V \in [Portals -> Binding] /\ \A p \in Portals \ {portal} : V2[p] = V[p]
    BY <1>1, <1>3 DEF Agreed, V2, Rebound
  <1>8. Retells(ps, qs, T, V, T, V2)
    <2>1. ASSUME NEW k \in DOMAIN ps.pending_descriptions, NEW rd,
                 Describes(ps.pending_descriptions[k], rd, T, V)
          PROVE  Describes(qs.pending_descriptions[k], rd, T, V2)
      <3> DEFINE slot == ps.pending_descriptions[k]
      <3>1. slot.kind = "describe" /\ slot \in PendingDescribe \cup PendingSimple
        <4>1. PICK e, refusals : Exchanging(ps, w, None, e, refusals)
          BY DEF Joins
        <4> QED
          BY <4>1, FieldsTyped DEF Exchanging, OfEpoch
      <3>2. slot.target \in Target /\ slot.target # [kind |-> "portal", name |-> portal]
        BY <3>1 DEF PendingDescribe, PendingSimple, portal
      <3>3. qs.pending_descriptions[k] = slot
        BY <1>2 DEF Rebinds
      <3> HIDE DEF slot
      <3>4. Describes(slot, rd, T, V)
        BY <2>1 DEF slot
      <3>5. slot.target.kind # "statement" => slot.target.name \in Portals \ {portal}
        BY <3>2 DEF Target
      <3>6. Describes(slot, rd, T, V2)
        BY <1>7, <3>4, <3>5 DEF Describes
      <3> QED
        BY <3>3, <3>6
    <2>2. ASSUME NEW k \in DOMAIN ps.pending_executes, NEW row,
                 Belongs(ps.pending_executes[k], row, ps.portal_bind_generations, V)
          PROVE  Belongs(qs.pending_executes[k], row, qs.portal_bind_generations, V2)
      <3> DEFINE slot == ps.pending_executes[k]
      <3>1. slot.name \in Portals
        <4>1. slot \in PendingExecute
          BY FieldsTyped
        <4> QED
          BY <4>1 DEF PendingExecute
      <3>2. qs.pending_executes[k] = slot
        BY <1>2 DEF Rebinds
      <3>3. slot.name = portal => slot.bind_generation # qs.portal_bind_generations[portal]
        BY <1>2 DEF Rebinds, HeldGenerations
      <3> HIDE DEF slot
      <3>4. Belongs(slot, row, ps.portal_bind_generations, V)
        BY <2>2 DEF slot
      <3>5. slot.name # portal =>
                /\ V2[slot.name] = V[slot.name]
                /\ qs.portal_bind_generations[slot.name] = ps.portal_bind_generations[slot.name]
        BY <1>2, <1>7, <3>1 DEF Rebinds
      <3>6. Belongs(slot, row, qs.portal_bind_generations, V2)
        BY <3>3, <3>4, <3>5 DEF Belongs
      <3> QED
        BY <3>2, <3>6
    <2> QED
      BY <2>1, <2>2 DEF Retells
  <1>9. Tallies(ps, qs, d, T, V2)
    BY NothingToTally DEF Joins
  <1>10. Len(qs.pending_parses) = IF m.tag = "Parse" THEN Len(ps.pending_parses) + 1
                                  ELSE Len(ps.pending_parses)
    BY <1>2 DEF Rebinds
  <1>11. Named(qs, w2, None, b2, "exchange", T, V2)
    BY <1>5, <1>6, <1>8, <1>9, <1>10, JoinNamed
  <1> QED
    BY <1>5, <1>11 DEF Agreed

\* A Parse joins an exchange in which nothing is described or executed yet.
LEMMA ParseNamed ==
  ASSUME NEW ps \in State, NEW qs \in State, NEW w \in Seq(Reply), NEW d \in Seq(Reply), NEW w2,
         NEW b \in BackendState, NEW b2, NEW m \in Message, NEW T, NEW V,
         Joins(ps, w, d, w2, b, b2, m, T, V), m.tag = "Parse",
         qs = ParseStatement(ps, m.name, m.sql), BoundTo(ps, m.name) = {},
         ps.pending_descriptions = << >>, ps.pending_executes = << >>
  PROVE  \E T2 \in [Statements -> Sqls] : Named(qs, w2, None, b2, "exchange", T2, V)
  <1> DEFINE name == m.name
             sql == m.sql
  <1>1. name \in Statements /\ sql \in Sqls
    BY DEF Message
  <1>2. Reparses(ps, qs, name, sql)
    BY <1>1, ParseFacts
  <1>3. /\ Agreed(ps, b, T, V) /\ T \in [Statements -> Sqls]
        /\ Known(ps, w, None, T) /\ Owned(ps, w) /\ Brings(d, "Parse")
        /\ w2 = IF Has(w, {"ErrorResponse"}) THEN w ELSE w \o d
        /\ Count(w, {"ParseComplete"}) <= Len(ps.pending_parses)
    BY DEF Joins, Agreed, Explains, Failed
  <1>4. PICK e, refusals : Exchanging(ps, w, None, e, refusals)
    BY DEF Joins
  <1>5. /\ ~Has(w, {"ErrorResponse"}) =>
               /\ ps.statement_sql[name] \in {None, T[name]}
               /\ Known(qs, w2, None, [T EXCEPT ![name] = sql])
        /\ Has(w2, {"ErrorResponse"}) => Known(qs, w2, None, T)
    BY <1>1, <1>2, <1>3, <1>4, KnownParsed
  <1>6. \A T2, V2 : Retells(ps, qs, T, V, T2, V2)
    BY DEF Retells
  <1>7. \A T2 : Tallies(ps, qs, d, T2, V)
    BY NothingToTally DEF Joins
  <1>8. Len(qs.pending_parses) = IF m.tag = "Parse" THEN Len(ps.pending_parses) + 1
                                 ELSE Len(ps.pending_parses)
    BY <1>2, FieldsTyped DEF Reparses
  <1> DEFINE a == Serve(b, m)
  <1>9. a.db = b2
    BY DEF Joins
  <1>10. \/ Drops(b, a.db) /\ (b.skipping \/ Fails(a.replies))
         \/ /\ ~b.skipping /\ ~a.db.skipping
            /\ a.db.statements = [b.statements EXCEPT ![name] = sql]
            /\ a.db.portals = b.portals
            /\ Len(a.replies) = 1 /\ a.replies[1].tag = "ParseComplete"
    BY ParseServed
  <1>11. CASE Drops(b, a.db) /\ (b.skipping \/ Fails(a.replies))
    <2>1. Has(w2, {"ErrorResponse"})
      <3>1. CASE Has(w, {"ErrorResponse"})
        BY <1>3, <3>1
      <3>2. CASE ~Has(w, {"ErrorResponse"})
        <4>1. ~b.skipping
          BY <3>2 DEF Joins, Failed
        <4>2. DatedAnswer(d, a.replies) /\ Fails(a.replies)
          BY <1>11, <4>1 DEF Joins
        <4>3. Has(d, {"ErrorResponse"})
          BY <4>2 DEF DatedAnswer, Fails, Has
        <4> QED
          BY <1>3, <3>2, <4>3, UptoOfAppended
      <3> QED
        BY <3>1, <3>2
    <2>2. Agreed(qs, b2, T, V)
      BY <1>2, <1>3, <1>9, <1>11, AgreedForgets DEF Reparses
    <2>3. Known(qs, w2, None, T)
      BY <1>5, <2>1
    <2>4. Named(qs, w2, None, b2, "exchange", T, V)
      BY <1>6, <1>7, <1>8, <2>2, <2>3, JoinNamed
    <2> QED
      BY <1>3, <2>4
  <1>12. CASE /\ ~b.skipping /\ ~a.db.skipping
              /\ a.db.statements = [b.statements EXCEPT ![name] = sql]
              /\ a.db.portals = b.portals
    <2> DEFINE T2 == [T EXCEPT ![name] = sql]
    <2>1. ~Has(w, {"ErrorResponse"})
      BY <1>12 DEF Joins, Failed
    <2>2. Known(qs, w2, None, T2) /\ ps.statement_sql[name] \in {None, T[name]}
      BY <1>5, <2>1
    <2>3. Agreed(qs, b2, T2, V)
      BY <1>1, <1>3, <1>9, <1>12, <2>2, ParseAgrees
    <2>4. T2 \in [Statements -> Sqls]
      BY <1>1, <1>3
    <2> HIDE DEF T2
    <2>5. Named(qs, w2, None, b2, "exchange", T2, V)
      BY <1>6, <1>7, <1>8, <2>2, <2>3, JoinNamed
    <2> QED
      BY <2>4, <2>5
  <1> QED
    BY <1>10, <1>11, <1>12

\* A Sync asks for the end of what is under way, or of nothing.
LEMMA SyncNamed ==
  ASSUME NEW ps \in State, NEW qs, qs = Sync(ps), NEW w \in Seq(Reply), NEW s,
         NEW b \in BackendState, NEW b2, NEW T, NEW V, Named(ps, w, s, b, "exchange", T, V),
         Drops(b, b2), NEW r \in Reply, r.tag = "ReadyForQuery"
  PROVE  Named(qs, w \o << r >>, s, b2, "none", T, V)
  <1> DEFINE w2 == w \o << r >>
  <1>1. SameNames(ps, qs)
    BY NamesUntouched
  <1>2. /\ qs.pending_parses = ps.pending_parses
        /\ qs.pending_descriptions = ps.pending_descriptions
        /\ qs.pending_executes = ps.pending_executes
        /\ qs.portal_bind_generations = ps.portal_bind_generations
    BY DEF Sync, State
  <1>3. Forgets(ps, qs) /\ Recalls(ps, qs)
    BY <1>1, SameForgets
  <1>4. Agreed(qs, b2, T, V)
    BY <1>3, AgreedForgets DEF Named
  <1>5. \A tags : "ReadyForQuery" \notin tags =>
            /\ Count(w2, tags) = Count(w, tags) /\ (Has(w2, tags) <=> Has(w, tags))
            /\ \A n \in 0 .. Len(w) : Upto(w2, tags, n) = Upto(w, tags, n)
    <2>1. SUFFICES ASSUME NEW tags, "ReadyForQuery" \notin tags
                   PROVE  /\ Count(w2, tags) = Count(w, tags) /\ (Has(w2, tags) <=> Has(w, tags))
                          /\ \A n \in 0 .. Len(w) : Upto(w2, tags, n) = Upto(w, tags, n)
      OBVIOUS
    <2> DEFINE d == << r >>
    <2>2. d \in Seq(Reply)
      OBVIOUS
    <2>3. Count(d, tags) = 0 /\ ~Has(d, tags)
      BY <2>1, CountOfFew
    <2> HIDE DEF d
    <2>4. /\ \A n \in 0 .. Len(w) : Upto(w \o d, tags, n) = Upto(w, tags, n)
          /\ Count(w \o d, tags) = Count(w, tags) + Count(d, tags)
          /\ Has(w \o d, tags) <=> Has(w, tags) \/ Has(d, tags)
      BY <2>2, UptoOfAppended
    <2>5. Count(w, tags) \in Nat
      BY CountIsZero
    <2> QED
      BY <2>3, <2>4, <2>5 DEF d
  <1>6. \A i \in DOMAIN w2 : w2[i].tag # "ReadyForQuery" =>
            i \in DOMAIN w /\ w2[i] = w[i] /\ i \in 0 .. Len(w)
    OBVIOUS
  <1> HIDE DEF w2
  <1>7. Known(qs, w2, s, T)
    <2>1. /\ Count(w2, {"ParseComplete"}) = Count(w, {"ParseComplete"})
          /\ Has(w2, Judged) <=> Has(w, Judged)
      BY <1>5 DEF Judged
    <2>2. qs.statement_sql = ps.statement_sql
      BY <1>1 DEF SameNames
    <2> QED
      BY <1>2, <2>1, <2>2 DEF Named, Known, Unanswered
  <1>8. ASSUME s = None PROVE Explains(qs, w2, T, V)
    <2>1. Explains(ps, w, T, V)
      BY <1>8 DEF Named
    <2>2. Count(w2, {"ParseComplete"}) <= Len(qs.pending_parses)
      BY <1>2, <1>5, <2>1 DEF Explains
    <2>3. ASSUME NEW i \in DOMAIN w2, w2[i].tag = "RowDescription"
          PROVE  Describes(qs.pending_descriptions[Upto(w2, Answering("Describe"), i)], w2[i],
                           T, V)
      <3>1. i \in DOMAIN w /\ w2[i] = w[i] /\ i \in 0 .. Len(w)
        BY <1>6, <2>3
      <3>2. Upto(w2, Answering("Describe"), i) = Upto(w, Answering("Describe"), i)
        BY <1>5, <3>1 DEF Answering
      <3> QED
        BY <1>2, <2>1, <2>3, <3>1, <3>2 DEF Explains
    <2>4. ASSUME NEW i \in DOMAIN w2, w2[i].tag = "DataRow"
          PROVE  Belongs(qs.pending_executes[Upto(w2, Answering("Execute"), i) + 1], w2[i],
                         qs.portal_bind_generations, V)
      <3>1. i \in DOMAIN w /\ w2[i] = w[i] /\ i \in 0 .. Len(w)
        BY <1>6, <2>4
      <3>2. Upto(w2, Answering("Execute"), i) = Upto(w, Answering("Execute"), i)
        BY <1>5, <3>1 DEF Answering
      <3> QED
        BY <1>2, <2>1, <2>4, <3>1, <3>2 DEF Explains
    <2> QED
      BY <2>2, <2>3, <2>4 DEF Explains
  <1>9. Named(qs, w2, s, b2, "none", T, V)
    BY <1>4, <1>7, <1>8 DEF Named
  <1> QED
    BY <1>9 DEF w2

\* A Query starts when nothing is outstanding.
LEMMA QueryNamed ==
  ASSUME NEW ps \in State, NEW sql, NEW qs, qs = BeginSimpleQuery(ps, sql), NEW w, NEW s,
         NEW d \in Seq(Reply), NEW b \in BackendState, NEW m \in Message, m.tag = "Query",
         ~b.skipping, NEW b2, b2 = Serve(b, m).db, NEW o, NEW T, NEW V,
         Named(ps, w, s, b, o, T, V), NoSlots(ps), sql \in {None, m.sql},
         DatedAnswer(d, Serve(b, m).replies)
  PROVE  Named(qs, d, None, b2, "query", T, V)
  <1> DEFINE slot == [kind |-> "simple", sql |-> sql,
                      epoch |-> ps.sync_epoch, order |-> ps.next_result_order]
  <1>1. SameNames(ps, qs)
    BY NamesUntouched
  <1>2. Forgets(ps, qs) /\ Recalls(ps, qs)
    BY <1>1, SameForgets
  <1>3. Drops(b, b2)
    BY ServeDrops
  <1>4. Agreed(qs, b2, T, V)
    BY <1>2, <1>3, AgreedForgets DEF Named
  <1>5. ps.pending_parses = << >> /\ ps.pending_descriptions = << >>
    BY SlotsAre DEF NoSlots, Requests
  <1>6. Plainly(ps, T)
    BY <1>5, KnownPlainly DEF Named
  <1>7. Known(qs, d, None, T)
    BY <1>2, <1>6, PlainlyKnown
  <1>8. qs.pending_descriptions = Append(ps.pending_descriptions, slot) /\ slot.sql = sql
    BY DEF BeginSimpleQuery, ClearActive, State
  <1> HIDE DEF slot
  <1>9. Len(qs.pending_descriptions) = 1 /\ qs.pending_descriptions[1].sql \in {None, m.sql}
    BY <1>5, <1>8
  <1>10. Reading(qs, d)
    BY <1>9, QueryFollows, DatedFollows, FollowsReading
  <1> QED
    BY <1>4, <1>7, <1>10 DEF Named


\* A message that is answered by the proxy itself.
LEMMA RefusalNamed ==
  ASSUME IInv, Patient, SlotInv, NameInv, NEW m \in Menu[scenario], ClientMay(m), Refuse(m),
         Sends(m, 0), m.tag # "Sync"
  PROVE  NameInv'
  <1>1. owed = 0 /\ open # "query"
    BY PatientKeeps
  <1>2. PICK T \in [Statements -> Sqls], V \in [Portals -> Binding] :
            Named(plans, wire, suppressing, db, open, T, V)
    BY DEF NameInv
  <1>3. /\ plans' = Synced /\ open' \in {"none", "exchange"}
        /\ UNCHANGED << suppressing, db, wire >>
    BY DEF Refuse, Sends
  <1>4. plans \in State /\ generation \in Nat
    BY DEF IInv, TypeOK
  <1>5. Named(Synced, wire, suppressing, db, open, T, V)
    BY <1>2, <1>4, RefreshedNamed DEF Synced
  <1>6. Named(Synced, wire, suppressing, db, open', T, V)
    BY <1>1, <1>3, <1>5 DEF Named
  <1>7. Named(plans', wire', suppressing', db', open', T, V)
    BY <1>3, <1>6
  <1>8. RowsJudgedByOwnPlan' /\ RowsDecodedInBoundFormat'
    BY DEF Refuse, RowsJudgedByOwnPlan, RowsDecodedInBoundFormat, Row
  <1> QED
    BY <1>7, <1>8, StepNamed

\* A message of the extended protocol that is forwarded joins the exchange.
LEMMA ForwardJoins ==
  ASSUME IInv, Patient, SlotInv, NEW T, NEW V,
         Named(plans, wire, suppressing, db, open, T, V), NEW m \in Menu[scenario],
         ClientMay(m), Sends(m, 0), m.tag \notin {"Query", "Sync"}, NEW qs, Forward(m, qs)
  PROVE  /\ plans' = qs /\ suppressing' = None /\ delivered' = None /\ open' = "exchange"
         /\ wire \in Seq(Reply) /\ db \in BackendState /\ m \in Message
         /\ Synced \in State /\ Synced.suspended = FALSE
         /\ Synced.pending_executes = plans.pending_executes
         /\ Synced.pending_descriptions = plans.pending_descriptions
         /\ \E d \in Seq(Reply) : Joins(Synced, wire, d, wire', db, db', m, T, V)
  <1> DEFINE ps == Synced
             err == {"ErrorResponse"}
  <1>1. /\ m \in Message /\ owed = 0 /\ open # "query" /\ ~ErrorSeen
        /\ m.tag = "Execute" => ~m.limited
    BY PatientKeeps
  <1>2. /\ ps \in State /\ ps.suspended = FALSE
        /\ Underway(ps, wire, suppressing, ps.sync_epoch, PlanRefuses[scenario])
        /\ ps.pending_executes = plans.pending_executes
        /\ ps.pending_descriptions = plans.pending_descriptions
        /\ open = "none" => Resting(plans, wire, suppressing, db)
    BY <1>1, SyncedSound
  <1>3. /\ suppressing = None /\ wire \in Seq(Reply) /\ generation \in Nat /\ plans \in State
        /\ open \in {"none", "exchange", "query"} /\ db \in BackendState
    BY <1>1 DEF ErrorSeen, IInv, TypeOK
  <1>4. Sound(plans, wire, None, db, open, 0, generation, PlanRefuses[scenario])
    BY <1>1, <1>3 DEF SlotInv
  <1>5. db.skipping <=> Has(wire, err)
    <2>1. db.skipping => Has(wire, err)
      BY <1>1 DEF ErrorSeen, Has
    <2>2. open = "exchange" /\ Has(wire, err) => db.skipping
      BY <1>4 DEF Sound
    <2>3. open = "none" => ~Has(wire, err)
      BY <1>2 DEF Resting, Has
    <2> QED
      BY <1>1, <1>3, <2>1, <2>2, <2>3
  <1>6. PICK d \in Seq(Reply) :
            /\ Brings(d, m.tag)
            /\ wire' = IF Has(wire, err) THEN wire ELSE wire \o d
            /\ Has(wire', err) => db'.skipping
            /\ ~db.skipping => DatedAnswer(d, Serve(db, m).replies)
    BY <1>1, <1>5, ForwardBrings
  <1>7. /\ plans' = qs /\ suppressing' = None /\ delivered' = None /\ open' = "exchange"
        /\ db' = Serve(db, m).db
    BY <1>3 DEF Forward, Sends
  <1>8. Named(ps, wire, suppressing, db, open, T, V)
    BY <1>3, RefreshedNamed DEF Synced
  <1> HIDE DEF ps
  <1>9. Agreed(ps, db, T, V) /\ Known(ps, wire, None, T) /\ Explains(ps, wire, T, V)
    BY <1>1, <1>3, <1>8 DEF Named
  <1>10. Exchanging(ps, wire, None, ps.sync_epoch, PlanRefuses[scenario]) /\ Owned(ps, wire)
    BY <1>2, <1>3 DEF Underway
  <1>11. Joins(ps, wire, d, wire', db, db', m, T, V)
    BY <1>5, <1>6, <1>7, <1>9, <1>10 DEF Joins, Failed
  <1> QED
    BY <1>1, <1>2, <1>3, <1>7, <1>11 DEF ps

\* A Sync is forwarded.
LEMMA SyncedNamed ==
  ASSUME IInv, Patient, SlotInv, NameInv, NEW m \in Menu[scenario], ClientMay(m), Sends(m, 1),
         m.tag = "Sync", Forward(m, Sync(Synced))
  PROVE  NameInv'
  <1> DEFINE ps == Synced
             qs == Sync(ps)
  <1>1. m \in Message /\ owed = 0 /\ open # "query"
    BY PatientKeeps
  <1>2. PICK T \in [Statements -> Sqls], V \in [Portals -> Binding] :
            Named(plans, wire, suppressing, db, open, T, V)
    BY DEF NameInv
  <1>3. /\ plans \in State /\ generation \in Nat /\ wire \in Seq(Reply) /\ db \in BackendState
        /\ ps \in State
    BY <1>1, SyncedSound DEF IInv, TypeOK
  <1>4. Named(ps, wire, suppressing, db, open, T, V)
    BY <1>2, <1>3, RefreshedNamed DEF Synced
  <1>5. Named(ps, wire, suppressing, db, "exchange", T, V)
    BY <1>1, <1>4 DEF Named
  <1>6. PICK d \in Seq(Reply) : wire' = wire \o d /\ DatedAnswer(d, Serve(db, m).replies)
    BY <1>1, ForwardAppends
  <1>7. d[1] \in Reply /\ d[1].tag = "ReadyForQuery" /\ d = << d[1] >>
    <2>1. Serve(db, m).replies = << Ready(db.txn) >>
      BY DEF Serve, ServeSync, Answer
    <2>2. Len(d) = 1 /\ d[1].tag = Ready(db.txn).tag
      BY <1>6, <2>1 DEF DatedAnswer
    <2>3. d[1] \in Reply
      <3>1. 1 \in 1 .. Len(d)
        BY <2>2
      <3> QED
        BY <3>1, ElementOfSeq
    <2>4. d[1].tag = "ReadyForQuery"
      BY <2>2 DEF Ready
    <2>5. d = << d[1] >>
      BY <2>2
    <2> QED
      BY <2>3, <2>4, <2>5
  <1>8. Drops(db, db')
    BY <1>1, <1>3, ServeDrops DEF Forward
  <1>9. /\ plans' = qs /\ suppressing' = suppressing /\ delivered' = None /\ open' = "none"
    BY DEF Forward, Sends
  <1> DEFINE x == d[1]
  <1>10. x \in Reply /\ x.tag = "ReadyForQuery" /\ wire' = wire \o << x >>
    BY <1>6, <1>7
  <1> HIDE DEF ps, x
  <1>11. Named(qs, wire \o << x >>, suppressing, db', "none", T, V)
    <2> DEFINE q == qs
    <2>1. q = Sync(ps)
      OBVIOUS
    <2> HIDE DEF q
    <2>2. Named(q, wire \o << x >>, suppressing, db', "none", T, V)
      BY <1>3, <1>5, <1>8, <1>10, <2>1, SyncNamed
    <2> QED
      BY <2>2 DEF q
  <1>12. Named(plans', wire', suppressing', db', open', T, V)
    BY <1>9, <1>10, <1>11
  <1> QED
    BY <1>9, <1>12, NoRow, StepNamed

\* A Query is forwarded.
LEMMA QueriedNamed ==
  ASSUME IInv, Patient, SlotInv, NameInv, NEW m \in Menu[scenario], ClientMay(m), Sends(m, 1),
         m.tag = "Query", NEW sql, sql \in {None, m.sql}, Forward(m, BeginSimpleQuery(Synced, sql))
  PROVE  NameInv'
  <1> DEFINE ps == Synced
             qs == BeginSimpleQuery(ps, sql)
  <1>1. m \in Message /\ owed = 0 /\ open = "none" /\ open # "query"
    BY PatientKeeps
  <1>2. PICK T \in [Statements -> Sqls], V \in [Portals -> Binding] :
            Named(plans, wire, suppressing, db, open, T, V)
    BY DEF NameInv
  <1>3. ps \in State /\ Resting(plans, wire, suppressing, db) /\ NoSlots(ps)
    BY <1>1, SyncedSound
  <1>4. /\ wire = << >> /\ wire \in Seq(Reply) /\ suppressing = None /\ ~db.skipping
        /\ db \in BackendState /\ generation \in Nat /\ plans \in State
    BY <1>3 DEF Resting, IInv, TypeOK
  <1>5. Named(ps, wire, suppressing, db, open, T, V)
    BY <1>2, <1>4, RefreshedNamed DEF Synced
  <1>6. PICK d \in Seq(Reply) : wire' = wire \o d /\ DatedAnswer(d, Serve(db, m).replies)
    BY <1>1, ForwardAppends
  <1>7. wire' = d
    BY <1>4, <1>6
  <1>8. /\ plans' = qs /\ suppressing' = None /\ delivered' = None /\ open' = "query"
        /\ db' = Serve(db, m).db
    BY <1>4 DEF Forward, Sends
  <1> HIDE DEF ps
  <1>9. Named(qs, d, None, db', "query", T, V)
    <2> DEFINE q == qs
               b2 == db'
    <2>1. q = BeginSimpleQuery(ps, sql) /\ b2 = Serve(db, m).db
      BY <1>8
    <2> HIDE DEF q, b2
    <2>2. Named(q, d, None, b2, "query", T, V)
      BY <1>1, <1>3, <1>4, <1>5, <1>6, <2>1, QueryNamed
    <2> QED
      BY <2>2 DEF q, b2
  <1>10. Named(plans', wire', suppressing', db', open', T, V)
    BY <1>7, <1>8, <1>9
  <1> QED
    BY <1>8, <1>10, NoRow, StepNamed

\* Each message of the extended protocol that is forwarded, with what its handler makes of
\* the plan state.
LEMMA ExtendedNamed ==
  ASSUME IInv, Orderly, SlotInv, NameInv, NEW m \in Menu[scenario], ClientMay(m), Sends(m, 0),
         NEW qs \in State, Forward(m, qs),
         \/ m.tag = "Parse" /\ qs = ParseStatement(Synced, m.name, m.sql)
         \/ m.tag = "Bind" /\ qs = Bind(Synced, m.portal, m.statement, m.formats)
         \/ m.tag = "Describe" /\ qs = Describe(Synced, m.target)
         \/ m.tag = "Close" /\ qs = Close(Synced, m.target)
         \/ /\ m.tag = "Execute" /\ qs = Execute(Synced, m.portal)
            /\ ~IsResume(Synced, m.portal)
  PROVE  NameInv'
  <1> DEFINE ps == Synced
             b2 == db'
             w2 == wire'
  <1>1. Patient
    BY DEF Orderly
  <1>2. PICK T \in [Statements -> Sqls], V \in [Portals -> Binding] :
            Named(plans, wire, suppressing, db, open, T, V)
    BY DEF NameInv
  <1>3. /\ plans' = qs /\ suppressing' = None /\ delivered' = None /\ open' = "exchange"
        /\ wire \in Seq(Reply) /\ db \in BackendState /\ m \in Message
        /\ ps \in State /\ ps.suspended = FALSE
        /\ ps.pending_executes = plans.pending_executes
        /\ ps.pending_descriptions = plans.pending_descriptions
        /\ \E d \in Seq(Reply) : Joins(ps, wire, d, w2, db, b2, m, T, V)
    BY <1>1, <1>2, ForwardJoins
  <1>4. PICK d \in Seq(Reply) : Joins(ps, wire, d, w2, db, b2, m, T, V)
    BY <1>3
  <1>5. /\ plans \in State /\ generation \in Nat
        /\ ps.portal_statement = plans.portal_statement
    <2>1. plans \in State /\ generation \in Nat
      BY DEF IInv, TypeOK
    <2> QED
      BY <2>1, InvalidateForgets DEF Synced
  <1>6. SUFFICES \E T2 \in [Statements -> Sqls], V2 \in [Portals -> Binding] :
                     Named(qs, w2, None, b2, "exchange", T2, V2)
    BY <1>3, NoRow, StepNamed
  <1>7. CASE m.tag = "Parse" /\ qs = ParseStatement(Synced, m.name, m.sql)
    <2>1. /\ BoundTo(plans, m.name) = {} /\ plans.pending_descriptions = << >>
          /\ plans.pending_executes = << >>
      BY <1>7, OrderlyKeeps
    <2>2. BoundTo(ps, m.name) = {}
      BY <1>5, <2>1 DEF BoundTo
    <2>3. qs = ParseStatement(ps, m.name, m.sql)
      BY <1>7
    <2> HIDE DEF ps, b2, w2
    <2> QED
      BY <1>3, <1>4, <1>7, <2>1, <2>2, <2>3, ParseNamed
  <1>8. CASE m.tag = "Bind" /\ qs = Bind(Synced, m.portal, m.statement, m.formats)
    <2>1. Settled([kind |-> "portal", name |-> m.portal])
      BY <1>8, OrderlyKeeps
    <2>2. \A k \in DOMAIN ps.pending_descriptions : ps.pending_descriptions[k].kind = "describe"
      BY <1>4 DEF Joins, Exchanging, OfEpoch
    <2>3. \A k \in DOMAIN ps.pending_descriptions :
              ps.pending_descriptions[k].target # [kind |-> "portal", name |-> m.portal]
      BY <1>3, <2>1, <2>2 DEF Settled
    <2>4. qs = Bind(ps, m.portal, m.statement, m.formats)
      BY <1>8
    <2> HIDE DEF ps, b2, w2
    <2> QED
      BY <1>3, <1>4, <1>8, <2>3, <2>4, BindNamed
  <1>9. CASE m.tag = "Describe" /\ qs = Describe(Synced, m.target)
    <2>1. qs = Describe(ps, m.target)
      BY <1>9
    <2> HIDE DEF ps, b2, w2
    <2> QED
      BY <1>3, <1>4, <1>9, <2>1, DescribeNamed
  <1>10. CASE m.tag = "Close" /\ qs = Close(Synced, m.target)
    <2>1. qs = Close(ps, m.target)
      BY <1>10
    <2> HIDE DEF ps, b2, w2
    <2> QED
      BY <1>3, <1>4, <1>10, <2>1, CloseNamed
  <1>11. CASE /\ m.tag = "Execute" /\ qs = Execute(Synced, m.portal)
              /\ ~IsResume(Synced, m.portal)
    <2>1. qs = Execute(ps, m.portal) /\ ~IsResume(ps, m.portal)
      BY <1>11
    <2> HIDE DEF ps, b2, w2
    <2> QED
      BY <1>3, <1>4, <1>11, <2>1, ExecuteNamed
  <1> QED
    BY <1>7, <1>8, <1>9, <1>10, <1>11

\* Each kind of frontend message.
LEMMA FrontendNamed ==
  ASSUME IInv, Orderly, SlotInv, NameInv, HandleFrontend
  PROVE  NameInv'
  <1> DEFINE ps == Synced
  <1>1. PICK m \in Menu[scenario] : \/ FrontendQuery(m) \/ FrontendParse(m) \/ FrontendBind(m)
                          \/ FrontendDescribe(m) \/ FrontendClose(m) \/ FrontendExecute(m)
                          \/ FrontendSync(m)
    BY DEF HandleFrontend
  <1>2. ClientMay(m) /\ Patient
    BY <1>1 DEF FrontendQuery, FrontendParse, FrontendBind, FrontendDescribe, FrontendClose,
                FrontendExecute, FrontendSync, Orderly
  <1>3. /\ m \in Message /\ owed = 0 /\ open # "query"
        /\ m.tag = "Execute" => (IsResume(plans, m.portal) => plans.suspended)
    BY <1>2, PatientKeeps
  <1>4. /\ ps \in State /\ ps.pending_executes = plans.pending_executes
        /\ ps.portal_bind_generations = plans.portal_bind_generations
    BY <1>3, SyncedSound
  <1>5. plans.suspended = FALSE
    BY DEF SlotInv, Sound
  <1>6. CASE FrontendQuery(m)
    <2> DEFINE sql == IF m.sql \in Decodable THEN m.sql ELSE None
    <2>1. sql \in {None, m.sql}
      OBVIOUS
    <2> HIDE DEF sql
    <2>2. /\ m.tag = "Query"
          /\ \/ Refuse(m) /\ Sends(m, 0)
             \/ Forward(m, BeginSimpleQuery(Synced, sql)) /\ Sends(m, 1)
      BY <1>6 DEF FrontendQuery, sql
    <2> QED
      BY <1>2, <2>1, <2>2, RefusalNamed, QueriedNamed
  <1>7. CASE FrontendParse(m)
    <2>1. m.sql \in Decodable /\ m.tag = "Parse"
      BY <1>2, <1>7, OrderlyKeeps DEF FrontendParse
    <2>2. /\ Sends(m, 0)
          /\ Refuse(m) \/ Forward(m, ParseStatement(ps, m.name, m.sql))
      BY <1>7, <2>1 DEF FrontendParse
    <2>3. m.name \in Statements /\ m.sql \in Sqls
      BY <1>3, <2>1 DEF Message
    <2> HIDE DEF ps
    <2>4. ParseStatement(ps, m.name, m.sql) \in State
      BY <1>4, <2>3, ParseStatementTyped
    <2> QED
      BY <1>2, <2>1, <2>2, <2>4, RefusalNamed, ExtendedNamed DEF ps
  <1>8. CASE FrontendBind(m)
    <2>1. m.tag = "Bind" /\ Sends(m, 0)
            /\ Forward(m, Bind(ps, m.portal, m.statement, m.formats))
      BY <1>8 DEF FrontendBind
    <2>2. m.portal \in Portals /\ m.statement \in Statements /\ m.formats \in Formats
      BY <1>3, <2>1 DEF Message
    <2> HIDE DEF ps
    <2>3. Bind(ps, m.portal, m.statement, m.formats) \in State
      BY <1>4, <2>2, BindTyped
    <2> QED
      BY <1>2, <2>1, <2>3, ExtendedNamed DEF ps
  <1>9. CASE FrontendDescribe(m)
    <2>1. m.tag = "Describe" /\ Sends(m, 0) /\ Forward(m, Describe(ps, m.target))
      BY <1>9 DEF FrontendDescribe
    <2>2. m.target \in Target
      BY <1>3, <2>1 DEF Message
    <2> HIDE DEF ps
    <2>3. Describe(ps, m.target) \in State
      BY <1>4, <2>2, DescribeTyped
    <2> QED
      BY <1>2, <2>1, <2>3, ExtendedNamed DEF ps
  <1>10. CASE FrontendClose(m)
    <2>1. m.tag = "Close" /\ Sends(m, 0) /\ Forward(m, Close(ps, m.target))
      BY <1>10 DEF FrontendClose
    <2>2. m.target \in Target
      BY <1>3, <2>1 DEF Message
    <2> HIDE DEF ps
    <2>3. Close(ps, m.target) \in State
      BY <1>4, <2>2, CloseTyped
    <2> QED
      BY <1>2, <2>1, <2>3, ExtendedNamed DEF ps
  <1>11. CASE FrontendExecute(m)
    <2>1. m.tag = "Execute" /\ Sends(m, 0) /\ (Refuse(m) \/ Forward(m, Execute(ps, m.portal)))
      BY <1>11 DEF FrontendExecute
    <2>2. m.portal \in Portals
      BY <1>3, <2>1 DEF Message
    <2> HIDE DEF ps
    <2>3. ~IsResume(ps, m.portal)
      BY <1>3, <1>4, <1>5, <2>1 DEF IsResume
    <2>4. Execute(ps, m.portal) \in State
      BY <1>4, <2>2, <2>3, ExecuteTyped
    <2> QED
      BY <1>2, <2>1, <2>3, <2>4, RefusalNamed, ExtendedNamed DEF ps
  <1>12. CASE FrontendSync(m)
    <2>1. m.tag = "Sync" /\ Sends(m, 1) /\ Forward(m, Sync(Synced))
      BY <1>12 DEF FrontendSync
    <2> QED
      BY <1>2, <2>1, SyncedNamed
  <1> QED
    BY <1>1, <1>6, <1>7, <1>8, <1>9, <1>10, <1>11, <1>12
-----------------------------------------------------------------------------
(* Every step.                                                             *)

\* Before anything is named any meaning will do.
LEMMA InitNamed ==
  ASSUME Init
  PROVE  NameInv
  <1>1. PICK x \in Sqls : TRUE
    BY PostgresAssumption
  <1> DEFINE T == [s \in Statements |-> x]
             V == [p \in Portals |-> [sql |-> x, format |-> "text"]]
             w == << >>
  <1>2. T \in [Statements -> Sqls] /\ V \in [Portals -> Binding]
    BY PostgresAssumption DEF Binding
  <1>3. /\ \A s \in Statements : Default.statement_plans[s] = None
                                 /\ Default.statement_sql[s] = None
        /\ \A p \in Portals : Default.portal_plans[p] = None /\ Default.portal_statement[p] = None
        /\ Default.pending_parses = << >>
    BY DEF Default
  <1>4. /\ \A s \in Statements : FreshBackend.statements[s] = None
        /\ \A p \in Portals : FreshBackend.portals[p] = None
        /\ FreshBackend.skipping = FALSE
    BY DEF FreshBackend, NoPortals
  <1> HIDE DEF T, V
  <1>5. Agreed(Default, FreshBackend, T, V)
    BY <1>2, <1>3, <1>4 DEF Agreed, Tells, Fits
  <1>6. Known(Default, w, None, T)
    BY <1>3 DEF Known
  <1>7. Default \in State /\ w \in Seq(Reply)
    BY DefaultTyped
  <1>8. Explains(Default, w, T, V)
    <2>1. \A i \in DOMAIN w : w[i].tag = "ReadyForQuery"
      OBVIOUS
    <2> HIDE DEF w
    <2> QED
      BY <1>7, <2>1, NothingToExplain
  <1>9. Named(Default, w, None, FreshBackend, "none", T, V)
    BY <1>5, <1>6, <1>8 DEF Named
  <1>10. RowsJudgedByOwnPlan /\ RowsDecodedInBoundFormat
    BY DEF Init, RowsJudgedByOwnPlan, RowsDecodedInBoundFormat, Row
  <1> QED
    BY <1>2, <1>9, <1>10 DEF Init, NameInv

\* What the names stand for does not change while nothing moves but the policy.
LEMMA StillNamed ==
  ASSUME NameInv, UNCHANGED << plans, wire, suppressing, db, open >>,
         RowsJudgedByOwnPlan', RowsDecodedInBoundFormat'
  PROVE  NameInv'
  <1>1. PICK T \in [Statements -> Sqls], V \in [Portals -> Binding] :
            Named(plans, wire, suppressing, db, open, T, V)
    BY DEF NameInv
  <1>2. Named(plans', wire', suppressing', db', open', T, V)
    BY <1>1
  <1> QED
    BY <1>2, StepNamed

\* What an orderly client's names stand for at every step.
LEMMA NameInvariance == Spec => [](Orderly => NameInv)
  <1> DEFINE Slot == Patient => SlotInv
             Inv == Orderly => NameInv
  <1>1. Init => Inv
    BY InitNamed
  <1>2. IInv /\ Slot /\ Inv /\ [Next]_vars => Inv'
    <2> SUFFICES ASSUME IInv, Slot, Inv, [Next]_vars, Orderly' PROVE NameInv'
      OBVIOUS
    <2>1. scenario' = scenario
      BY DEF Next, HandleFrontend, FrontendQuery, FrontendParse, FrontendBind,
         FrontendDescribe, FrontendClose, FrontendExecute, FrontendSync, Sends, HandleBackend,
         Suppressed, BackendReady, BackendRowDescription, BackendDataRow, BackendParseComplete,
         BackendBindComplete, BackendCloseComplete, BackendCommandComplete,
         BackendPortalSuspended, BackendErrorResponse, BackendNoData,
         BackendEmptyQueryResponse, Reads, PolicyMoves, vars
    <2>2. Orderly /\ SlotInv /\ NameInv
      BY <2>1 DEF Orderly, Patient
    <2>3. CASE PolicyMoves
      <3>1. delivered' = None /\ UNCHANGED << plans, suppressing, db, wire, open >>
        BY <2>3 DEF PolicyMoves
      <3> QED
        BY <2>2, <3>1, NoRow, StillNamed
    <2>4. CASE UNCHANGED vars
      <3>1. UNCHANGED << plans, suppressing, db, wire, open, delivered >>
        BY <2>4 DEF vars
      <3>2. RowsJudgedByOwnPlan' /\ RowsDecodedInBoundFormat'
        BY <2>2, <3>1 DEF NameInv, RowsJudgedByOwnPlan, RowsDecodedInBoundFormat, Row
      <3> QED
        BY <2>2, <3>1, <3>2, StillNamed
    <2> QED
      BY <2>2, <2>3, <2>4, FrontendNamed, BackendNamed DEF Next
  <1> HIDE DEF Inv, Slot
  <1>3. Spec => []Slot
    BY SlotInvariance DEF Slot
  <1>4. Spec => []Inv
    BY <1>1, <1>2, <1>3, Invariance, PTL DEF Spec
  <1> QED
    BY <1>4 DEF Inv

\* An orderly client's rows are judged by a plan of the very result they belong to, under
\* that result's own text, whatever its names stood for before.
THEOREM RowsAreJudgedByTheirOwn == Spec => [](Orderly => RowsJudgedByOwnPlan)
  <1>1. (Orderly => NameInv) => (Orderly => RowsJudgedByOwnPlan)
    BY DEF NameInv
  <1> QED
    BY <1>1, NameInvariance, PTL

\* An orderly client's rows are decoded in the format their portal was bound with.
THEOREM RowsAreDecodedAsBound == Spec => [](Orderly => RowsDecodedInBoundFormat)
  <1>1. (Orderly => NameInv) => (Orderly => RowsDecodedInBoundFormat)
    BY DEF NameInv
  <1> QED
    BY <1>1, NameInvariance, PTL

\* When an orderly client's connection is quiescent the session and the backend agree on the
\* text of every prepared statement both know, and a cached plan is that text's.
THEOREM NamesAreAgreed == Spec => [](Orderly => NamesAgree)
  <1>1. (Patient => SlotInv) /\ (Orderly => NameInv) => (Orderly => NamesAgree)
    <2> SUFFICES ASSUME SlotInv, NameInv, Quiescent, NEW s \in Statements,
                        db.statements[s] # None
                 PROVE  /\ plans.statement_sql[s] \in {None, db.statements[s]}
                        /\ plans.statement_plans[s] # None =>
                            plans.statement_plans[s].fields = Head(Results[db.statements[s]])
      BY DEF Orderly, NamesAgree
    <2>1. PICK T \in [Statements -> Sqls], V \in [Portals -> Binding] :
              Named(plans, wire, suppressing, db, open, T, V)
      BY DEF NameInv
    <2>2. Resting(plans, wire, suppressing, db)
      BY DEF SlotInv, Sound, Quiescent
    <2>3. plans.pending_parses = << >>
      BY <2>2, SlotsAre DEF Resting, NoSlots, Requests
    <2>4. Agreed(plans, db, T, V) /\ Known(plans, wire, suppressing, T)
      BY <2>1 DEF Named
    <2>5. plans.statement_sql[s] \in {None, T[s]}
      BY <2>3, <2>4 DEF Known, Unanswered
    <2>6. db.statements[s] = T[s] /\ Tells(plans.statement_plans[s], T[s])
      BY <2>4 DEF Agreed
    <2> QED
      BY <2>5, <2>6 DEF Tells
  <1> QED
    BY <1>1, SlotInvariance, NameInvariance, PTL

\* What is refused of an orderly client's exchange stays in that exchange.
THEOREM RefusalsStayContained == Spec => [](Orderly => RefusalsAreContained)
  <1>1. /\ (Orderly => RowsJudgedByOwnPlan) /\ (Patient => NoZombieSlots)
        => (Orderly => RefusalsAreContained)
    BY DEF Orderly, RefusalsAreContained
  <1> QED
    BY <1>1, RowsAreJudgedByTheirOwn, NoSlotOutlivesItsExchange, PTL
=============================================================================
