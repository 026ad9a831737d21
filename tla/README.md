# A TLA+ model of pgmask

pgmask is a proxy between PostgreSQL clients and one PostgreSQL server. It reads
both directions of the wire protocol and masks the columns a catalog file
classifies. A result is judged once, when the server describes it
(`RowDescription`): the proxy computes a *plan*, one mask per field, from the
described fields, the SQL text, the catalog snapshot and the policy. Each later
`DataRow` is masked by a plan it finds in the session's bookkeeping. Everything
therefore hangs on four questions, and they are what this project is about:

1. Is a row always judged by the plan of its own result, in its own format,
   although statements, portals and results are named, renamed, pipelined,
   paused, refused and failed in any interleaving of the two directions?
2. Is a plan ever used under a policy it was not computed against, although the
   file is reloaded and the catalog refreshed by other tasks at any moment?
3. Is the plan itself right: is what it releases really released by the catalog,
   however the statement hides where its values come from, and does each mask
   hide what the catalog says it hides?
4. Does what surrounds the plan hold: who a session is, what the wire carries in
   pieces, what the catalog reads while the database is altered under it?

## Inventory

All paths are under `crates/proxy/src/` unless they say otherwise.

| Component | State | Operations | What makes it correct |
|---|---|---|---|
| plan state, `plan_state.rs` | statement and portal maps, active plan, four queues of pending messages, epochs, bind generations | one method per message of either direction | every row finds the plan of its own result; no slot outlives its exchange; names mean what they mean to the server |
| session, `session.rs` | the plan state, the epoch being suppressed, the last transaction status, roles, notice count | `handle_frontend`, `handle_backend`, `handle_row_description`, `handle_data_row`, `reject`, refusals | a refused result is swallowed whole and nothing else is; the client always gets its `ReadyForQuery` |
| policy reload, `policy.rs`, `main.rs` | `ArcSwap` of the knobs, epoch counter, last file bytes, reload mutex | `reload_from_path`, `apply_config_locked`, `PolicyChange` | a file is applied whole or not at all; no plan outlives it |
| catalog refresher, `catalog.rs` | spec, snapshot, refresh counter, apply mutex, nudge | `run_refresher`, `refresh`, `replace_spec`, `install_snapshot` | snapshots only move forward; table changes are seen in the end |
| startup, `session.rs`, `tls.rs` | principal, authenticated flag, roles, TLS on each leg | `handle_connection`, `read_startup_packet`, `startup_principal`, `note_backend_auth` | roles are given only to the principal the server vouched for, and are those of the file in force; each leg is as secure as demanded |
| policy decisions, `policy.rs` | none | `plan_for_with`, `plan_opaque_field`, summaries, extracts | an unknown origin is never released; NULL only where it may stand |
| catalog, `catalog.rs` | the snapshot, one resolution under way | `resolve_snapshot` in five queries, `classify`, `for_roles`, `opaque_views`, `coverage_changes` | a torn read never misplaces a policy; the strictest role wins; opacity is transitive; the log tells the coverage |
| masks, `mask.rs`, `mask/json.rs` | none | one function per mask | a value that cannot be masked is refused, never passed |
| framing, `protocol.rs`, the pump of `session.rs` | read buffers, the batch | `FrameReader`, field readers, `scrub_error`, `handle_connection` | frames are the same however the bytes are split; nothing waits that could be handled; a diagnostic carries no value |
| SQL analysis, `analysis/`, `lineage.rs` | none | the gates, the shapes of outputs, the lineage around an external resolver | a refusal is never turned into a release by an unknown shape |
| rate limit, notices | token buckets, counters | `try_acquire`, `handle_notice`, `record` | refusals keep the protocol in step |
| classify, fuzz, bench, corpus, spike crates | none at run time | command-line tools | outside the proxy |

How they interact: a connection is one task that owns a `Session`; the two
halves of the wire are read by one `select` loop, so the handlers never overlap
but may alternate in any order. `Policy` and `Catalog` are shared by every
session, by the SIGHUP task and by the refresher through `ArcSwap`s, atomics and
two mutexes. A session learns of a change by comparing `Policy::generation()`
with the number it saw last.

What is hard here: the server's answers do not name the request they answer, so
they are matched by position in queues that the other direction is filling; an
error or a local refusal kills one exchange among several in flight; a limited
`Execute` pauses and is resumed, abandoned or destroyed; names are rebound while
results of the old binding are still arriving; a reload is a sequence of stores
that sessions read between; a snapshot is five queries that DDL may tear; three
analyses of one statement (what the server reports, what the lineage library
finds, what the shape says) must not release what one of them gets wrong.
`PROJECT.json` lists these hazards at their lines.

## Modules

| Module | Models |
|---|---|
| `PlanState` | `plan_state.rs`: the state record and one operator per method |
| `Postgres` | the server as the proxy depends on it (external): statements, portals, transactions, skip to `Sync`, answers in order |
| `Session` | one connection: a client, the two handlers, a policy that moves, over `PlanState` and `Postgres` |
| `PolicyReload` | reload, refresher and sessions step by step, over the shared cells |
| `Connection` | startup, TLS, SASL, roles, budgets, notices and the arms that end a connection |
| `Framing` | `protocol.rs` byte by byte, in a small base |
| `Parsing` | bodies that grow, and what the two ends mean by them |
| `Relay` | the pump of `handle_connection` over sockets, over `Framing` |
| `Conduit` | the abstract specification that `Relay` implements |
| `Classification` | mask kinds, rules folded with types, what a catalog refuses, `for_roles` |
| `CatalogSnapshot` | a `Snapshot` from its rows, and its lookups |
| `Catalog` | resolving snapshots while the database changes |
| `Masks`, `JsonMask` | `mask.rs` and `mask/json.rs`: one value under one mask |
| `Sql` | parse trees, the walk, the names of a text |
| `Safety`, `Surface`, `Hostile`, `Questions` | `analysis/`: shapes of outputs, gates, the hostile posture, what a snapshot is asked about a text |
| `Engine` | what a SELECT returns and what the server and the lineage library say of it (external) |
| `Lineage` | `lineage.rs`: the guards around the library |
| `Planning`, `Attribution` | `policy.rs` and `policy/json_extract.rs`: the plan of a result |
| `Answers` | one statement from its text to its rows: composes all of the last six lines |
| `MCSession`, `MCPolicyReload`, `MCConnection`, `MCRelay`, `MCCatalog`, `MCAnswers` | the instances for TLC |
| `SessionProofs`, `SlotProofs`, `NameProofs`, `PolicyReloadProofs`, `ConnectionProofs`, `CatalogProofs`, `RelayProofs` | theorems and proofs |
| `Iteration` | what the proofs use of loops and recursive functions |

A property that is a conjunction names its parts, which are definitions with a
comment of their own; the type invariants of `Connection`, `Relay`, `Catalog` and
`Answers` are the first part of one of them.

### Session, PlanState, Postgres

`plans`, `suppressing` and `txn_status` are the fields of `Session` with those
names; `generation` is `Policy::generation()`. `db` is the server and `wire` the
answers the proxy has not read yet: a message the proxy forwards is served at
once and its answers queue in `wire`, which is every interleaving the proxy can
observe, since it sees the server only through its answers. Each arm of
`handle_frontend` is an action `Frontend...` and each arm of `handle_backend` an
action `Backend...`; an arm does all it does in the code, `sync_policy` first.
`sent`, `open`, `owed` and `limited` belong to the client and the bounds;
`delivered` records what the last step handed the client where a property is
about it.

Data is abstracted. A plan is where it came from: the result whose description
it was computed from, the text, the policy generation, the wire format. A text is
an atom with a kind (rows, command, rejected at parse, failing at run, begin,
commit, empty). What the gates (`refuse_frontend_sql`), the planner and the masks
refuse are constants, so the runs do not depend on the SQL analysis. A result has
one row per fetch and two fetches per portal, enough to pause, resume and end.

A behaviour happens in one *scenario*, chosen initially: it fixes the messages
the client may send, the habits of its driver, what is refused, and the bounds.
The habits are predicates on the client's next message:

| Habit | The client |
|---|---|
| `awaits_ready` | sends nothing while a `ReadyForQuery` is owed to it |
| `query_alone` | does not pipeline a simple `Query` with anything |
| `heeds_errors` | sends only `Sync` once it has been told of an error |
| `settled_names` | does not reuse a name whose `Describe` or `Parse` is unanswered |
| `fetches_in_turn` | executes a binding again only after its `PortalSuspended` |
| `drains_portals` | sends no row-less `Query` while a portal is paused |
| `executes_bound` | executes only portals whose `Bind` succeeds |
| `executes_described` | executes only portals that are described |
| `describes_last` | ends the exchange after a `Describe` |
| `parses_first` | sends no `Parse` while a `Describe` or an `Execute` is unanswered |

They describe ordinary drivers (libpq, psycopg, JDBC wait for the answer;
pipelining drivers send whole exchanges). None of them is needed for the order of
the queues, the freshness of bind generations or the types, which are proved for
every client. The attribution properties are shown under them, because without
them they fail; see *Where the code and its comments part*.

### PolicyReload

A version of the file counts its edits, separately for the column rules and for
everything else (`knobs`); a snapshot is the rules it was resolved from and the
version of the tables. Each store, each counter increment, each load and each
await of `apply_config_locked`, `replace_spec_locked`, `install_snapshot`,
`refresh` and `handle_row_description` is a step of its own. `apply` is the
catalog's mutex; the reload mutex is there in that one `reload` record exists.
`done`, `begun` and each session's `floor` are history: what had been completed
or begun when the session's message arrived. Not modelled: a SIGHUP with
unchanged bytes (it changes no cell but TLS material), the masker's key and TLS
paths (they ride on the knobs), `min_interval` (it only delays), a schedule
change's extra nudge.

### Connection

`conn[c]` holds the locals of `handle_connection` and the fields of `Session` that
`Session` the module leaves out, `db[c]` the server's side of that connection,
`live`, `acceptor` and `epoch` the cells of the policy. A reload is three steps, as
in `apply_config_locked`: the first bump, the store of the knobs, then the store of
the TLS settings with the second bump. Every await of the startup is a step
boundary: `SSLRequest` and `GSSENCRequest`, the plaintext gate, `CancelRequest`, the
connection to the server and its TLS, the startup packet, SASL. The server is
external: it may read a packet with two users either way, and it vouches for the
user it authenticates. A bucket of tokens (the governor crate, external) is shared
by all connections of one name; `spent` is what the server got, `permitted` whether
the gate let plaintext through when it looked.

### Framing, Parsing, Relay, Conduit

A byte is a digit in base 6, a length is two of them and a count one, in two's
complement, so that negative, short and excessive lengths are a few bytes away.
`Parsing` grows a body byte by byte, freely up to `MaxBody` and then towards a few
well-formed messages, and compares the parsers with what the writer meant.

`Relay` has the peers, the sockets (`Room` bytes each way), the two `FrameReader`
buffers, the batch and the pump's place in its loop. A handler forwards, answers,
swallows or closes as it likes, and reads may be cut at any byte. `Conduit` says
what this amounts to, without bytes: messages are handled whole, once and in order;
emitted messages arrive whole and in order; nothing is handled after the end.
`Relay` implements it (`RefinesConduit`), with the same ghosts `sent`, `handled`,
`emitted`, `arrived` and `open <- ~(close \/ Over)`.

### Catalog

The database is a function from relations to what stands under that name (an OID,
columns by attribute number, a view's definition, indexes). `job` is the resolution
under way, at one of five stages; each `Resolves` step is one query, read from the
database as it is then; `Ddl` creates, drops, replaces and alters between any two.
`touched` records the relations altered since a resolution began, `ever` every place
a column has had, `told` what a reader of the log lines, who knows the rules in force,
would believe. Before the first resolution there is `NoSnapshot`. `Definitions`,
`Indexes` and `Tables` are what a database may hold at all, `Shapes` and `FirstDb` what
a run's database does; the proofs are about any of the former.

Two statements of the properties had to be made exact before they could be proved.
A file may give up a rule without a log line, so that the reader of the log must also
know which rules are in force (`Heard`), and then knows exactly the classified places
(`LogTellsCoverage`). And `NoViewHidesAUnion` holds of databases in which no two views
share a name in lower case (`ViewsAreApart`): the map of definitions keeps one of two
such views, and the other's union is missed.

An index has the columns of its key, those it includes, those below its expressions and
those of its predicate; `pg_index.indkey` lists the first and the second, and the query
takes it whole. `GroupsOfOneAreNoticed` is what the guard on summaries needs: a grouping
by the key of a unique index is noticed. Only the documented gap is exempt (a partial
index on nothing but expressions), and the run `covering_keys` refutes it: an index with
included columns has too wide a key. What the code does keep, and the run `catalog`
checks, is `GroupsByWholeIndexesAreNoticed`: the recorded key is never wider than key and
included columns together, so that an index which includes nothing is always noticed.

### Answers and what it composes

A behaviour picks a deployment (live settings, snapshot, database, the texts and
people it is about), submits statements, has them described and receives rows.
`Submit` is `refuse_frontend_sql`, `Describe` is `handle_row_description` with the
server's description, `Row` is `handle_data_row`, `Rotate` a reload that changes the
key. The reference against which a plan is judged is `Engine`, the server's own name
resolution: the `flow` of an output is the set of stored columns whose values it
carries. It is written from the rules of SQL, not from the analysis, so that the two
can disagree.

The hostile gate looks up the columns of an unqualified relation by walking a hash map
until a name fits. `Walks` has every order such a walk may take; `Submit` and `Describe`
each choose one, because a refresh between them may have built the map anew with the same
contents. The deployment `twins` has two relations of one name, one of them masked. A
statement which the gate refuses in one order and sends in another (`OrderDecides`) is
left out of `HostileUsesOnlyProjections`: it is sent although it uses a masked column.
`SingletonGroupsAreWithheld` takes the unique keys of the database as they are; whether
a snapshot has them right is the business of `Catalog`.

What is abstracted: each table of builtin names is represented by a few members; a
digest is the term of key and absorbed bytes; numbers are small counts of halves, a
year has two months and a month two hours; `int2` and `int8` keep their ends as
constants. Left out: join conditions (`ON`), recursive CTEs in `Engine`, DDL between
a statement and its description, JSON and XML constructors (they are operators of
their children). `PreparedTexts` and `PreparedDeployments` are
`AllTexts` and `AllDeployments` as constants, which TLC works out once: it walks each
tree and classifies each catalog before the first state.

`NothingMaskedInTheClear` leaves two kinds of field out: extracts, which have
`ExtractsRevealNoMore`, and summaries or fine `date_trunc` in a statement with a
column list in `FROM` or on a CTE, which the code attributes by the name alone.

## Runs

| Run | Configuration | Checks | States |
|---|---|---|---|
| `conversations` | 10 scenarios, 5 to 8 messages | `TypeOK`, `QueuesInOrder`, `RowsJudgedByOwnPlan`, `RowsDecodedInBoundFormat`, `RowsJudgedUnderCurrentPolicy`, `NoZombieSlots`, `NamesAgree`, `RebindsAreFresh` | 1.78 million |
| `refusals` | 2 scenarios, 6 messages, one rate-limit refusal | `RefusalsAreContained`, `SyntheticReadyIsTrue`, `ReadyArrives` | 86 thousand |
| `reload` | one session, one edit of rules, knobs or both, one DDL, one failure | `TypeOK`, `ServedPlansAreCurrent`, `NoPlanOutlivesABegunReload`, `NoKnobsAheadOfRules`, `WholeFileOrNothing`, `SnapshotsMoveForward`, `TablesAreSeen`, `NudgesAreAnswered` | 465 thousand |
| `connections` | 2 connections, one reload | `RolesAreDeserved`, `LegsAsDemanded`, `OffersCanSucceed`, `LimitsHold` | 1.7 million |
| `relay` | 2 messages each way, garbage, sockets of 5 bytes; bodies of 5 bytes | `NothingWaitsWhole`, `BodiesReadAlike`, `RefinesConduit`, `EverythingLands` | 114 thousand |
| `catalog` | 4 relations, 2 DDL statements, one reload, one failure | `SnapshotsAreTrue`, `ViewsAndKeysAreKnown`, `LogTellsCoverage`, `RacesAreRidden`, `CoverageCatchesUp` | 92 thousand |
| `answers` | 25 deployments, two answers compared (one for documents), one new key | `NothingMaskedInTheClear`, `SystemPathReadsNoUserTable`, `HostileUsesOnlyProjections`, `SingletonGroupsAreWithheld`, `OnlyReadsReachTheServer`, `MasksDoAsAccepted`, `HandlesLinkAsPromised`, `RulesComposeStrictly` | 88 thousand |
| `query_pipelined`, `refused_late`, `refused_names`, `fails_late` | one scenario each | one property each, violated | |
| `covering_keys` | a table with `UNIQUE (id) INCLUDE (mail)` | `GroupsOfOneAreNoticed`, violated | |

Bounds. Two statement names and two portal names, one of each unnamed, let one
name be rebound while the other is in flight. Every scenario but `cold` starts
from a session that has prepared and described one statement per name (the state
the methods of `PlanState` themselves produce), so five messages reach the rows
of a second exchange (Bind, Execute, Sync, Bind, Execute), six a describe or a
close between the two, and eight a pause, another portal and
a resume inside a transaction; the mutants of `PROJECT.json` show that each
property is violated within the bounds when the code it guards is broken. One
session is enough for `reload`: sessions share nothing but the policy, which they
only read, and the nudge. One edit, together with a refresh for a changed table and a
failure, is enough for the two counters to move at two moments; a second edit, and any
number of sessions, are covered by the theorems about this run's first six properties.
`reparse` is the scenario in which a statement is prepared again under a portal whose
Execute is unanswered. `prepare` prepares statements among results that are refused, at
the description or at a row.

`connections` starts either with one connection at its first packet, or with two
logged in as one user: the first reaches every step of a login between two steps of
a reload, the second a budget of one shared by two sessions, with two statements,
two notices and one refill. Two configurations differ in everything a reload may
change. `relay` has two frames each way of three and four bytes, so that a chunk
ends inside a length, inside a body and between frames; `Window = 2` is the number of
requests a client leaves unanswered, which sockets and buffers of this size can hold. `catalog` has a table, one
whose name differs only in case, a view and a view over it: two DDL statements make
a relation dropped and recreated, altered on both sides of a query, or a view
dropped from under its definition; the backoff has one entry, so that it can be
outrun. Its indexes are plain, on an expression, partial, partial on an expression only,
and with an included column. `answers` has one deployment per question: PostgreSQL and CockroachDB with
the gates, unclassified columns released, groups, the catalog surface with
`search_path` either way round, the hostile posture, also with two relations of one
name, and one per family of masks. Two answers
are the fewest that can be compared.

Deadlock is checked in `answers` only: elsewhere a client may stop sending, and then
the system rightly rests.

Fairness. `refusals` assumes `WF_vars(HandleBackend)`: the connection's task
keeps reading a socket that has data. Nothing is assumed of the client.
`reload` assumes that the refresher loop keeps running and that a reload in
progress goes on (`WF_vars(Refresh)`, `WF_vars(Reload /\ ~ReloadAt("idle"))`);
SIGHUP is never assumed, and failures are bounded by `MaxFailures`, that is, the
database does not fail for ever. `relay` assumes that the kernel moves bytes, that
peers read what they are sent, that the runtime polls the task, and that each branch
of `select!`, which picks at random, is taken if it stays ready. `catalog` assumes
that the refresher's timer fires and that a resolution goes on; DDL is bounded, so
the database comes to rest.

## Proofs

`tlapm` checks every proof to the last leaf, for every value of the constants:
any sets of names, texts and formats, any scenarios, any number of sessions, any
database and any DDL, any scripts of the two peers in any base. TLC checked each
inductive invariant on the run of its module before it was proved.

- `SessionProofs`: `TypeCorrect`, `QueuesStayInOrder`, `BindingsAreFresh`. The
  inductive invariant is `IInv == TypeOK /\ QueuesInOrder`. `QueuesInOrder` is
  inductive only because it says, next to the order of epochs in the four queues
  and of the Executes, that a paused Execute is alone in its queue: `execute`
  moves the epoch of the front slot when it resumes, which would break the order
  if anything stood behind it, and `suspend_result` pauses only a lone one. The
  argument is one lemma per method of `PlanState` (it keeps the types, it keeps the
  order), then one step per action. `BindingsAreFresh` adds
  that `bump_bind_generation` finds a number no pending Execute of the name holds:
  among `Len(pending_executes) + 1` candidates one is free (a cardinality
  argument), and every other action leaves the counters or, as `parse` and
  `Close`, does not raise them.
  `SyntheticReadyStaysTrue` is the one attribution property that needs only one
  habit, `query_alone`: its invariant says that the status the proxy saw last is the
  backend's, but for the `ReadyForQuery` that is still on the wire.
- `SlotProofs`: `NoSlotOutlivesItsExchange`, `RowsAreJudgedUpToDate`, for a client that
  is `Patient`: it sends nothing before the `ReadyForQuery` it waits for, nothing but a
  `Sync` after an error it was told of, no `Query` into an open exchange, no second
  `Execute` of a portal that is being fetched, and none with a row limit; and if planning
  may refuse a description, nothing but a `Sync` after a `Describe`. Within an exchange
  it sends what it likes in any order. The scenarios `cold`, `rebind`, `query`, `errors`,
  `policy` and `prepare` are such clients, and the theorems need fewer habits than they have
  (neither `settled_names` nor `executes_described` nor `drains_portals`). The invariant
  `Sound` pairs the queues with `wire`. Resting, both are empty. In an exchange
  (`Exchanging`) every answer on the way has a slot of its kind and, until the exchange
  fails, every slot an answer (`Answered`); all slots are of the exchange's epoch; an
  error is the last thing before the `ReadyForQuery`; and while something is streamed
  `active_epoch` is that epoch, so that what `reject` swallows is the exchange it
  refused. The i-th row finds as many answered Executes before it as slots stand before
  its own, whose plan is as recent as the row (`Owned`). In a query (`Querying`) there is
  one slot or none. A reply is then read as one step on both (`Moves`). The invariant
  fails without "no row limit": a portal paused inside a transaction keeps a slot of an
  exchange that is over, and `finish_suppressed_epoch` clears `suspended` but leaves
  that slot, so that one paused `Execute` refused in its next fetch stays queued; the
  runs keep such cases apart by `drains_portals` and by what they refuse.
- `NameProofs`: `RowsAreJudgedByTheirOwn`, `RowsAreDecodedAsBound`, `NamesAreAgreed`,
  `RefusalsStayContained`, for a client that is `Orderly`: patient, it does not reuse a
  name whose `Describe` or `Parse` is unanswered (`settled_names`), and if it prepares at
  all it prepares texts the proxy can decode, before it describes or executes anything in
  the same exchange (`parses_first`). The scenarios `rebind`, `query` and `prepare` are
  such clients. The invariant `NameInv` says that there are meanings, a text `T` of every
  statement name and a text and format `V` of every portal name, on which both sides
  agree. The backend's maps, the session's plans and the session's record of what a
  portal was bound to say what `T` and `V` say, or nothing (`Agreed`); so does
  `statement_sql`, unless the `Parse` that set it failed and the error is still to be
  read (`Known`). Every description on the way is of what the first unanswered `Describe`
  records, whose name still means that; every row is of what its `Execute` snapshotted,
  and of `V` unless the portal was bound again, which the bind generation tells
  (`Explains`). In a query a row is of the plan in force or right behind its own
  description (`Reading`). Existence is what makes it inductive: neither side stores what
  a name means, each stores a part of it, at a different time. A `Parse` and a `Bind`
  change one meaning, every other message only forgets (`Forgets`, `Drops`). The places
  where the invariant is thin are the habits: a `Parse` under an unanswered `Describe`
  would change what its answer is of, and a `Parse` behind a result that is refused may
  fail unseen, which is the run `refused_names`. A text that cannot be decoded is
  forwarded without a trace in the session, which keeps the statement's old text; a
  client that prepares one is outside the theorems.
- `PolicyReloadProofs`: `TypeCorrect`, `PlansAreCurrent`,
  `BegunReloadsInvalidate`, `KnobsFollowRules`, `FilesAreWhole`,
  `SnapshotsOnlyMoveForward`. The inductive invariant has a shared half (who holds
  the mutex and what it has resolved; how `spec`, `live`, `last_file` and the
  reload's phase fit; the snapshot never behind `done`) and one half per session:
  whatever a session holds that is behind a finished or begun change, the
  generation it holds is behind the current one, so its next check clears it. It
  is needed because `generation` reads two counters at two moments: the sum it
  computes may be a value that never was current, and the invariant shows that it
  is never mistaken for a newer one.

- `ConnectionProofs`: `SessionsDeserveTheirRoles`, `LegsStayAsDemanded`,
  `OffersAlwaysSucceed`, `LimitsStayHeld`. The invariant speaks of one connection at a
  time: how far its two ends are and how secure each leg was when the packet passed
  (`Lifecycle`), that the proxy and the server read one name and that authenticated
  means vouched for (`Identity`), which mechanisms were shown (`Offered`), and that a
  session that has seen the generation has the roles in force (`Judged`); and, shared,
  that what was spent and what is left are covered by the burst and the refills. The
  last is what makes the budget inductive: the bound on what was spent alone is not.
- `CatalogProofs`: `SnapshotsStayTrue`, `TheLogIsEnough`, `ViewsAndKeysStayKnown`,
  `RacesAreRiddenOut`. The invariant has three parts. The database is sound: names and
  OIDs are unique, indexes depend on live columns (`Sound`), and `ever` has every place
  there is (`Remembered`). What the resolution under way has read of a relation that
  nobody altered since it began is still so (`ReadTruly`); each race it lost was lost to
  a drop of its own (`Underway`). The published snapshot is what the rules say of what
  was not altered since (`Published`). DDL keeps each by moving a relation into
  `touched`. The lemmas say what `SnapshotFrom` makes of rows of one instant: a rule is
  located exactly where its column is, a column is governed by the one rule that names
  it, and the log lines between two snapshots carry one `DisplayIndex` to the next.
  `ViewsAndKeysStayKnown` needs that the loop of `opaque_views` has reached its fixpoint
  when it ends (`TheLoopCloses`: there are no more rounds that add a view than views), so
  that opacity is closed under reading at every depth. It says no more than its property:
  it is about databases in which no two views share a name in lower case, and about
  unique indexes other than a partial one on nothing but expressions; and of an index with
  included columns it says only that a grouping by those as well is noticed.
- `RelayProofs`: `NothingIsLeftWaiting` and `PumpsAsAConduit`, that `Relay` implements
  `Conduit`. The invariant says, for each direction, that the bytes on their way
  (unsent, in the socket, in the buffer) are the frames still to be handled, perhaps
  with garbage or half a frame behind them, and likewise from the batch to the peer.
  Bytes moved from one stretch to the next leave it alone (`Moved`); a frame cut off
  the front is the next one (`FrontIsNext`), because more bytes behind never change what
  `try_take_message` cuts, nor mend what it calls malformed (`TakingIsFinal`). The
  refinement is then one step of `Conduit` or a stutter for every action.
- `Iteration` has the induction the others use. The provers know no induction over
  data, but they know that the natural numbers are well founded: a counterexample has a
  least one (`NatMin`), so a fact carried from each number to the next holds up to any
  bound (`UpTo`), and the equations of a loop have a solution (`LoopsExist`). `Power`,
  `Unsigned`, `FlattenSeq` and the rounds of `opaque_views` are reasoned about this way.

The assumptions are `NoneAssumption`, `PostgresAssumption`, `SessionAssumption`,
`PolicyAssumption`, `ConnectionAssumption`, `CatalogAssumption`, `RoleOrderAssumption`,
`MaxJsonDepthAssumption`, `FramingAssumption` and `RelayAssumption`: the constants have
their types, there is at least one SQL text, the relations are finite and those there
at first are well formed with OIDs of their own, and what the scripts hold are frames.
TLC evaluates them in every run.

Only model-checked: the liveness properties (`ReadyArrives`, `TablesAreSeen`,
`NudgesAreAnswered`, `EverythingLands`, `CoverageCatchesUp`); what `SlotProofs` and
`NameProofs` prove, for clients outside `Patient` and `Orderly`, that is those that
pipeline exchanges, fetch row by row, or prepare in the middle of an exchange, as the
other scenarios of `conversations` and `refusals` do; `BodiesReadAlike`, whose readers
of rows and descriptions go through a cursor. What `Sql`, `Safety`, `Engine` and the
modules above them compute, that is every property of the run `answers`, is out of the
prover's reach: parse trees are walked by RECURSIVE operators. `retain` is modelled by rank
instead of `SelectSeq`, whose definition is recursive, so that it can be proved about;
`Below` is the least closed set for the same reason.

## Where the code and its comments part

Five runs are expected to be violated; `PROJECT.json` quotes the lines.

- `query_pipelined`: an `Execute` that arrives while a simple query's rows are
  still coming overwrites `active_plan`, by which those rows are judged.
- `refused_late`: a refused description is dropped before `rejection_epoch` looks
  for it, so the epoch of an earlier result is suppressed and the refused
  exchange's other slots stay.
- `refused_names`: once a result is refused, everything up to the `ReadyForQuery` is
  swallowed, an `ErrorResponse` too. A `Parse` of that exchange which the backend failed,
  or skipped, is then taken for executed (`finish_suppressed_epoch` says it was), and the
  session keeps a text that the backend never took.
- `fails_late`: an `Execute` that fails while only a later exchange has something
  pending discards the later exchange.
- `covering_keys`: the columns of a unique key are `unnest(i.indkey)`, which is not cut
  off at `indnkeyatts`. `UNIQUE (a) INCLUDE (b)` is recorded as the key of `a` and `b`, so
  that the groups of `GROUP BY a`, single rows, are not recognised: the direction which
  the comment above the query calls the releasing one.

The other habits were found in the same way, by a property failing without them:

- without `heeds_errors`, a `Describe` sent after its exchange's error has been
  relayed is queued and never answered (`NoZombieSlots`);
- without `fetches_in_turn`, two full Executes of one binding share a slot but are
  ended by two `CommandComplete`s, and the second takes the next Execute's slot
  (`RowsJudgedByOwnPlan`);
- without `drains_portals`, a row-less `Query` in a transaction takes the slot of
  the paused Execute and leaves its own (`NoZombieSlots`);
- without `settled_names`, a `Describe` of the old text files its plan under the
  new one (`RowsJudgedByOwnPlan`);
- without `query_alone`, the second result of a multi-statement `Query` takes the
  slot of the next one, and a refused `Query` is told the status before an unread
  `ReadyForQuery` (`RowsJudgedByOwnPlan`, `SyntheticReadyIsTrue`);
- without `executes_described`, an exchange refused for want of a plan may hide an
  `ErrorResponse`, and the text of a `Parse` the server skipped stays
  (`NamesAgree`, as in `refused_names`); refused rows with later exchanges in flight suppress the later
  epoch (`NoZombieSlots`), which is why `refusal` also has `awaits_ready`.

Met while modelling the rest, and kept out of the properties by what they assume:

- An `Execute` that resumes a paused portal is judged by the plan its slot took before
  the pause, whatever the policy became meanwhile. `plan_state.rs:259-263` keeps a plan
  in flight because it is bounded by one result set; while a portal is paused that bound
  is not one of time. No scenario pauses a portal while the policy moves.
- The pump writes without reading. With sockets that hold less than what a client
  sends before it reads (`Room = 3`, `Window = 3`), `EverythingLands` fails: client,
  proxy and server all wait to write.
- A malformed frame ends `handle_connection` by an error: what earlier frames of the
  same read put in the batch is not written and the session's end is not counted.
- A `timestamptz` is truncated in the session's zone in text and in UTC in binary, so
  the two can show different years although `mask.rs:1021-1025` forbids that a value
  masks differently by protocol. `FormatsAgree` compares zone 0.
- A bucket's bottom may leave the range of `int2` and `int4` in text, where binary
  refuses; for `int8` it saturates at the least value.
- The year 10000 BC is refused in text, where the bound is 9999 in either era, and
  served in binary, where it is -9999.
- A semantic type called `domain` would share handles with the employer half of
  addresses in a column without a type.
- A reload accepts a rule that cannot be classified while its column does not exist;
  when the column appears every refresh fails, until the file is mended.
- Names that differ only in case share an entry in the maps keyed by folded names. So of
  two views `v` and `V` only the one the query returns last is examined (`catalog.rs:2096`);
  if the other is the one over a union, neither is opaque.
- Under the hostile posture, of two relations that share a name in different schemas an
  unqualified reference is looked up in whichever a hash map yields first
  (`hostile.rs:578-582`). `SELECT x FROM people AS p(x, id) WHERE id` renames a masked column
  and filters by it; whether it is refused depends on which `people` that is, and may
  change with the next snapshot.
- A view replaced by one over a UNION is not opaque until the next refresh.
- A text that `pg_query` does not parse passes the first four gates; the server is
  trusted to reject it too.
- `date_trunc('year', c)` is released whatever the mask of `c`.
- A reload that changes the quota starts every budget afresh.
- No step of the startup has a deadline, and an error of `accept` ends the process.

## Not modelled

- `metrics.rs` (counters nothing reads back), the classify tool (offline, shares no
  state), the fuzz, bench, corpus and spike crates (harnesses).
- Reading TOML, defaults, the compact column syntax, DSN rewriting, checks of
  addresses and numbers; regular expressions, HMAC and number parsing, which are
  outside what TLC can evaluate; wording of errors; key exchange and certificates,
  which are one outcome each.
- COPY, JSON constructor and XML nodes, except as operators of their children.
- A `Bind`, `Close`, `Describe` or `Execute` whose body has no terminated name
  (`session.rs:496`, `503`, `510`, `521`). The proxy forwards it and records nothing, an
  `Execute` after charging the rate limit; PostgreSQL answers such a message with a
  protocol violation and skips to `Sync`. `Query` and `Parse` with a text the proxy cannot
  decode are modelled (`Decodable`): they are forwarded past the gates.
- Weak memory: the counters are `Relaxed`, the model is sequentially consistent.
  `u64` counters saturate far beyond any run and are unbounded here.

## Plan

1. *Done*: `PlanState`, `Postgres`, `Session`; `PolicyReload`; their runs, type
   theorems, queue order, fresh bindings and the reload theorems.
2. *Done*: `Connection`; `Framing`, `Relay` and its refinement of `Conduit`;
   `Classification`, `CatalogSnapshot`, `Catalog`; masks, analysis, lineage and
   planning, composed in `Answers`.
3. *Done*: the invariants of `Connection`, with its budgets; `Catalog` with
   `CatalogSnapshot` and the closure of `opaque_views`; `Relay` implementing `Conduit`;
   the status of a synthesised `ReadyForQuery`; for a client that waits its turn, that
   the slots of each queue are paired with the answers in `wire`; for one that also lets
   its names settle, what each name stands for on either side, and with it the
   attribution of every row.
4. Left: the slots and names of clients that pipeline exchanges or pause portals;
   `ParseDataRow` against the writer of a row, for every body; the arithmetic of
   `Masks` (buckets stay below their value and within their width).
