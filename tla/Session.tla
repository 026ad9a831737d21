------------------------------- MODULE Session -------------------------------
(***************************************************************************)
(* One proxied connection after startup (crates/proxy/src/session.rs):     *)
(* handle_frontend and handle_backend, with the plan state they keep, in   *)
(* front of a backend that answers in order.  The client's messages and    *)
(* the backend's replies reach the proxy in any interleaving; each arm of  *)
(* the two handlers is one action.                                         *)
(*                                                                         *)
(* A behaviour happens in one scenario, which fixes what the client sends  *)
(* (Menu), the habits of its driver (Manners) and what the gates and the   *)
(* policy refuse; a run that shows a property says in which scenarios.     *)
(***************************************************************************)
EXTENDS Postgres

CONSTANTS
    Arity,             \* number of fields of each result shape
    Decodable,         \* texts that parse_parse and parse_simple_query decode
    Scenarios,         \* the circumstances of a connection; each fixes
    GateRefuses,       \*   <<text, generation>>: refuse_frontend_sql refuses
    PlanRefuses,       \*   <<shape, generation>>: planning the RowDescription refuses
    MaskRefuses,       \*   shapes with a value the mask cannot honour
    Menu,              \*   the messages the client may send
    Manners,           \*   the habits the client keeps
    MaxMessages,       \*   bound on the client's messages
    MaxGeneration,     \*   bound on policy changes
    MaxLimited         \*   bound on rate-limit refusals

Habits ==
    {"awaits_ready", "query_alone", "heeds_errors", "settled_names", "fetches_in_turn",
     "drains_portals", "executes_bound", "executes_described", "describes_last",
     "parses_first"}

Message ==
    [tag: {"Query"}, sql: Sqls]
      \cup [tag: {"Parse"}, name: Statements, sql: Sqls]
      \cup [tag: {"Bind"}, portal: Portals, statement: Statements, formats: Formats]
      \cup [tag: {"Describe", "Close"}, target: Target]
      \cup [tag: {"Execute"}, portal: Portals, limited: BOOLEAN]
      \cup [tag: {"Sync"}]

ASSUME SessionAssumption ==
    /\ Arity \in [Sqls -> Nat]
    /\ Decodable \subseteq Sqls
    /\ GateRefuses \in [Scenarios -> SUBSET (Sqls \X Nat)]
    /\ PlanRefuses \in [Scenarios -> SUBSET (Sqls \X Nat)]
    /\ MaskRefuses \in [Scenarios -> SUBSET Sqls]
    /\ Menu \in [Scenarios -> SUBSET Message]
    /\ Manners \in [Scenarios -> SUBSET Habits]
    /\ MaxMessages \in [Scenarios -> Nat]
    /\ MaxGeneration \in [Scenarios -> Nat]
    /\ MaxLimited \in [Scenarios -> Nat]

VARIABLES
    scenario,      \* the scenario of this behaviour
    plans,         \* the session's PlanState
    suppressing,   \* epoch whose backend traffic is being discarded, or None
    txn_status,    \* status of the last ReadyForQuery seen
    generation,    \* Policy::generation(), moved by refreshes and reloads
    db,            \* the backend
    wire,          \* the backend's replies, not yet read by the proxy
    sent,          \* messages the client has sent
    open,          \* what the client is in: an unsynced exchange, a query or neither
    owed,          \* ReadyForQuery messages the client waits for
    limited,       \* rate-limit refusals so far
    delivered      \* what the last step gave the client, where a property is about it

vars == << scenario, plans, suppressing, txn_status, generation, db,
           wire, sent, open, owed, limited, delivered >>

Init ==
    /\ scenario \in Scenarios
    /\ plans = Default
    /\ suppressing = None
    /\ txn_status = "I"
    /\ generation = 0
    /\ db = FreshBackend
    /\ wire = << >>
    /\ sent = 0
    /\ open = "none"
    /\ owed = 0
    /\ limited = 0
    /\ delivered = None

-----------------------------------------------------------------------------
(* The client.                                                             *)

\* No Describe of the target is still to be answered.
Settled(target) ==
    \A i \in DOMAIN plans.pending_descriptions :
        LET d == plans.pending_descriptions[i]
        IN  d.kind = "describe" => d.target # target

\* No Parse of the statement in an earlier exchange is still to be answered.
Parsed(statement) ==
    \A i \in DOMAIN plans.pending_parses :
        plans.pending_parses[i].name = statement =>
            plans.pending_parses[i].epoch = plans.sync_epoch

\* The client has been told that its exchange failed: by the proxy, which
\* swallows the rest of it, or by the backend, which skips the rest of it.
ErrorSeen ==
    \/ suppressing # None
    \/ db.skipping /\ \A i \in DOMAIN wire : wire[i].tag # "ErrorResponse"

\* The portal has a plan or one is on its way.
Described(portal) ==
    \/ plans.portal_plans[portal] # None
    \/ ~Settled([kind |-> "portal", name |-> portal])
    \/ ~Settled([kind |-> "statement", name |-> plans.portal_statement[portal]])

\* Each habit says what the client does not send, or not yet.
Keeps(habit, m) ==
    CASE habit = "awaits_ready" -> owed = 0
      [] habit = "query_alone" ->
            open # "query" /\ (m.tag = "Query" => open = "none" /\ owed = 0)
      [] habit = "heeds_errors" -> ErrorSeen => m.tag = "Sync"
      [] habit = "settled_names" ->
            /\ m.tag = "Parse" =>
                Settled([kind |-> "statement", name |-> m.name]) /\ BoundTo(plans, m.name) = {}
            /\ m.tag = "Bind" =>
                Settled([kind |-> "portal", name |-> m.portal]) /\ Parsed(m.statement)
            /\ m.tag = "Describe" /\ m.target.kind = "statement" => Parsed(m.target.name)
      [] habit = "fetches_in_turn" ->
            m.tag = "Execute" => (IsResume(plans, m.portal) => plans.suspended)
      [] habit = "drains_portals" ->
            m.tag = "Query" /\ Kind[m.sql] \in {"begin", "commit", "utility"} => ~plans.suspended
      [] habit = "executes_bound" ->
            m.tag = "Execute" => db.skipping \/ db.portals[m.portal] # None
      [] habit = "executes_described" -> m.tag = "Execute" => Described(m.portal)
      [] habit = "describes_last" ->
            m.tag # "Sync" => \A i \in DOMAIN plans.pending_descriptions :
                                plans.pending_descriptions[i].kind # "describe"
      [] habit = "parses_first" ->
            m.tag = "Parse" =>
                plans.pending_descriptions = << >> /\ plans.pending_executes = << >>

ClientMay(m) ==
    /\ sent < MaxMessages[scenario]
    /\ m \in Menu[scenario]
    /\ \A habit \in Manners[scenario] : Keeps(habit, m)

\* Bookkeeping of a message the client sent; ready counts the ReadyForQuery
\* it now waits for, less those the proxy answered by itself.
Sends(m, ready) ==
    /\ sent' = sent + 1
    /\ open' = IF m.tag = "Sync" \/ (m.tag = "Query" /\ ready = 0)
               THEN "none"
               ELSE IF m.tag = "Query" THEN "query" ELSE "exchange"
    /\ owed' = owed + ready
    /\ UNCHANGED scenario

-----------------------------------------------------------------------------
(* handle_frontend.                                                        *)

\* sync_policy, which every frontend message starts with.
Synced == InvalidateIfStale(plans, generation)

\* The message goes to the backend, whose rows are dated with the policy
\* generation of the request they answer.
Forward(m, ps) ==
    LET answer == Serve(db, m)
        Dated(r) == IF r.tag = "DataRow" THEN [r EXCEPT !.since = generation] ELSE r
    IN  /\ plans' = ps
        /\ db' = answer.db
        /\ wire' = wire \o [i \in DOMAIN answer.replies |-> Dated(answer.replies[i])]
        /\ delivered' = None
        /\ UNCHANGED << suppressing, txn_status, generation >>

\* Mutant: the synthesised ReadyForQuery always says idle.
RefuseClaimingIdle(m) ==
    /\ plans' = Synced
    /\ delivered' = IF m.tag = "Query" THEN [synthesised |-> "I", actual |-> db.txn] ELSE None
    /\ UNCHANGED << suppressing, txn_status, generation, db, wire >>

\* A message the proxy answers by itself and does not forward; a refused
\* Query is also given a ReadyForQuery with the last status seen.
Refuse(m) ==
    /\ plans' = Synced
    /\ delivered' = IF m.tag = "Query"
                    THEN [synthesised |-> txn_status, actual |-> db.txn]
                    ELSE None
    /\ UNCHANGED << suppressing, txn_status, generation, db, wire >>

Gated(sql) == << sql, generation >> \in GateRefuses[scenario]

FrontendQuery(m) ==
    /\ m.tag = "Query"
    /\ ClientMay(m)
    /\ LET sql == IF m.sql \in Decodable THEN m.sql ELSE None
       IN  \/ /\ sql # None /\ Gated(sql)
              /\ Refuse(m)
              /\ Sends(m, 0)
              /\ UNCHANGED limited
           \/ /\ ~(sql # None /\ Gated(sql))
              /\ limited < MaxLimited[scenario]
              /\ limited' = limited + 1
              /\ Refuse(m)
              /\ Sends(m, 0)
           \/ /\ ~(sql # None /\ Gated(sql))
              /\ Forward(m, BeginSimpleQuery(Synced, sql))
              /\ Sends(m, 1)
              /\ UNCHANGED limited

FrontendParse(m) ==
    /\ m.tag = "Parse"
    /\ ClientMay(m)
    /\ \/ m.sql \in Decodable /\ Gated(m.sql) /\ Refuse(m)
       \/ m.sql \in Decodable /\ ~Gated(m.sql) /\ Forward(m, ParseStatement(Synced, m.name, m.sql))
       \/ m.sql \notin Decodable /\ Forward(m, Synced)
    /\ Sends(m, 0)
    /\ UNCHANGED limited

FrontendBind(m) ==
    /\ m.tag = "Bind"
    /\ ClientMay(m)
    /\ Forward(m, Bind(Synced, m.portal, m.statement, m.formats))
    /\ Sends(m, 0)
    /\ UNCHANGED limited

FrontendDescribe(m) ==
    /\ m.tag = "Describe"
    /\ ClientMay(m)
    /\ Forward(m, Describe(Synced, m.target))
    /\ Sends(m, 0)
    /\ UNCHANGED limited

FrontendClose(m) ==
    /\ m.tag = "Close"
    /\ ClientMay(m)
    /\ Forward(m, Close(Synced, m.target))
    /\ Sends(m, 0)
    /\ UNCHANGED limited

FrontendExecute(m) ==
    /\ m.tag = "Execute"
    /\ ClientMay(m)
    /\ LET sql == SqlForPortal(Synced, m.portal)
       IN  \/ /\ sql # None /\ Gated(sql)
              /\ Refuse(m)
              /\ UNCHANGED limited
           \/ /\ ~(sql # None /\ Gated(sql))
              /\ limited < MaxLimited[scenario]
              /\ limited' = limited + 1
              /\ Refuse(m)
           \/ /\ ~(sql # None /\ Gated(sql))
              /\ Forward(m, Execute(Synced, m.portal))
              /\ UNCHANGED limited
    /\ Sends(m, 0)

FrontendSync(m) ==
    /\ m.tag = "Sync"
    /\ ClientMay(m)
    /\ Forward(m, Sync(Synced))
    /\ Sends(m, 1)
    /\ UNCHANGED limited

HandleFrontend ==
    \E m \in Menu[scenario] :
        \/ FrontendQuery(m)
        \/ FrontendParse(m)
        \/ FrontendBind(m)
        \/ FrontendDescribe(m)
        \/ FrontendClose(m)
        \/ FrontendExecute(m)
        \/ FrontendSync(m)

-----------------------------------------------------------------------------
(* handle_backend.                                                         *)

\* The proxy reads a reply of this kind; while an exchange is suppressed only
\* Suppressed and ReadyForQuery read.
Reads(tag) ==
    /\ wire # << >>
    /\ Head(wire).tag = tag
    /\ suppressing = None
    /\ wire' = Tail(wire)
    /\ UNCHANGED << scenario, generation, db, sent, open, limited >>

\* reject: refuse the result in flight and swallow the rest of its exchange.
Reject(ps) ==
    /\ suppressing' = RejectionEpoch(ps)
    /\ plans' = ClearActive(ps)
    /\ delivered' = None
    /\ UNCHANGED << txn_status, owed >>

\* An arm that updates the plan state and forwards the message.
Relays(ps) ==
    /\ plans' = ps
    /\ delivered' = None
    /\ UNCHANGED << suppressing, txn_status, owed >>

\* Mutant: the end of the exchange is swallowed with its rows.
SuppressedToTheEnd ==
    /\ suppressing # None
    /\ wire # << >>
    /\ wire' = Tail(wire)
    /\ suppressing' = IF Head(wire).tag = "ReadyForQuery" THEN None ELSE suppressing
    /\ delivered' = None
    /\ UNCHANGED << scenario, plans, txn_status, generation, db, sent, open, owed, limited >>

Suppressed ==
    /\ suppressing # None
    /\ wire # << >>
    /\ Head(wire).tag # "ReadyForQuery"
    /\ wire' = Tail(wire)
    /\ delivered' = None
    /\ UNCHANGED << scenario, plans, suppressing, txn_status, generation, db, sent, open, owed,
                    limited >>

BackendReady ==
    /\ wire # << >>
    /\ Head(wire).tag = "ReadyForQuery"
    /\ wire' = Tail(wire)
    /\ txn_status' = Head(wire).status
    /\ suppressing' = None
    /\ plans' = IF suppressing # None
                THEN FinishSuppressedEpoch(plans, suppressing)
                ELSE ReadyForQuery(plans, Head(wire).status)
    /\ owed' = owed - 1
    /\ open' = IF open = "query" /\ owed = 1 THEN "none" ELSE open
    /\ delivered' = None
    /\ UNCHANGED << scenario, generation, db, sent, limited >>

\* handle_row_description: one plan from the described fields, the text at the
\* head of the queue and the policy of this moment.
PlanFor(ps, rd) ==
    [fields |-> rd.fields, text |-> DescribedSql(ps),
     generation |-> generation, format |-> rd.format]

BackendRowDescription ==
    /\ Reads("RowDescription")
    /\ IF << Head(wire).fields, generation >> \in PlanRefuses[scenario]
       THEN Reject(DiscardDescription(Synced))
       ELSE IF plans.pending_descriptions = << >>
       THEN Reject(Synced)
       ELSE Relays(FinishDescription(Synced, PlanFor(Synced, Head(wire))))

\* handle_data_row.
BackendDataRow ==
    /\ Reads("DataRow")
    /\ LET row == Head(wire)
           plan == StreamingPlan(plans)
       IN  IF \/ plan = None
              \/ Arity[plan.fields] # Arity[row.fields]
              \/ row.fields \in MaskRefuses[scenario]
           THEN Reject(plans)
           ELSE /\ delivered' = [row |-> row, plan |-> plan]
                /\ UNCHANGED << plans, suppressing, txn_status, owed >>

BackendParseComplete == Reads("ParseComplete") /\ Relays(FinishParse(plans))

BackendBindComplete == Reads("BindComplete") /\ Relays(FinishBind(plans))

BackendCloseComplete == Reads("CloseComplete") /\ Relays(plans)

BackendCommandComplete == Reads("CommandComplete") /\ Relays(FinishResultSet(plans))

BackendPortalSuspended == Reads("PortalSuspended") /\ Relays(SuspendResult(plans))

BackendErrorResponse == Reads("ErrorResponse") /\ Relays(DiscardFailedEpoch(plans))

BackendNoData ==
    /\ Reads("NoData")
    /\ IF HeadIs(plans, "describe") THEN Relays(FinishNoData(plans)) ELSE Reject(plans)

BackendEmptyQueryResponse ==
    /\ Reads("EmptyQueryResponse")
    /\ IF HeadIs(plans, "simple") THEN Relays(FinishEmptyQuery(plans)) ELSE Reject(plans)

HandleBackend ==
    \/ Suppressed
    \/ BackendReady
    \/ BackendRowDescription
    \/ BackendDataRow
    \/ BackendParseComplete
    \/ BackendBindComplete
    \/ BackendCloseComplete
    \/ BackendCommandComplete
    \/ BackendPortalSuspended
    \/ BackendErrorResponse
    \/ BackendNoData
    \/ BackendEmptyQueryResponse

\* A catalog refresh or a configuration reload elsewhere in the process.
PolicyMoves ==
    /\ generation < MaxGeneration[scenario]
    /\ generation' = generation + 1
    /\ delivered' = None
    /\ UNCHANGED << scenario, plans, suppressing, txn_status, db, wire, sent, open, owed,
                    limited >>

Next == HandleFrontend \/ HandleBackend \/ PolicyMoves

Spec == Init /\ [][Next]_vars

-----------------------------------------------------------------------------
(* Properties.                                                             *)

\* The type invariant of the plan state, the handlers and the backend.
TypeOK ==
    /\ scenario \in Scenarios
    /\ plans \in State
    /\ suppressing \in Option(Nat)
    /\ txn_status \in {"I", "T", "E"}
    /\ generation \in Nat
    /\ db \in BackendState
    /\ wire \in Seq(Reply)
    /\ sent \in Nat
    /\ open \in {"none", "exchange", "query"}
    /\ owed \in Int
    /\ limited \in Nat

Row(d) == d # None /\ "row" \in DOMAIN d

\* Every row the client is given was judged by a plan built from the
\* description of the very result it belongs to and under that result's own
\* text: streaming_plan never attributes a row to another statement.
RowsJudgedByOwnPlan ==
    Row(delivered) =>
        /\ delivered.plan.fields = delivered.row.fields
        /\ delivered.plan.text \in {delivered.row.text, None}

\* A row is decoded in the format its portal was bound with, although the
\* plan may come from a statement-level Describe, which reports text.
RowsDecodedInBoundFormat ==
    Row(delivered) => delivered.plan.format = delivered.row.format

\* A row is never judged by a plan older than the request it answers: a
\* refresh or reload the proxy has seen reaches every later Execute.
RowsJudgedUnderCurrentPolicy ==
    Row(delivered) => delivered.plan.generation >= delivered.row.since

\* The client has nothing outstanding and every answer has been read.
Quiescent == wire = << >> /\ owed = 0 /\ open = "none"

\* When the connection is quiescent no slot of a dead exchange is left for a
\* later answer to be attributed to.  Only a portal paused inside a
\* transaction block keeps its slot.
NoZombieSlots ==
    Quiescent =>
        /\ suppressing = None
        /\ plans.pending_descriptions = << >>
        /\ plans.pending_parses = << >>
        /\ plans.pending_binds = << >>
        /\ \/ plans.pending_executes = << >>
           \/ Len(plans.pending_executes) = 1 /\ plans.suspended /\ db.txn = "T"

\* When the connection is quiescent the proxy and the backend agree on what
\* each prepared statement they both know stands for, so a cached plan is the
\* plan of the text the backend would run.
NamesAgree ==
    Quiescent =>
        \A s \in Statements : db.statements[s] # None =>
            /\ plans.statement_sql[s] \in {None, db.statements[s]}
            /\ plans.statement_plans[s] # None =>
                plans.statement_plans[s].fields = Head(Results[db.statements[s]])

\* The queues the backend's answers are matched against keep the order of the
\* requests: epochs never fall along a queue nor pass the current one, the
\* Executes keep the order in which they were sent, and only a lone Execute is
\* ever paused, so that moving its epoch on resume keeps the order.
QueuesInOrder == Ordered(plans)

\* A binding never gets a generation that an unfinished Execute of the same
\* portal name still holds, although parse may have reset the counter under
\* that Execute: bump_bind_generation skips it.  Otherwise the Execute of the
\* old binding would take the new binding's plan.
RebindsAreFresh ==
    [][\A p \in Portals :
          plans'.portal_bind_generations[p] > plans.portal_bind_generations[p] =>
              plans'.portal_bind_generations[p] \notin HeldGenerations(plans, p)]_vars

\* The ReadyForQuery synthesised for a refused Query carries the backend's
\* transaction status, which the client steers by.
SyntheticReadyIsTrue ==
    delivered # None /\ "synthesised" \in DOMAIN delivered =>
        delivered.synthesised = delivered.actual

\* What the proxy refuses stays with the exchange it refused: the rows of no
\* other result are judged by what reject leaves armed, and once everything is
\* answered nothing of the swallowed exchange is left to attribute to.
RefusalsAreContained == RowsJudgedByOwnPlan /\ NoZombieSlots

\* A client that has asked for a ReadyForQuery gets it, whatever the proxy
\* refused on the way: reject swallows the rows and not the end of the
\* exchange.
ReadyArrives == open = "none" /\ owed > 0 ~> owed = 0
=============================================================================
