------------------------------ MODULE PlanState ------------------------------
(***************************************************************************)
(* The statement, portal and result bookkeeping of one proxied connection  *)
(* (crates/proxy/src/plan_state.rs).  A masking plan is built when the     *)
(* backend describes a result; this state decides which plan governs which *)
(* later DataRow.  Every method of PlanState is an operator from a state   *)
(* record to a state record, so that a session handler, which calls        *)
(* several of them, is one composed step.                                  *)
(*                                                                         *)
(* A plan is abstracted to where it came from: the result whose            *)
(* RowDescription it was computed from, the SQL text it was judged under,  *)
(* the policy generation it was computed against and the wire format it    *)
(* decodes.  SQL texts, names and formats are atoms.                       *)
(***************************************************************************)
EXTENDS Integers, FiniteSets, Sequences

CONSTANTS
    Statements,   \* prepared statement names, the unnamed one included
    Portals,      \* portal names, the unnamed one included
    Sqls,         \* SQL texts
    Formats,      \* wire formats a Bind can choose
    None          \* an absent map entry or option

ASSUME NoneAssumption ==
    /\ None \notin Statements
    /\ None \notin Portals
    /\ None \notin Sqls
    /\ None \notin Formats
    /\ None \notin Nat

Option(S) == S \cup {None}

Plan ==
    [fields: Sqls, text: Option(Sqls), generation: Nat, format: Formats]

Target ==
    [kind: {"statement"}, name: Statements] \cup [kind: {"portal"}, name: Portals]

PendingDescribe ==
    [kind: {"describe"}, target: Target, sql: Option(Sqls), epoch: Nat]

PendingSimple ==
    [kind: {"simple"}, sql: Option(Sqls), epoch: Nat, order: Nat]

PendingParse == [name: Statements, epoch: Nat]

PendingBind == [name: Portals, epoch: Nat]

PendingExecute ==
    [name: Portals, epoch: Nat, order: Nat, plan: Option(Plan), bind_generation: Nat]

\* A map is a total function that sends an absent key to None.
State ==
    [statement_plans: [Statements -> Option(Plan)],
     statement_sql: [Statements -> Option(Sqls)],
     portal_statement: [Portals -> Option(Statements)],
     portal_plans: [Portals -> Option(Plan)],
     portal_formats: [Portals -> Option(Formats)],
     portal_bind_generations: [Portals -> Nat],
     active_plan: Option(Plan),
     active_portal: Option(Portals),
     active_epoch: Option(Nat),
     pending_descriptions: Seq(PendingDescribe \cup PendingSimple),
     pending_parses: Seq(PendingParse),
     pending_binds: Seq(PendingBind),
     pending_executes: Seq(PendingExecute),
     suspended: BOOLEAN,
     streaming_simple_result: BOOLEAN,
     sync_epoch: Nat,
     next_result_order: Nat,
     generation: Nat]

Default ==
    [statement_plans |-> [s \in Statements |-> None],
     statement_sql |-> [s \in Statements |-> None],
     portal_statement |-> [p \in Portals |-> None],
     portal_plans |-> [p \in Portals |-> None],
     portal_formats |-> [p \in Portals |-> None],
     portal_bind_generations |-> [p \in Portals |-> 0],
     active_plan |-> None,
     active_portal |-> None,
     active_epoch |-> None,
     pending_descriptions |-> << >>,
     pending_parses |-> << >>,
     pending_binds |-> << >>,
     pending_executes |-> << >>,
     suspended |-> FALSE,
     streaming_simple_result |-> FALSE,
     sync_epoch |-> 0,
     next_result_order |-> 0,
     generation |-> 0]

-----------------------------------------------------------------------------
(* Helpers.                                                                *)

\* pop_front on a VecDeque: nothing happens when it is empty.
PopFront(queue) == IF queue = << >> THEN queue ELSE Tail(queue)

\* retain on a VecDeque: the entries at the kept positions, in queue order.
\* The i-th of them is named by its rank, which unlike SelectSeq is defined
\* without recursion and can be reasoned about.
Rank(kept, k) == Cardinality({j \in kept : j <= k})

Retain(queue, kept) ==
    [i \in 1 .. Cardinality(kept) |-> queue[CHOOSE k \in kept : Rank(kept, k) = i]]

\* Mutant: the epoch's entries are kept.
KeepsEpoch(queue, epoch) == queue

OtherEpochs(queue, epoch) ==
    Retain(queue, {i \in DOMAIN queue : queue[i].epoch # epoch})

\* Mutant: a failed exchange's names survive it.
DiedWithNothing(queue, failed) == {}

\* The names a queue's failed epoch touched and no later epoch did.
DiedWith(queue, failed) ==
    {queue[i].name : i \in {j \in DOMAIN queue : queue[j].epoch = failed}}
      \ {queue[i].name : i \in {j \in DOMAIN queue : queue[j].epoch > failed}}

BoundTo(ps, statement) ==
    {p \in Portals : ps.portal_statement[p] = statement}

\* Mutant: the formats of the Bind are forgotten.
StampNothing(plan, formats) == plan

Stamp(plan, formats) ==
    IF formats = None THEN plan ELSE [plan EXCEPT !.format = formats]

SqlForPortal(ps, portal) ==
    LET statement == ps.portal_statement[portal]
    IN  IF statement = None THEN None ELSE ps.statement_sql[statement]

\* The generations unfinished Executes of a portal name still hold.
HeldGenerations(ps, portal) ==
    {ps.pending_executes[i].bind_generation :
        i \in {j \in DOMAIN ps.pending_executes : ps.pending_executes[j].name = portal}}

\* Mutant: every binding of a name looks like the last one.
UnbumpedGeneration(ps, portal) == ps.portal_bind_generations[portal]

\* Mutant: the counter's successor, whoever holds it.
NextGeneration(ps, portal) == ps.portal_bind_generations[portal] + 1

\* The counter's successor, skipping every generation that is still held.
BumpedGeneration(ps, portal) ==
    LET first == ps.portal_bind_generations[portal] + 1
        free == (first .. first + Len(ps.pending_executes)) \ HeldGenerations(ps, portal)
    IN  CHOOSE n \in free : \A m \in free : n <= m

IsResume(ps, portal) ==
    /\ ps.pending_executes # << >>
    /\ Head(ps.pending_executes).name = portal
    /\ Head(ps.pending_executes).bind_generation = ps.portal_bind_generations[portal]

\* install_portal_plan for every portal of a set, planOf giving each its plan:
\* unfinished Executes of the current binding that have no plan yet take it.
InstallPortalPlans(ps, portals, planOf) ==
    LET Filled(e) ==
            IF /\ e.name \in portals
               /\ e.bind_generation = ps.portal_bind_generations[e.name]
               /\ e.plan = None
            THEN [e EXCEPT !.plan = planOf[e.name]]
            ELSE e
    IN  [ps EXCEPT
            !.pending_executes = [i \in DOMAIN @ |-> Filled(@[i])],
            !.portal_plans =
                [p \in Portals |-> IF p \in portals THEN planOf[p] ELSE @[p]]]

\* The order the fuzzer's oracle relies on (plan_state_fuzz.rs): a queue's
\* epochs never fall, and none is ahead of the client's.
InEpochOrder(queue, latest) ==
    \A i, j \in DOMAIN queue :
        i <= j => queue[i].epoch <= queue[j].epoch /\ queue[j].epoch <= latest

InResultOrder(queue, next) ==
    \A i, j \in DOMAIN queue :
        /\ queue[i].order < next
        /\ i < j => queue[i].order < queue[j].order

Ordered(ps) ==
    /\ InEpochOrder(ps.pending_descriptions, ps.sync_epoch)
    /\ InEpochOrder(ps.pending_parses, ps.sync_epoch)
    /\ InEpochOrder(ps.pending_binds, ps.sync_epoch)
    /\ InEpochOrder(ps.pending_executes, ps.sync_epoch)
    /\ InResultOrder(ps.pending_executes, ps.next_result_order)
    /\ ps.suspended => Len(ps.pending_executes) <= 1

-----------------------------------------------------------------------------
(* Calls made for frontend messages.                                       *)

\* Mutant: only the statements' plans are dropped.
InvalidateStatementsOnly(ps, current) ==
    IF ps.generation = current
    THEN ps
    ELSE [ps EXCEPT !.generation = current, !.statement_plans = [s \in Statements |-> None]]

InvalidateIfStale(ps, current) ==
    IF ps.generation = current
    THEN ps
    ELSE [ps EXCEPT !.generation = current,
                    !.statement_plans = [s \in Statements |-> None],
                    !.portal_plans = [p \in Portals |-> None]]

ClearActive(ps) == [ps EXCEPT !.active_plan = None, !.active_epoch = None]

BeginSimpleQuery(ps, sql) ==
    [ClearActive(ps) EXCEPT
        !.next_result_order = @ + 1,
        !.pending_descriptions =
            Append(@, [kind |-> "simple", sql |-> sql,
                       epoch |-> ps.sync_epoch, order |-> ps.next_result_order])]

ParseStatement(ps, name, sql) ==
    LET stale == IF ps.statement_sql[name] = sql THEN {} ELSE BoundTo(ps, name)
    IN  [ps EXCEPT
            !.statement_plans[name] = IF ps.statement_sql[name] = sql THEN @ ELSE None,
            !.portal_plans = [p \in Portals |-> IF p \in stale THEN None ELSE @[p]],
            !.portal_formats = [p \in Portals |-> IF p \in stale THEN None ELSE @[p]],
            !.portal_bind_generations = [p \in Portals |-> IF p \in stale THEN 0 ELSE @[p]],
            !.statement_sql[name] = sql,
            !.pending_parses = Append(@, [name |-> name, epoch |-> ps.sync_epoch])]

Bind(ps, portal, statement, formats) ==
    LET bound ==
            [ps EXCEPT
                !.portal_statement[portal] = statement,
                !.pending_binds = Append(@, [name |-> portal, epoch |-> ps.sync_epoch]),
                !.portal_formats[portal] = formats,
                !.portal_bind_generations[portal] = BumpedGeneration(ps, portal)]
        plan == ps.statement_plans[statement]
    IN  IF plan = None
        THEN [bound EXCEPT !.portal_plans[portal] = None]
        ELSE InstallPortalPlans(bound, {portal}, [p \in {portal} |-> Stamp(plan, formats)])

Describe(ps, target) ==
    LET sql == IF target.kind = "statement"
               THEN ps.statement_sql[target.name]
               ELSE SqlForPortal(ps, target.name)
    IN  [ps EXCEPT !.pending_descriptions =
            Append(@, [kind |-> "describe", target |-> target,
                       sql |-> sql, epoch |-> ps.sync_epoch])]

QueueExecute(ps, portal) ==
    [ps EXCEPT
        !.next_result_order = @ + 1,
        !.pending_executes =
            Append(@, [name |-> portal, epoch |-> ps.sync_epoch,
                       order |-> ps.next_result_order,
                       plan |-> ps.portal_plans[portal],
                       bind_generation |-> ps.portal_bind_generations[portal]])]

Execute(ps, portal) ==
    LET active == [ps EXCEPT !.active_plan = ps.portal_plans[portal],
                             !.active_epoch = ps.sync_epoch,
                             !.active_portal = portal,
                             !.suspended = FALSE]
    IN  IF IsResume(ps, portal)
        THEN IF ps.suspended
             THEN [active EXCEPT !.pending_executes[1].epoch = ps.sync_epoch]
             ELSE active
        ELSE IF ps.suspended
             THEN QueueExecute([active EXCEPT !.pending_executes = PopFront(@)], portal)
             ELSE QueueExecute(active, portal)

Close(ps, target) ==
    LET closed == IF target.kind = "portal" THEN {target.name} ELSE BoundTo(ps, target.name)
        Without(map) == [p \in Portals |-> IF p \in closed THEN None ELSE map[p]]
        Forget(map) == [s \in Statements |->
            IF target.kind = "statement" /\ s = target.name THEN None ELSE map[s]]
    IN  [ps EXCEPT !.statement_sql = Forget(@),
                   !.statement_plans = Forget(@),
                   !.portal_statement = Without(@),
                   !.portal_plans = Without(@),
                   !.portal_formats = Without(@)]

\* Mutant: the epoch runs backwards.
SyncBackwards(ps) == [ps EXCEPT !.sync_epoch = @ - 1]

Sync(ps) == [ps EXCEPT !.sync_epoch = @ + 1]

-----------------------------------------------------------------------------
(* Calls made for backend messages.                                        *)

FinishParse(ps) == [ps EXCEPT !.pending_parses = PopFront(@)]

FinishBind(ps) ==
    IF ps.pending_binds = << >>
    THEN ps
    ELSE LET portal == Head(ps.pending_binds).name
             statement == ps.portal_statement[portal]
             described == IF statement = None THEN None ELSE ps.statement_plans[statement]
             plan == IF ps.portal_plans[portal] # None
                     THEN ps.portal_plans[portal]
                     ELSE IF described = None
                     THEN None
                     ELSE Stamp(described, ps.portal_formats[portal])
             popped == [ps EXCEPT !.pending_binds = Tail(@)]
         IN  IF plan = None
             THEN popped
             ELSE [InstallPortalPlans(popped, {portal}, [p \in {portal} |-> plan])
                      EXCEPT !.active_plan = IF ps.active_portal = portal THEN plan ELSE @]

\* Mutant: the paused Execute stays at the head whatever is queued behind it.
SuspendResultAlways(ps) == [ps EXCEPT !.suspended = TRUE]

SuspendResult(ps) ==
    IF Len(ps.pending_executes) > 1
    THEN [ps EXCEPT !.pending_executes = Tail(@), !.suspended = FALSE]
    ELSE [ps EXCEPT !.suspended = TRUE]

ReadyForQuery(ps, status) ==
    IF ps.suspended /\ status = "I"
    THEN [ps EXCEPT !.pending_executes = << >>, !.suspended = FALSE,
                    !.active_plan = None, !.active_portal = None, !.active_epoch = None]
    ELSE ps

\* Mutant: the plan of the last Execute, not of the result that streams.
StreamingPlanOfActive(ps) == ps.active_plan

\* The plan that governs the backend's next DataRow, None when it is unknown.
StreamingPlan(ps) ==
    IF ps.streaming_simple_result
    THEN ps.active_plan
    ELSE IF ps.pending_executes = << >>
    THEN IF ps.suspended THEN None ELSE ps.active_plan
    ELSE LET owner == Head(ps.pending_executes)
         IN  IF owner.plan # None
             THEN owner.plan
             ELSE IF owner.bind_generation = ps.portal_bind_generations[owner.name]
             THEN ps.portal_plans[owner.name]
             ELSE None

\* The CommandComplete belongs to a simple query that was never described.
SimpleIsNext(ps) ==
    /\ ps.pending_descriptions # << >>
    /\ Head(ps.pending_descriptions).kind = "simple"
    /\ \/ ps.pending_executes = << >>
       \/ Head(ps.pending_descriptions).order < Head(ps.pending_executes).order

FinishResultSet(ps) ==
    IF ps.streaming_simple_result
    THEN [ps EXCEPT !.streaming_simple_result = FALSE]
    ELSE IF SimpleIsNext(ps)
    THEN [ps EXCEPT !.suspended = FALSE, !.pending_descriptions = Tail(@)]
    ELSE [ps EXCEPT !.suspended = FALSE, !.pending_executes = PopFront(@)]

RejectionEpoch(ps) ==
    IF ps.pending_descriptions # << >>
    THEN Head(ps.pending_descriptions).epoch
    ELSE IF ps.active_epoch # None THEN ps.active_epoch ELSE ps.sync_epoch

FinishSuppressedEpoch(ps, epoch) ==
    [ps EXCEPT !.pending_descriptions = OtherEpochs(@, epoch),
               !.pending_parses = OtherEpochs(@, epoch),
               !.pending_binds = OtherEpochs(@, epoch),
               !.pending_executes = OtherEpochs(@, epoch),
               !.streaming_simple_result = FALSE,
               !.suspended = FALSE]

\* Mutant: an error of an Execute ends no exchange.
FailedEpochsOfDescriptions(ps) ==
    IF ps.pending_descriptions = << >> THEN {} ELSE {Head(ps.pending_descriptions).epoch}

\* The epochs at the heads of the queues whose front an ErrorResponse can end:
\* an Execute's only when nothing else is owed an answer.
FailedEpochs(ps) ==
    LET HeadEpoch(queue) == IF queue = << >> THEN {} ELSE {Head(queue).epoch}
        provisional == HeadEpoch(ps.pending_descriptions) \cup HeadEpoch(ps.pending_parses)
                         \cup HeadEpoch(ps.pending_binds)
    IN  IF provisional # {} THEN provisional ELSE HeadEpoch(ps.pending_executes)

DiscardFailedEpoch(ps) ==
    LET cleared == [ps EXCEPT !.streaming_simple_result = FALSE, !.suspended = FALSE,
                              !.active_plan = None, !.active_portal = None,
                              !.active_epoch = None]
        failed == CHOOSE e \in FailedEpochs(ps) : \A f \in FailedEpochs(ps) : e <= f
        statements == DiedWith(ps.pending_parses, failed)
        portals == DiedWith(ps.pending_binds, failed)
        outliving == {i \in DOMAIN ps.pending_executes :
                        /\ ps.pending_executes[i].epoch # failed
                        /\ ~(ps.suspended /\ ps.pending_executes[i].epoch < failed)}
    IN  IF FailedEpochs(ps) = {}
        THEN cleared
        ELSE [cleared EXCEPT
                !.statement_sql = [s \in Statements |-> IF s \in statements THEN None ELSE @[s]],
                !.statement_plans = [s \in Statements |-> IF s \in statements THEN None ELSE @[s]],
                !.portal_statement = [p \in Portals |-> IF p \in portals THEN None ELSE @[p]],
                !.portal_plans = [p \in Portals |-> IF p \in portals THEN None ELSE @[p]],
                !.pending_descriptions = OtherEpochs(@, failed),
                !.pending_parses = OtherEpochs(@, failed),
                !.pending_binds = OtherEpochs(@, failed),
                !.pending_executes = Retain(@, outliving)]

\* finish_no_data and finish_empty_query are refused unless the head of the
\* queue is a Describe, respectively a simple query.
HeadIs(ps, kind) ==
    ps.pending_descriptions # << >> /\ Head(ps.pending_descriptions).kind = kind

FinishNoData(ps) == [ps EXCEPT !.pending_descriptions = Tail(@)]

FinishEmptyQuery(ps) ==
    [ps EXCEPT !.pending_descriptions = Tail(@), !.streaming_simple_result = FALSE]

DescribedSql(ps) ==
    IF ps.pending_descriptions = << >> THEN None ELSE Head(ps.pending_descriptions).sql

DiscardDescription(ps) == [ps EXCEPT !.pending_descriptions = PopFront(@)]

\* Only called with a description pending; otherwise the session rejects.
FinishDescription(ps, plan) ==
    LET pending == Head(ps.pending_descriptions)
        popped == [ps EXCEPT !.pending_descriptions = Tail(@),
                             !.streaming_simple_result = (pending.kind = "simple"),
                             !.active_plan = plan,
                             !.active_epoch = pending.epoch]
    IN  IF pending.kind = "simple"
        THEN popped
        ELSE IF pending.target.kind = "portal"
        THEN InstallPortalPlans(popped, {pending.target.name},
                                [p \in {pending.target.name} |-> plan])
        ELSE LET waiting == BoundTo(ps, pending.target.name)
             IN  InstallPortalPlans(
                    [popped EXCEPT !.statement_plans[pending.target.name] = plan],
                    waiting,
                    [p \in waiting |-> Stamp(plan, ps.portal_formats[p])])
=============================================================================
