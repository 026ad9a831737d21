------------------------------ MODULE MCSession ------------------------------
(* Instances of Session for TLC: the texts, the menus and the warm start.  *)
EXTENDS Session

MCStatements == {"s0", "s1"}
MCPortals == {"p0", "p1"}
MCSqls == {"A", "B", "AB", "bad", "div", "begin", "commit", "empty", "raw"}
MCFormats == {"text", "binary"}

MCKind ==
    [sql \in MCSqls |->
        IF sql \in {"A", "B", "AB", "raw"} THEN "rows"
        ELSE IF sql = "bad" THEN "parse_error"
        ELSE IF sql = "div" THEN "run_error"
        ELSE sql]

MCResults ==
    [sql \in MCSqls |->
        IF sql = "AB" THEN << "A", "B" >>
        ELSE IF sql \in {"A", "B", "div", "raw"} THEN << sql >>
        ELSE << >>]

MCArity == [sql \in MCSqls |-> 1]
MCDecodable == MCSqls \ {"raw"}

S(name) == [kind |-> "statement", name |-> name]
P(name) == [kind |-> "portal", name |-> name]
QueryM(sql) == [tag |-> "Query", sql |-> sql]
ParseM(name, sql) == [tag |-> "Parse", name |-> name, sql |-> sql]
BindM(portal, statement, formats) ==
    [tag |-> "Bind", portal |-> portal, statement |-> statement, formats |-> formats]
DescribeM(target) == [tag |-> "Describe", target |-> target]
CloseM(target) == [tag |-> "Close", target |-> target]
ExecuteM(portal) == [tag |-> "Execute", portal |-> portal, limited |-> FALSE]
FetchM(portal) == [tag |-> "Execute", portal |-> portal, limited |-> TRUE]
SyncM == [tag |-> "Sync"]

-----------------------------------------------------------------------------
(* A client that has prepared and described one statement per text, each   *)
(* in an exchange of its own that has been answered.                       *)

PlanOf(sql) == [fields |-> sql, text |-> sql, generation |-> 0, format |-> "text"]

Prepare(ps, name, sql) ==
    Sync(FinishDescription(FinishParse(Describe(ParseStatement(ps, name, sql), S(name))),
                           PlanOf(sql)))

Warm ==
    /\ scenario \in Scenarios \ {"cold"}
    /\ plans = Prepare(Prepare(Default, "s0", "A"), "s1", "B")
    /\ suppressing = None
    /\ txn_status = "I"
    /\ generation = 0
    /\ db = [FreshBackend EXCEPT !.statements = [s0 |-> "A", s1 |-> "B"]]
    /\ wire = << >>
    /\ sent = 0
    /\ open = "none"
    /\ owed = 0
    /\ limited = 0
    /\ delivered = None

Start == (Init /\ scenario = "cold") \/ Warm

MCSpec == Start /\ [][Next]_vars

MCFairSpec == MCSpec /\ WF_vars(HandleBackend)

-----------------------------------------------------------------------------
(* The menus, one per question.                                            *)

\* From nothing: prepare, describe, bind in another format, run.
ColdMenu ==
    {ParseM("s0", "A"), ParseM("s0", "B"), ParseM("s0", "begin"), DescribeM(S("s0")),
     DescribeM(P("p0")), BindM("p0", "s0", "binary"), ExecuteM("p0"), CloseM(S("s0")), SyncM}

\* One portal name bound again and again, with closes between.
RebindMenu ==
    {BindM("p0", "s0", "text"), BindM("p0", "s1", "binary"), ExecuteM("p0"),
     CloseM(P("p0")), CloseM(S("s1")), DescribeM(P("p0")), DescribeM(S("s0")), SyncM}

\* The same with another portal in flight.
PipelineMenu == RebindMenu \cup {BindM("p1", "s1", "text"), ExecuteM("p1")}

\* Limited Executes of two portals inside and outside a transaction.
SuspendMenu ==
    {BindM("p0", "s0", "text"), BindM("p1", "s1", "text"), ExecuteM("p1"),
     FetchM("p0"), FetchM("p1"), QueryM("begin"), QueryM("commit"), QueryM("div"), SyncM}

\* Simple queries of every kind among extended exchanges.
QueryMenu ==
    {QueryM(sql) : sql \in {"A", "AB", "bad", "div", "begin", "commit", "empty", "raw"}}
      \cup {BindM("p1", "s1", "text"), ExecuteM("p1"), DescribeM(P("p1")), SyncM}

\* Rejected statements and names that do not exist.
ErrorMenu ==
    {ParseM("s0", "bad"), BindM("p0", "s0", "text"), BindM("p1", "s1", "text"),
     DescribeM(S("s0")), DescribeM(P("p1")), ExecuteM("p0"), ExecuteM("p1"), SyncM}

\* Results the proxy refuses among results it serves.
RefusalMenu ==
    {BindM("p0", "s0", "text"), BindM("p1", "s1", "text"), DescribeM(S("s0")),
     DescribeM(P("p1")), ExecuteM("p0"), ExecuteM("p1"), FetchM("p0"), QueryM("A"),
     QueryM("B"), SyncM}

\* Cached plans across a policy change.
PolicyMenu ==
    {BindM("p0", "s0", "text"), BindM("p1", "s1", "binary"), DescribeM(S("s0")),
     DescribeM(P("p1")), ParseM("s0", "A"), ExecuteM("p0"), ExecuteM("p1"), QueryM("A"),
     SyncM}

\* A statement prepared again under a portal whose Execute is unanswered.
ReparseMenu ==
    {ParseM("s0", "B"), BindM("p0", "s0", "text"), ExecuteM("p0"), SyncM}

\* Statements prepared among results that are refused.
PrepareMenu ==
    {ParseM("s0", "B"), ParseM("s1", "A"), BindM("p0", "s0", "binary"), DescribeM(S("s0")),
     DescribeM(P("p0")), ExecuteM("p0"), CloseM(S("s0")), SyncM}

-----------------------------------------------------------------------------
(* The scenarios.  A client that waits for each answer keeps the first set *)
(* of habits, one that pipelines the second.                               *)

WaitsItsTurn ==
    {"awaits_ready", "query_alone", "heeds_errors", "settled_names", "fetches_in_turn",
     "drains_portals"}

Pipelines ==
    (WaitsItsTurn \ {"awaits_ready"}) \cup {"executes_bound", "executes_described"}

MCMenu ==
    [x \in Scenarios |->
        CASE x = "cold" -> ColdMenu
          [] x = "rebind" -> RebindMenu
          [] x = "pipeline" -> PipelineMenu
          [] x \in {"suspend", "pipeline_suspend"} -> SuspendMenu
          [] x \in {"query", "query_pipelined"} -> QueryMenu
          [] x \in {"errors", "pipeline_errors", "fails_late"} -> ErrorMenu
          [] x \in {"refusal", "refused_late"} -> RefusalMenu
          [] x = "policy" -> PolicyMenu
          [] x \in {"prepare", "refused_names"} -> PrepareMenu
          [] x = "reparse" -> ReparseMenu]

MCManners ==
    [x \in Scenarios |->
        CASE x \in {"rebind", "suspend", "query", "errors", "policy", "refused_late",
                   "refused_names"} -> WaitsItsTurn
          [] x = "cold" -> WaitsItsTurn \cup {"executes_described"}
          [] x = "refusal" -> WaitsItsTurn \cup {"describes_last"}
          [] x = "prepare" -> WaitsItsTurn \cup {"describes_last", "parses_first"}
          [] x \in {"pipeline", "pipeline_suspend", "pipeline_errors"} -> Pipelines
          [] x = "reparse" -> Pipelines \ {"settled_names"}
          [] x = "fails_late" -> WaitsItsTurn \ {"awaits_ready"}
          [] x = "query_pipelined" -> Pipelines \ {"query_alone"}]

MCMaxMessages ==
    [x \in Scenarios |->
        CASE x = "suspend" -> 8
          [] x \in {"cold", "pipeline_suspend"} -> 7
          [] x = "policy" -> 5
          [] OTHER -> 6]

\* A reload tightens the policy so that A is gated.
MCGateRefuses == [x \in Scenarios |-> IF x = "policy" THEN {<< "A", 1 >>} ELSE {}]

MCPlanRefuses ==
    [x \in Scenarios |->
        CASE x \in {"refusal", "refused_late"} -> {<< "A", 0 >>}
          [] x = "prepare" -> {<< "B", 0 >>}
          [] OTHER -> {}]

MCMaskRefuses ==
    [x \in Scenarios |->
        CASE x = "refusal" -> {"B"}
          [] x \in {"prepare", "refused_names"} -> {"A"}
          [] OTHER -> {}]

MCMaxGeneration == [x \in Scenarios |-> IF x = "policy" THEN 1 ELSE 0]

MCMaxLimited == [x \in Scenarios |-> IF x \in {"query", "refusal"} THEN 1 ELSE 0]
=============================================================================
