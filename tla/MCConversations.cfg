SPECIFICATION MCSpec
CONSTANTS
    None = None
    Statements <- MCStatements
    Portals <- MCPortals
    Sqls <- MCSqls
    Formats <- MCFormats
    UnnamedStatement = "s0"
    UnnamedPortal = "p0"
    Kind <- MCKind
    Results <- MCResults
    Arity <- MCArity
    Decodable <- MCDecodable
    Scenarios = {"cold", "rebind", "suspend", "errors", "policy", "pipeline", "pipeline_errors", "pipeline_suspend",
        "reparse", "prepare"}
    GateRefuses <- MCGateRefuses
    PlanRefuses <- MCPlanRefuses
    MaskRefuses <- MCMaskRefuses
    Menu <- MCMenu
    Manners <- MCManners
    MaxMessages <- MCMaxMessages
    MaxGeneration <- MCMaxGeneration
    MaxLimited <- MCMaxLimited
INVARIANTS
    TypeOK
    QueuesInOrder
    RowsJudgedByOwnPlan
    RowsDecodedInBoundFormat
    RowsJudgedUnderCurrentPolicy
    NoZombieSlots
    NamesAgree
PROPERTIES
    RebindsAreFresh
CHECK_DEADLOCK FALSE
