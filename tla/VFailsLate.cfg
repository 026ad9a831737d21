SPECIFICATION MCSpec
CONSTANTS
    None = None
    Statements <- MCStatements
    Portals <- MCPortals
    Sqls <- MCSqls
    Formats <- MCFormats
    UnnamedStatement = "s0"
    UnnamedPortal = "p0"
    Kind <- MCKind
    Results <- MCResults
    Arity <- MCArity
    Decodable <- MCDecodable
    Scenarios = {"fails_late"}
    GateRefuses <- MCGateRefuses
    PlanRefuses <- MCPlanRefuses
    MaskRefuses <- MCMaskRefuses
    Menu <- MCMenu
    Manners <- MCManners
    MaxMessages <- MCMaxMessages
    MaxGeneration <- MCMaxGeneration
    MaxLimited <- MCMaxLimited
INVARIANTS
    NoZombieSlots
CHECK_DEADLOCK FALSE
