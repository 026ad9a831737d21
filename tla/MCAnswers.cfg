SPECIFICATION Spec
CONSTANTS
    Refused = Refused
    Null = Null
    Infinity = Infinity
    Unreadable = Unreadable
    EngineSchemas = {"crdb_internal"}
    LowerCase <- MCLowerCase
    RoleOrder <- MCRoleOrder
    MaxJsonDepth = 128
    UuidBytes = 1
    HandleWidth = 2
    MaxYear = 3
    MonthsPerYear = 2
    HoursPerMonth = 2
    Int64Min <- MCInt64Min
    Int2Min <- MCInt2Min
    PreparedTexts <- AllTexts
    PreparedDeployments <- AllDeployments
    Texts <- MCTexts
    Deployments <- MCDeployments
    MaxRotations = 1
INVARIANTS
    NothingMaskedInTheClear
    SystemPathReadsNoUserTable
    HostileUsesOnlyProjections
    SingletonGroupsAreWithheld
    OnlyReadsReachTheServer
    MasksDoAsAccepted
    HandlesLinkAsPromised
    RulesComposeStrictly
