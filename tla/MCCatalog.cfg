SPECIFICATION FairSpec
CONSTANTS
    None = None
    Refused = Refused
    Dropped = Dropped
    Unreadable = Unreadable
    EngineSchemas = {"crdb_internal"}
    LowerCase <- MCLowerCase
    RoleOrder <- MCRoleOrder
    MaxJsonDepth = 128
    Relations <- MCRelations
    Shapes <- MCShapes
    FirstDb <- MCFirstDb
    Specs <- MCSpecs
    Columns = {"id", "mail", "late"}
    NewNames = {"late"}
    BackoffSteps = 1
    MaxDdl = 2
    MaxReloads = 1
    MaxFailures = 1
INVARIANTS
    SnapshotsAreTrue
    ViewsAndKeysAreKnown
    LogTellsCoverage
PROPERTIES
    RacesAreRidden
    CoverageCatchesUp
CHECK_DEADLOCK FALSE
