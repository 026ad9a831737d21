SPECIFICATION Spec
CONSTANTS
    None = None
    Refused = Refused
    Dropped = Dropped
    Unreadable = Unreadable
    EngineSchemas = {"crdb_internal"}
    LowerCase <- MCLowerCase
    RoleOrder <- MCRoleOrder
    MaxJsonDepth = 128
    Relations <- CoveringRelations
    Shapes <- CoveringShapes
    FirstDb <- CoveringFirstDb
    Specs <- CoveringSpecs
    Columns = {"id", "mail", "late"}
    NewNames = {"late"}
    BackoffSteps = 1
    MaxDdl = 2
    MaxReloads = 1
    MaxFailures = 1
INVARIANT
    GroupsOfOneAreNoticed
CHECK_DEADLOCK FALSE
