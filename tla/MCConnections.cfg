SPECIFICATION MCSpec
CONSTANTS
    None = None
    Conns = {c1, c2}
    Users <- MCUsers
    Nameless = ""
    Roles <- MCRoles
    Configs <- MCConfigs
    StartupUsers <- MCStartupUsers
    Certificates <- MCCertificates
    Mechanisms <- MCMechanisms
    MaxReloads = 1
    MaxStatements = 2
    MaxNotices = 2
    MaxRefills = 1
INVARIANTS
    RolesAreDeserved
    LegsAsDemanded
    OffersCanSucceed
PROPERTIES
    LimitsHold
CHECK_DEADLOCK FALSE
