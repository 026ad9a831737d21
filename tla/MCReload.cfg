SPECIFICATION FairSpec
CONSTANTS
    Sessions = {s1}
    TimerOn = TRUE
    None = None
    MaxEdits = 1
    MaxDdl = 1
    MaxFailures = 1
    MaxIdle = 0
INVARIANTS
    TypeOK
    ServedPlansAreCurrent
    NoPlanOutlivesABegunReload
    NoKnobsAheadOfRules
    WholeFileOrNothing
PROPERTIES
    SnapshotsMoveForward
    TablesAreSeen
    NudgesAreAnswered
CHECK_DEADLOCK FALSE
