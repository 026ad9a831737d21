SPECIFICATION MCSpec
CONSTANTS
    Base = 6
    Word = 2
    Half = 1
    Unread = Unread
    Null = Null
    DataRowTag = 1
    LEAKY_FIELDS <- MCLeaky
    MessageTag = 3
    CodeTag = 4
    ContextTag = 2
    Withheld <- MCWithheld
    Scripts <- MCScripts
    Garbage <- MCGarbage
    Refusal <- MCRefusal
    Room = 5
    Window = 2
    MaxBody = 5
    Binds <- MCBinds
    Columns <- MCColumns
INVARIANTS
    NothingWaitsWhole
    BodiesReadAlike
PROPERTIES
    RefinesConduit
    EverythingLands
CHECK_DEADLOCK FALSE
