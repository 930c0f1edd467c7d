SPECIFICATION Spec
CONSTANTS
    RingSlots = 3
    PendingSlots = 2
    Scancodes <- ScancodesDef
    MaxCodes = 4
    Typed <- TypedDef
    Files <- FilesDef
    MaxText = 3
    MaxEdits = 3
    Ids = {w1, w2, w3}
    Suites = {"a", "b"}
    MaxPieces = 8
    MaxWire = 2
    MaxPosts = 2
    MaxRecords = 6
    BadNames = {"a:b"}
    Lower <- LowerDef
    Calls <- CallsDef
    MaxAsks = 2
    MaxTurns = 2
    MaxBlocks = 2
    MaxContent = 2
INVARIANTS
    KeysReachReader
    UndoIsExact
    FocusOnTop
    TlsInStep
    ConsentFirst
    ToolCallsAnswered
CHECK_DEADLOCK FALSE
