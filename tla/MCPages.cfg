SPECIFICATION Spec

CONSTANTS
    None = None
    Start = Start
    Done = Done
    Rows <- MoreRows
    Writable = {2}
    MaxDate = 2
    Limit = 2
    Kinds = {"shows", "postgres", "memory", "cms"}
    MaxShifts = 2

INVARIANTS
    WalksVisitSteady
    TwiceOnlyMoved
    ShiftsCostOneEach

PROPERTIES
    CursorsDescend
