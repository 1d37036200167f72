SPECIFICATION FairSpec

CONSTANTS
    None = None
    NotFound = NotFound
    Cut = Cut
    r1 = r1
    r2 = r2
    r3 = r3
    p1 = p1
    p2 = p2
    Readers <- MCReaders
    Processes = {p1, p2}
    Placements <- MCPlacements
    MaxVersion = 3
    Hidden <- MCHidden
    Unreliable = {r1}
    GetFails = TRUE
    SetFails = TRUE

INVARIANTS
    ReadsNeverGoBack
    OnlyPublished
    FlightsLed

PROPERTIES
    ReadsReturn
    OldVersionsGo
