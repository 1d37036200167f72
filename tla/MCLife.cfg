SPECIFICATION FairLifeSpec

CONSTANTS
    None = None
    p1 = p1
    p2 = p2
    p3 = p3
    Processes <- MCProcesses
    Address <- MCAddress
    Clients = {c1}
    Scopes <- MCScopes
    Routes = {"getShow", "runImport"}

INVARIANTS
    ServesWithAdmin
    HandlersHaveStore
    ActorsAreUsers
    ChangesByEditors

PROPERTIES
    AdminStays
    AllGetUp
    StopsWhenTold
    AddressesServed
