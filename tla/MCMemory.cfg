SPECIFICATION FairSpec

CONSTANTS
    None = None
    i1 = i1
    i2 = i2
    NumShards = 2
    c1 = c1
    c2 = c2
    Callers <- MCCallers
    Asks <- MCAsks
    Importers = {c2}
    Unreliable = {c1}
    Ids <- MCIds
    ShardOf <- MCShardOf
    Keys <- MCKeys
    Clash <- MCClash
    Kinds = {"shows", "episodes", "single"}

INVARIANTS
    RetriesNeverClash
    AnswersTruthful
    ListsAreComplete
    OneActorUnique

PROPERTIES
    CallsReturn

CHECK_DEADLOCK FALSE
