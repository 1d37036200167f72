SPECIFICATION OpenSpec

CONSTANTS
    None = None
    i1 = i1
    i2 = i2
    NumShards = 2
    c1 = c1
    c2 = c2
    Callers <- MCCallers
    Asks <- Creators
    Importers = {c2}
    Unreliable = {}
    Ids <- MCIds
    ShardOf <- MCShardOf
    Keys <- SlugKeys
    Clash <- SlugClash
    Kinds = {"shows", "episodes"}

INVARIANTS
    NoClash

