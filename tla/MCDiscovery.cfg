SPECIFICATION ReadSpec

CONSTANTS
    None = None
    ShowIds = {i1, i2}
    EpisodeIds = {e1, e2}
    Sessions = {c1}
    Runs = {r1}
    Unreliable = {}
    Langs = {"ar"}
    Numbers = {1}
    Documents <- OneFeed
    Titles = {"t1"}
    ExtIds <- FewNames
    Slugs <- FewSlugs
    Slugify <- AskedSlugify
    DefaultLang = "ar"
    Sources = {"rss"}
    Readers = {d1}
    AskedSlugs = {"g1"}

SYMMETRY RowSymmetry

INVARIANTS
    PublicStays
    KeysNameRows
    PublishedFound
