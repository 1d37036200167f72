SPECIFICATION SeqSpec

CONSTANTS
    None = None
    ShowIds = {i1, i2}
    EpisodeIds = {e1, e2, e3}
    Sessions = {}
    Runs = {r1, r2}
    Unreliable = {}
    Documents <- GrowingFeed
    Titles <- MCTitles
    ExtIds <- MCExtIds
    Slugs <- MCSlugs
    Slugify <- MCSlugify
    DefaultLang = "ar"
    Sources = {"rss", "csv"}
    Langs = {"ar", "en"}
    Numbers = {0, 1, 2}

SYMMETRY RowSymmetry

INVARIANTS
    GrownFeedUpserts

CHECK_DEADLOCK FALSE
