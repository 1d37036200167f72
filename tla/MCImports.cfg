SPECIFICATION Spec

CONSTANTS
    None = None
    ShowIds = {i1, i2, i3}
    EpisodeIds = {e1, e2, e3}
    Sessions = {}
    Runs = {r1, r2, r3}
    Unreliable = {r1}
    Documents <- ChangingDocuments
    Titles <- MCTitles
    ExtIds <- MCExtIds
    Slugs <- MCSlugs
    Slugify <- MCSlugify
    DefaultLang = "ar"
    Sources = {"rss", "csv"}
    Langs = {"ar", "en"}
    Numbers <- MCNumbers

SYMMETRY RowSymmetry

INVARIANTS
    RefedEpisodesUnderRefedShows
    OrphanBound
    ReportTruthful
    DoneImportsAll
    ForeignItemsShareIds

PROPERTIES
    RefsAreLedgers

CHECK_DEADLOCK FALSE
