SPECIFICATION Spec

CONSTANTS
    None = None
    ShowIds = {i1}
    EpisodeIds = {e1}
    Sessions = {c1, c2}
    Runs = {}
    Unreliable = {}
    Numbers = {1}
    Documents <- NoDocuments
    Titles = {"t1"}
    ExtIds <- FewNames
    Slugs <- FewSlugs
    Slugify <- FewSlugify
    DefaultLang = "ar"
    Sources = {"rss"}
    Langs = {"ar"}

SYMMETRY RowSymmetry

INVARIANTS
    AckedShowPublishHolds
