SPECIFICATION Spec

CONSTANTS
    None = None
    ShowIds = {i1, i2}
    EpisodeIds = {e1}
    Sessions = {c1, c2}
    Runs = {}
    Unreliable = {c1, c2}
    Langs = {"ar"}
    Numbers = {0}
    Documents <- NoDocuments
    Titles = {"t1"}
    ExtIds <- FewNames
    Slugs <- FewSlugs
    Slugify <- FewSlugify
    DefaultLang = "ar"
    Sources = {"rss"}

SYMMETRY EditorSymmetry

INVARIANTS
    UpdatesApply

PROPERTIES
    UnpublishedOnlyByStalePatch
