SPECIFICATION FairSpec

CONSTANTS
    None = None
    ShowIds = {i1, i2}
    EpisodeIds = {e1, e2}
    Sessions = {c1}
    Runs = {r1, r2}
    Unreliable = {r1, c1}
    Numbers = {1}
    Documents <- OneFeed
    Titles = {"t1"}
    ExtIds <- FewNames
    Slugs = {"t1"}
    Slugify <- OneSlugify
    DefaultLang = "ar"
    Sources = {"rss"}
    Langs = {"ar"}

INVARIANTS
    TypeOK
    UpdatesApply
    ImportedStayPublished
    AckedEpisodePublishHolds

PROPERTIES
    RowIdentityStable
    RerunUpserts
    RunsEnd
