---------------------------- MODULE MCWritePath ----------------------------
(* Small instances of WritePath.                                           *)
EXTENDS WritePath, TLC

\* Names: feed urls, guids and titles; slugify folds g1 and G1 together.
MCTitles == {"t1", "t2"}
MCExtIds == {"a", "b", "g1", "G1", "g2", "t1", "t2"}
MCSlugs == {"g1", "g2", "t1", "t2", ""}
MCSlugify == [x \in MCExtIds |->
    CASE x = "G1" -> "g1" [] x \in {"a", "b"} -> "" [] OTHER -> x]

\* The same with less of everything, for runs with editors.
FewNames == {"a", "g1", "t1"}
FewSlugs == {"g1", "t1"}
FewSlugify == [x \in FewNames |-> IF x = "g1" THEN "g1" ELSE "t1"]

\* All names in one: an editor and a run that meet meet on the same rows.
OneSlugify == [x \in FewNames |-> "t1"]

RSS(url, title, lang, items) ==
    [source |-> "rss", query |-> url, title |-> title, lang |-> lang, items |-> items]
RSSItem(guid, title, dated) == [guid |-> guid, title |-> title, dated |-> dated]

CSV(path, title, columns, header, rows) ==
    [source |-> "csv", query |-> path, title |-> title, columns |-> columns,
     header |-> header, rows |-> rows]
CSVRow(ext, title, number) == [ext |-> ext, title |-> title, number |-> number]

\* Feed a, and feed a again with a new title and an item that has no guid.
FeedA == RSS("a", "t1", "en", <<RSSItem("g1", "t1", TRUE)>>)
FeedA2 == RSS("a", "t2", None, <<RSSItem(None, "t2", FALSE), RSSItem("g1", "t2", TRUE)>>)
\* Feed a for runs with editors, and few names.
FeedPlain == RSS("a", "t1", None, <<RSSItem("g1", "t1", TRUE)>>)
\* Feed b has an item with an id that feed a uses, too.
FeedB == RSS("b", "t2", "en", <<RSSItem("g1", "t1", TRUE)>>)
\* Feed a with a second item, put first as feeds do.
FeedAGrown == RSS("a", "t1", "en", <<RSSItem("g2", "t2", TRUE), RSSItem("g1", "t1", TRUE)>>)

\* A file after its header: two ids that share their slug and their number.
FileA == CSV("a", "t1", 6, TRUE, <<CSVRow("t1", "t2", None),
             CSVRow("G1", "t1", None), CSVRow("g1", "t2", None), CSVRow("g2", "t2", 2)>>)

\* The file when only its first id is left in it, without a header.
FileShort == CSV("a", "t1", 5, FALSE, <<CSVRow("G1", "t2", -1)>>)
MCNumbers == {-1, 0, 1, 2}

NoDocuments == {}
ChangingDocuments == {FeedA, FeedA2, FeedB, FileA, FileShort}
OneFeed == {FeedPlain}
GrowingFeed == {FeedA, FeedAGrown}

RowSymmetry == Permutations(ShowIds) \cup Permutations(EpisodeIds)
EditorSymmetry == RowSymmetry \cup Permutations(Sessions)
=============================================================================
