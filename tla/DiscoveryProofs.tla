--------------------------- MODULE DiscoveryProofs ---------------------------
(***************************************************************************)
(* Why the public reads stay right at any age of what is cached: the write *)
(* path never takes an episode down, nor any row away from its slug, so    *)
(* what was true of a row when it was loaded is true of it later.          *)
(***************************************************************************)
EXTENDS Discovery, WritePathStatusProofs

\* Readers only read: the write path does not notice them.
LEMMA ReadersOnlyRead == ReadSpec => Spec
<1>1. ReadInit => Init
  BY DEF ReadInit
<1>2. [ReadNext]_allVars => [Next]_vars
  BY DEF ReadNext, ReadStep, Ask, Look, Load, Fill, Expire, allVars
<1> QED
  BY <1>1, <1>2, PTL DEF ReadSpec, Spec

\* What every step does to the tables.
TablesLast == RowsKept /\ EpisodesStayUp

LEMMA StepLasts ==
    ASSUME StatusTyped, [Next]_vars
    PROVE  TablesLast /\ PublicEpisodes \subseteq PublicEpisodes'
<1>1. TablesLast
  BY NextKeys, NextStatus DEF StatusTyped, TablesLast
<1> QED
  BY <1>1 DEF TablesLast, EpisodesStayUp, PublicEpisodes, Published

LEMMA NamesLast ==
    ASSUME EpisodesHaveShows, TablesLast, PublicEpisodes \subseteq PublicEpisodes',
           NEW kind, NEW slug, NEW rows, RowsNamed(<<kind, slug>>, rows)
    PROVE  RowsNamed(<<kind, slug>>, rows)'
<1>1. /\ kind = "show" =>
            \A i \in rows : i \in ShowIds /\ shows[i] # None /\ shows[i].slug = slug
      /\ kind \in {"list", "episode"} => rows \subseteq PublicEpisodes
      /\ kind = "episode" => \A e \in rows : episodes[e].slug = slug
      /\ kind = "list" =>
            \E i \in ShowIds : /\ rows # {} => shows[i].slug = slug
                               /\ \A e \in rows : episodes[e].show = i
  BY DEF RowsNamed
<1>2. \A e \in PublicEpisodes : e \in EpisodeIds /\ episodes[e] # None
  BY DEF PublicEpisodes, Published
<1>3. /\ \A i \in ShowIds : shows[i] # None => shows'[i] # None /\ shows'[i].slug = shows[i].slug
      /\ \A e \in EpisodeIds : episodes[e] # None =>
            episodes'[e].slug = episodes[e].slug /\ episodes'[e].show = episodes[e].show
  BY DEF TablesLast, RowsKept, SameShow, SameEpisode
<1>4. kind = "show" =>
          \A i \in rows : i \in ShowIds /\ shows'[i] # None /\ shows'[i].slug = slug
  BY <1>1, <1>3
<1>5. kind \in {"list", "episode"} => rows \subseteq PublicEpisodes'
  BY <1>1
<1>6. kind = "episode" => \A e \in rows : episodes'[e].slug = slug
  BY <1>1, <1>2, <1>3
<1>7. ASSUME kind = "list"
      PROVE  \E i \in ShowIds : /\ rows # {} => shows'[i].slug = slug
                                /\ \A e \in rows : episodes'[e].show = i
  <2>1. PICK i \in ShowIds : /\ rows # {} => shows[i].slug = slug
                             /\ \A e \in rows : episodes[e].show = i
    BY <1>1, <1>7
  <2>2. \A e \in rows : episodes'[e].show = i
    BY <1>1, <1>2, <1>3, <1>7, <2>1
  <2>3. rows # {} => shows[i] # None
    BY <1>1, <1>2, <1>7, <2>1 DEF EpisodesHaveShows
  <2> QED
    BY <1>3, <2>1, <2>2, <2>3
<1> QED
  BY <1>4, <1>5, <1>6, <1>7 DEF RowsNamed

\* A reader that does not move.
LEMMA ReaderStays ==
    ASSUME EpisodesHaveShows, TablesLast, PublicEpisodes \subseteq PublicEpisodes',
           NEW r \in Readers, ReaderKept(r), reader'[r] = reader[r]
    PROVE  ReaderKept(r)'
<1>1. \A i \in ShowIds : shows[i] # None => shows'[i] # None /\ shows'[i].slug = shows[i].slug
  BY DEF TablesLast, RowsKept, SameShow
<1>2. \A e \in EpisodeIds : episodes[e] # None =>
          episodes'[e] # None /\ episodes'[e].slug = episodes[e].slug
  BY DEF TablesLast, RowsKept, SameEpisode
<1>3. RightKey(r)'
  BY <1>1 DEF ReaderKept, RightKey
<1>4. RowsNamed(<<reader[r].key, reader[r].slug>>, reader[r].rows)
  BY DEF ReaderKept, RightRows, Key
<1>5. \A kind, slug, rows :
          RowsNamed(<<kind, slug>>, rows) => RowsNamed(<<kind, slug>>, rows)'
  BY NamesLast
<1>6. RowsNamed(<<reader[r].key, reader[r].slug>>, reader[r].rows)'
  BY <1>4, <1>5
<1>7. RightRows(r)'
  BY <1>6 DEF ReaderKept, RightRows, Key
<1>8. Found(r)'
  <2>1. ASSUME (At(r, "idle") /\ reader[r].op = "episode" /\ reader[r].code # "error"
                 /\ reader[r].rows = {})',
               NEW e \in reader'[r].before, episodes'[e].slug = reader'[r].slug
        PROVE  \E f \in EpisodeIds \ {e} :
                   episodes'[f] # None /\ episodes'[f].slug = reader'[r].slug
    <3>1. e \in EpisodeIds /\ episodes[e] # None
      BY DEF ReaderKept, PublicEpisodes, Published
    <3>2. episodes[e].slug = reader[r].slug
      BY <1>2, <2>1, <3>1
    <3>3. PICK f \in EpisodeIds \ {e} :
              episodes[f] # None /\ episodes[f].slug = reader[r].slug
      BY <2>1, <3>2 DEF ReaderKept, Found, At
    <3> QED
      BY <1>2, <3>3
  <2> QED
    BY <2>1 DEF Found
<1> QED
  BY <1>3, <1>7, <1>8 DEF ReaderKept

LEMMA EntriesStay ==
    ASSUME EpisodesHaveShows, TablesLast, PublicEpisodes \subseteq PublicEpisodes',
           ReadTypeOK, EntriesNamed,
           \A k \in Keys : entry'[k] = entry[k] \/ entry'[k] = None
    PROVE  EntriesNamed'
<1>1. \A kind, slug, rows :
          RowsNamed(<<kind, slug>>, rows) => RowsNamed(<<kind, slug>>, rows)'
  BY NamesLast
<1>2. SUFFICES ASSUME NEW k \in Keys, entry'[k] # None
               PROVE  RowsNamed(k, entry[k])' /\ (k[1] = "episode" => entry'[k] # {})
  BY DEF EntriesNamed
<1>3. k = <<k[1], k[2]>> /\ entry'[k] = entry[k]
  BY <1>2 DEF Keys
<1>4. RowsNamed(<<k[1], k[2]>>, entry[k])
  BY <1>2, <1>3 DEF EntriesNamed
<1>5. RowsNamed(<<k[1], k[2]>>, entry[k])'
  BY <1>1, <1>3, <1>4
<1> QED
  BY <1>2, <1>3, <1>5 DEF EntriesNamed

LEMMA ReaderMoves ==
    ASSUME ReadTypeOK, NEW r \in Readers, NEW new \in Reader, ReaderTo(r, new)
    PROVE  /\ reader' \in [Readers -> Reader] /\ reader'[r] = new
           /\ \A q \in Readers \ {r} : reader'[q] = reader[q]
BY DEF ReadTypeOK, ReaderTo

LEMMA ReaderFields ==
    ASSUME ReadTypeOK, NEW r \in Readers
    PROVE  /\ reader[r].op \in Kinds /\ reader[r].key \in Kinds
           /\ reader[r].slug \in AskedSlugs /\ reader[r].show \in ShowIds \cup {None}
           /\ reader[r].rows \in RowSets /\ reader[r].before \in SUBSET EpisodeIds
           /\ Key(r) \in Keys
BY DEF ReadTypeOK, Reader, Key, Keys

\* The tables and all readers but r are left as they are.
MovesWell(r) ==
    /\ reader' \in [Readers -> Reader] /\ ReaderKept(r)'
    /\ \A q \in Readers \ {r} : reader'[q] = reader[q]

\* Every row that r could ask for has another of its slug.
NoneDue(r) ==
    \A e \in reader[r].before : episodes[e].slug = reader[r].slug =>
        \E f \in EpisodeIds \ {e} :
            episodes[f] # None /\ episodes[f].slug = reader[r].slug

\* A request is answered.
LEMMA Answered ==
    ASSUME ReadTypeOK, UNCHANGED vars, NEW r \in Readers, ReaderKept(r),
           NEW code \in {"ok", "notfound", "error"}, NEW rows \in RowSets,
           Answer(r, code, rows), RowsNamed(Key(r), rows),
           reader[r].key = "episode" /\ rows = {} /\ code # "error" => NoneDue(r)
    PROVE  MovesWell(r)
<1> DEFINE new == [reader[r] EXCEPT !.pc = "idle", !.show = None, !.rows = rows,
                                    !.code = code]
<1>1. reader[r] \in Reader
  BY DEF ReadTypeOK
<1>2. /\ new \in Reader
      /\ new.pc = "idle" /\ new.show = None /\ new.rows = rows /\ new.code = code
      /\ new.op = reader[r].op /\ new.key = reader[r].key /\ new.slug = reader[r].slug
      /\ new.before = reader[r].before
  BY <1>1 DEF Reader
<1>3. ReaderTo(r, new)
  BY DEF Answer
<1> HIDE DEF new
<1>4. /\ reader' \in [Readers -> Reader] /\ reader'[r] = new
      /\ \A q \in Readers \ {r} : reader'[q] = reader[q]
  BY <1>2, <1>3, ReaderMoves
<1>5. shows' = shows /\ episodes' = episodes /\ PublicEpisodes' = PublicEpisodes
  BY DEF vars, PublicEpisodes, Published
<1>6. RightKey(r)'
  BY <1>2, <1>4 DEF ReaderKept, RightKey
<1>7. RowsNamed(Key(r), reader[r].rows)'
  BY <1>2, <1>4, <1>5 DEF RowsNamed, Key
<1>8. RightRows(r)'
  BY <1>2, <1>4, <1>7 DEF RightRows
<1>9. Found(r)'
  BY <1>2, <1>4, <1>5 DEF Found, NoneDue, At, ReaderKept, RightKey
<1> QED
  BY <1>2, <1>4, <1>5, <1>6, <1>8, <1>9 DEF ReaderKept, MovesWell

\* Remember returns with rows.
LEMMA Proceeded ==
    ASSUME ReadTypeOK, UNCHANGED vars, NEW r \in Readers, ReaderKept(r),
           NEW rows \in RowSets, Proceed(r, rows), RowsNamed(Key(r), rows),
           reader[r].key = "episode" => rows # {}
    PROVE  MovesWell(r)
<1>1. CASE ~(reader[r].op = "list" /\ reader[r].key = "show")
  BY <1>1, Answered DEF Proceed
<1>2. CASE reader[r].op = "list" /\ reader[r].key = "show"
  <2>1. PICK i \in rows :
            ReaderTo(r, [reader[r] EXCEPT !.pc = "get", !.key = "list", !.show = i,
                                          !.rows = {}])
    BY <1>2 DEF Proceed
  <2>2. i \in ShowIds /\ shows[i] # None /\ shows[i].slug = reader[r].slug
    BY <1>2, <2>1 DEF RowsNamed, Key
  <2> DEFINE new == [reader[r] EXCEPT !.pc = "get", !.key = "list", !.show = i,
                                      !.rows = {}]
  <2>3. reader[r] \in Reader
    BY DEF ReadTypeOK
  <2>4. {} \in RowSets
    BY DEF RowSets
  <2>5. /\ new \in Reader
        /\ new.pc = "get" /\ new.show = i /\ new.rows = {} /\ new.key = "list"
        /\ new.op = reader[r].op /\ new.slug = reader[r].slug
        /\ new.before = reader[r].before
    BY <2>2, <2>3, <2>4 DEF Reader, Kinds
  <2>6. ReaderTo(r, new)
    BY <2>1
  <2> HIDE DEF new
  <2>7. /\ reader' \in [Readers -> Reader] /\ reader'[r] = new
        /\ \A q \in Readers \ {r} : reader'[q] = reader[q]
    BY <2>5, <2>6, ReaderMoves
  <2>8. shows' = shows /\ episodes' = episodes /\ PublicEpisodes' = PublicEpisodes
    BY DEF vars, PublicEpisodes, Published
  <2>9. RightKey(r)'
    BY <1>2, <2>2, <2>5, <2>7, <2>8 DEF RightKey
  <2>10. RowsNamed(Key(r), reader[r].rows)'
    BY <2>2, <2>5, <2>7 DEF RowsNamed, Key
  <2>11. RightRows(r)'
    BY <2>5, <2>7, <2>10 DEF RightRows
  <2>12. Found(r)'
    BY <2>5, <2>7 DEF Found, At
  <2> QED
    BY <2>5, <2>7, <2>8, <2>9, <2>11, <2>12 DEF ReaderKept, MovesWell
<1> QED
  BY <1>1, <1>2

LEMMA Asked ==
    ASSUME ReadTypeOK, NEW r \in Readers, Ask(r)
    PROVE  MovesWell(r)
<1>1. PICK op \in Kinds, slug \in AskedSlugs :
          ReaderTo(r, [pc |-> "get", op |-> op,
                       key |-> IF op = "list" THEN "show" ELSE op,
                       slug |-> slug, show |-> None, rows |-> {}, code |-> "ok",
                       before |-> IF op = "episode" THEN PublicEpisodes ELSE {}])
  BY DEF Ask
<1> DEFINE key == IF op = "list" THEN "show" ELSE op
           before == IF op = "episode" THEN PublicEpisodes ELSE {}
           new == [pc |-> "get", op |-> op, key |-> key, slug |-> slug, show |-> None,
                   rows |-> {}, code |-> "ok", before |-> before]
<1>2. /\ key \in {"show", "episode"} /\ key \in Kinds /\ (op = "episode" <=> key = "episode")
      /\ before \subseteq PublicEpisodes /\ before \in SUBSET EpisodeIds /\ {} \in RowSets
  BY DEF Kinds, PublicEpisodes, RowSets
<1>3. ReaderTo(r, new)
  BY <1>1
<1> HIDE DEF key, before
<1>4. /\ new \in Reader
      /\ new.pc = "get" /\ new.rows = {} /\ new.key = key /\ new.op = op
      /\ new.slug = slug /\ new.before = before
  BY <1>2 DEF Reader, Kinds
<1> HIDE DEF new
<1>5. /\ reader' \in [Readers -> Reader] /\ reader'[r] = new
      /\ \A q \in Readers \ {r} : reader'[q] = reader[q]
  BY <1>3, <1>4, ReaderMoves
<1>6. PublicEpisodes' = PublicEpisodes
  BY DEF Ask, vars, PublicEpisodes, Published
<1>7. RightKey(r)'
  BY <1>2, <1>4, <1>5 DEF RightKey
<1>8. RowsNamed(Key(r), reader[r].rows)'
  BY <1>2, <1>4, <1>5 DEF RowsNamed, Key
<1>9. RightRows(r)'
  BY <1>4, <1>5, <1>8 DEF RightRows
<1>10. Found(r)'
  BY <1>4, <1>5 DEF Found, At
<1> QED
  BY <1>2, <1>4, <1>5, <1>6, <1>7, <1>9, <1>10 DEF ReaderKept, MovesWell

LEMMA Looked ==
    ASSUME ReadTypeOK, EntriesNamed, NEW r \in Readers, ReaderKept(r), Look(r)
    PROVE  MovesWell(r)
<1>1. Key(r) \in Keys /\ UNCHANGED vars
  BY ReaderFields DEF Look
<1>2. ASSUME entry[Key(r)] # None, Proceed(r, entry[Key(r)]) PROVE MovesWell(r)
  <2>1. entry[Key(r)] \in RowSets
    BY <1>1, <1>2 DEF ReadTypeOK
  <2>2. /\ RowsNamed(Key(r), entry[Key(r)])
        /\ reader[r].key = "episode" => entry[Key(r)] # {}
    BY <1>1, <1>2 DEF EntriesNamed, Key
  <2> QED
    BY <1>1, <1>2, <2>1, <2>2, Proceeded
<1>3. ASSUME ReaderTo(r, [reader[r] EXCEPT !.pc = "load"]) PROVE MovesWell(r)
  <2> DEFINE new == [reader[r] EXCEPT !.pc = "load"]
  <2>1. reader[r] \in Reader /\ reader[r].pc = "get"
    BY DEF ReadTypeOK, Look, At
  <2>2. /\ new \in Reader
        /\ new.pc = "load" /\ new.rows = reader[r].rows /\ new.key = reader[r].key
        /\ new.op = reader[r].op /\ new.slug = reader[r].slug
        /\ new.show = reader[r].show /\ new.before = reader[r].before
    BY <2>1 DEF Reader
  <2>3. ReaderTo(r, new)
    BY <1>3
  <2> HIDE DEF new
  <2>4. /\ reader' \in [Readers -> Reader] /\ reader'[r] = new
        /\ \A q \in Readers \ {r} : reader'[q] = reader[q]
    BY <2>2, <2>3, ReaderMoves
  <2>5. shows' = shows /\ episodes' = episodes /\ PublicEpisodes' = PublicEpisodes
    BY <1>1 DEF vars, PublicEpisodes, Published
  <2>6. RightKey(r)'
    BY <2>1, <2>2, <2>4, <2>5 DEF ReaderKept, RightKey
  <2>7. RowsNamed(Key(r), reader[r].rows)'
    BY <2>2, <2>4, <2>5 DEF ReaderKept, RightRows, RowsNamed, Key
  <2>8. RightRows(r)'
    BY <2>1, <2>2, <2>4, <2>7 DEF ReaderKept, RightRows
  <2>9. Found(r)'
    BY <2>2, <2>4 DEF Found, At
  <2> QED
    BY <2>2, <2>4, <2>5, <2>6, <2>8, <2>9 DEF ReaderKept, MovesWell
<1> QED
  BY <1>2, <1>3 DEF Look

LEMMA LoadedRows ==
    ASSUME ReadTypeOK, UNCHANGED vars, NEW r \in Readers, ReaderKept(r),
           NEW rows \in RowSets, Loaded(r, rows), RowsNamed(Key(r), rows),
           reader[r].key = "episode" => rows # {}
    PROVE  MovesWell(r)
<1> DEFINE new == [reader[r] EXCEPT !.pc = "fill", !.rows = rows]
<1>1. reader[r] \in Reader
  BY DEF ReadTypeOK
<1>2. /\ new \in Reader
      /\ new.pc = "fill" /\ new.rows = rows /\ new.key = reader[r].key
      /\ new.op = reader[r].op /\ new.slug = reader[r].slug
      /\ new.show = reader[r].show /\ new.before = reader[r].before
  BY <1>1 DEF Reader
<1>3. ReaderTo(r, new)
  BY DEF Loaded
<1> HIDE DEF new
<1>4. /\ reader' \in [Readers -> Reader] /\ reader'[r] = new
      /\ \A q \in Readers \ {r} : reader'[q] = reader[q]
  BY <1>2, <1>3, ReaderMoves
<1>5. shows' = shows /\ episodes' = episodes /\ PublicEpisodes' = PublicEpisodes
  BY DEF vars, PublicEpisodes, Published
<1>6. RightKey(r)'
  BY <1>2, <1>4 DEF ReaderKept, RightKey
<1>7. RowsNamed(Key(r), reader[r].rows)'
  BY <1>2, <1>4, <1>5 DEF RowsNamed, Key
<1>8. RightRows(r)'
  BY <1>2, <1>4, <1>7 DEF RightRows
<1>9. Found(r)'
  BY <1>2, <1>4 DEF Found, At
<1> QED
  BY <1>2, <1>4, <1>5, <1>6, <1>8, <1>9 DEF ReaderKept, MovesWell

\* The row of a slug, of the table that ids are the keys of.
LEMMA GivenRow ==
    ASSUME ReadTypeOK, UNCHANGED vars, NEW r \in Readers, ReaderKept(r),
           NEW i, {i} \in RowSets, {} \in RowSets, NEW row, Given(r, i, row),
           RowsNamed(Key(r), {}), Published(row) => RowsNamed(Key(r), {i}),
           reader[r].key = "episode" /\ ~Published(row) => NoneDue(r)
    PROVE  MovesWell(r)
<1>1. CASE Published(row)
  BY <1>1, LoadedRows DEF Given
<1>2. CASE ~Published(row)
  BY <1>2, Answered DEF Given
<1> QED
  BY <1>1, <1>2

LEMMA LoadsWell ==
    ASSUME ReadTypeOK, NEW r \in Readers, ReaderKept(r), Load(r)
    PROVE  MovesWell(r)
<1>1. /\ UNCHANGED vars /\ {} \in RowSets
      /\ reader[r].pc = "load" /\ reader[r].rows = {}
  BY DEF Load, At, RowSets, ReaderKept, RightRows
<1>2. RowsNamed(Key(r), {})
  BY <1>1 DEF ReaderKept, RightRows
<1>3. ASSUME Answer(r, "error", {}) PROVE MovesWell(r)
  BY <1>1, <1>2, <1>3, Answered
<1>4. ASSUME reader[r].key = "list",
             Loaded(r, {e \in PublicEpisodes : episodes[e].show = reader[r].show})
      PROVE  MovesWell(r)
  <2> DEFINE rows == {e \in PublicEpisodes : episodes[e].show = reader[r].show}
  <2>1. rows \in RowSets /\ rows \subseteq PublicEpisodes
    <3>1. rows \subseteq PublicEpisodes /\ PublicEpisodes \subseteq EpisodeIds
      BY DEF PublicEpisodes
    <3> HIDE DEF rows
    <3> QED
      BY <3>1 DEF RowSets
  <2>2. reader[r].show \in ShowIds /\ shows[reader[r].show].slug = reader[r].slug
    BY <1>1, <1>4 DEF ReaderKept, RightKey
  <2>3. \A e \in rows : episodes[e].show = reader[r].show
    PROOF OBVIOUS
  <2>4. Loaded(r, rows)
    BY <1>4
  <2> HIDE DEF rows
  <2>5. RowsNamed(Key(r), rows)
    BY <1>4, <2>1, <2>2, <2>3 DEF RowsNamed, Key
  <2> QED
    BY <1>1, <1>4, <2>1, <2>4, <2>5, LoadedRows
<1>5. ASSUME reader[r].key = "show", LoadBySlug(r, shows, ShowIds) PROVE MovesWell(r)
  <2>1. ASSUME NEW i \in ShowIds, shows[i] # None, shows[i].slug = reader[r].slug,
               Given(r, i, shows[i])
        PROVE  MovesWell(r)
    <3>1. {i} \in RowSets
      BY DEF RowSets
    <3>2. RowsNamed(Key(r), {i})
      BY <1>5, <2>1 DEF RowsNamed, Key
    <3> QED
      BY <1>1, <1>2, <1>5, <2>1, <3>1, <3>2, GivenRow
  <2>2. ASSUME Answer(r, "notfound", {}) PROVE MovesWell(r)
    BY <1>1, <1>2, <1>5, <2>2, Answered
  <2> QED
    BY <1>5, <2>1, <2>2 DEF LoadBySlug
<1>6. ASSUME reader[r].key = "episode", LoadBySlug(r, episodes, EpisodeIds)
      PROVE  MovesWell(r)
  <2>1. \A e \in reader[r].before : e \in EpisodeIds /\ Published(episodes[e])
    BY DEF ReaderKept, PublicEpisodes
  <2>2. ASSUME NEW e \in EpisodeIds, episodes[e] # None, episodes[e].slug = reader[r].slug,
               Given(r, e, episodes[e])
        PROVE  MovesWell(r)
    <3>1. {e} \in RowSets
      BY DEF RowSets
    <3>2. Published(episodes[e]) => RowsNamed(Key(r), {e})
      BY <1>6, <2>2 DEF RowsNamed, Key, PublicEpisodes
    <3>3. ~Published(episodes[e]) => NoneDue(r)
      BY <2>1, <2>2 DEF NoneDue
    <3> QED
      BY <1>1, <1>2, <2>2, <3>1, <3>2, <3>3, GivenRow
  <2>3. ASSUME {e \in EpisodeIds : episodes[e] # None /\ episodes[e].slug = reader[r].slug} = {},
               Answer(r, "notfound", {})
        PROVE  MovesWell(r)
    <3>1. NoneDue(r)
      BY <2>1, <2>3 DEF NoneDue, Published
    <3> QED
      BY <1>1, <1>2, <2>3, <3>1, Answered
  <2> QED
    BY <1>6, <2>2, <2>3 DEF LoadBySlug
<1> QED
  BY <1>3, <1>4, <1>5, <1>6 DEF Load

LEMMA Filled ==
    ASSUME ReadTypeOK, EntriesNamed, NEW r \in Readers, ReaderKept(r), Fill(r)
    PROVE  /\ MovesWell(r)
           /\ entry' \in [Keys -> RowSets \cup {None}] /\ EntriesNamed'
<1>1. /\ UNCHANGED vars /\ reader[r].pc = "fill"
      /\ Key(r) \in Keys /\ reader[r].rows \in RowSets
  BY ReaderFields DEF Fill, At
<1>2. /\ RowsNamed(Key(r), reader[r].rows)
      /\ reader[r].key = "episode" => reader[r].rows # {}
  BY <1>1 DEF ReaderKept, RightRows
<1>3. MovesWell(r)
  BY <1>1, <1>2, Proceeded DEF Fill
<1>4. /\ entry' \in [Keys -> RowSets \cup {None}]
      /\ \A k \in Keys : entry'[k] = entry[k] \/ (k = Key(r) /\ entry'[k] = reader[r].rows)
  BY <1>1 DEF Fill, ReadTypeOK
<1>5. shows' = shows /\ episodes' = episodes /\ PublicEpisodes' = PublicEpisodes
  BY <1>1 DEF vars, PublicEpisodes, Published
<1>6. ASSUME NEW k \in Keys, entry'[k] # None
      PROVE  RowsNamed(k, entry[k])' /\ (k[1] = "episode" => entry'[k] # {})
  <2>1. RowsNamed(k, entry'[k]) /\ (k[1] = "episode" => entry'[k] # {})
    BY <1>2, <1>4, <1>6 DEF EntriesNamed, Key
  <2> QED
    BY <1>5, <2>1 DEF RowsNamed
<1> QED
  BY <1>3, <1>4, <1>6 DEF EntriesNamed

LEMMA InitReads == ReadInit => ReadInv
<1> SUFFICES ASSUME ReadInit PROVE ReadInv
  OBVIOUS
<1>1. {} \in RowSets /\ Kinds = {"show", "list", "episode"}
  BY DEF RowSets, Kinds
<1>2. ReadTypeOK
  BY <1>1 DEF ReadInit, ReadTypeOK, Reader
<1>3. EntriesNamed
  BY DEF ReadInit, EntriesNamed
<1>4. ASSUME NEW r \in Readers PROVE ReaderKept(r)
  <2>1. /\ reader[r].pc = "idle" /\ reader[r].op = "show" /\ reader[r].key = "show"
        /\ reader[r].rows = {} /\ reader[r].before = {} /\ reader[r].code = "error"
    BY DEF ReadInit
  <2>2. RightKey(r) /\ Found(r)
    BY <2>1 DEF RightKey, Found
  <2>3. RightRows(r)
    BY <2>1 DEF RightRows, RowsNamed, Key
  <2> QED
    BY <2>1, <2>2, <2>3 DEF ReaderKept
<1> QED
  BY <1>2, <1>3, <1>4 DEF ReadInv

LEMMA NextReads == StatusTyped /\ ReadInv /\ [ReadNext]_allVars => ReadInv'
<1> SUFFICES ASSUME StatusTyped, ReadInv, [ReadNext]_allVars PROVE ReadInv'
  OBVIOUS
<1>1. [Next]_vars
  BY DEF ReadNext, ReadStep, Ask, Look, Load, Fill, Expire, allVars
<1>2. /\ EpisodesHaveShows /\ TablesLast /\ PublicEpisodes \subseteq PublicEpisodes'
      /\ ReadTypeOK /\ EntriesNamed /\ \A r \in Readers : ReaderKept(r)
  BY <1>1, StepLasts DEF StatusTyped, KeysTyped, KeysInv, CatalogConstraints, ReadInv
<1>3. ASSUME NEW r \in Readers, MovesWell(r),
             entry' \in [Keys -> RowSets \cup {None}], EntriesNamed'
      PROVE  ReadInv'
  <2>1. \A q \in Readers : ReaderKept(q)'
    BY <1>2, <1>3, ReaderStays DEF MovesWell
  <2> QED
    BY <1>3, <2>1 DEF MovesWell, ReadInv, ReadTypeOK
<1>4. ASSUME reader' = reader, entry' \in [Keys -> RowSets \cup {None}],
             \A k \in Keys : entry'[k] = entry[k] \/ entry'[k] = None
      PROVE  ReadInv'
  <2>1. EntriesNamed'
    BY <1>2, <1>4, EntriesStay
  <2>2. \A q \in Readers : ReaderKept(q)'
    BY <1>2, <1>4, ReaderStays
  <2> QED
    BY <1>2, <1>4, <2>1, <2>2 DEF ReadInv, ReadTypeOK
<1>5. CASE UNCHANGED readVars
  BY <1>2, <1>4, <1>5 DEF readVars, ReadTypeOK
<1>6. ASSUME NEW r \in Readers, ReadStep(r) PROVE ReadInv'
  <2>1. CASE Fill(r)
    BY <1>2, <1>3, <2>1, Filled
  <2>2. ASSUME entry' = entry, MovesWell(r) PROVE ReadInv'
    <3>1. EntriesNamed'
      BY <1>2, <2>2, EntriesStay
    <3> QED
      BY <1>2, <1>3, <2>2, <3>1 DEF ReadTypeOK
  <2>3. CASE Ask(r)
    BY <1>2, <2>2, <2>3, Asked DEF Ask
  <2>4. CASE Look(r)
    BY <1>2, <2>2, <2>4, Looked DEF Look
  <2>5. CASE Load(r)
    BY <1>2, <2>2, <2>5, LoadsWell DEF Load
  <2> QED
    BY <1>6, <2>1, <2>3, <2>4, <2>5 DEF ReadStep
<1>7. ASSUME NEW k \in Keys, Expire(k) PROVE ReadInv'
  BY <1>2, <1>4, <1>7 DEF Expire, ReadTypeOK
<1> QED
  BY <1>5, <1>6, <1>7 DEF ReadNext, allVars, readVars

LEMMA ReadsInductive == ReadSpec => []ReadInv
BY InitReads, NextReads, ReadersOnlyRead, StatusInductive, PTL DEF ReadSpec

----------------------------------------------------------------------------
(* An episode that was public when it was loaded is public whenever it is  *)
(* given: what the cache and the readers hold is never a draft, although   *)
(* entries are not dropped when rows change and old copies are written.    *)
THEOREM GivenStaysPublic == ReadSpec => []PublicStays
<1>1. ReadInv => PublicStays
  <2> SUFFICES ASSUME ReadInv, NEW key \in Keys, NEW rows \in SUBSET EpisodeIds,
                      Holds(key, rows)
               PROVE  rows \subseteq PublicEpisodes
    BY DEF PublicStays
  <2>1. key[1] \in Kinds /\ ShowIds \cap EpisodeIds = {}
    BY StoreAssumption DEF Keys
  <2>2. RowsNamed(key, rows)
    BY DEF ReadInv, EntriesNamed, ReaderKept, RightRows, Holds
  <2> QED
    BY <2>1, <2>2 DEF RowsNamed, Kinds
<1> QED
  BY <1>1, ReadsInductive, PTL

(* Cached keys go by slugs and are right at any age: rows keep their slugs *)
(* and parents, whatever is written meanwhile.                             *)
THEOREM KeysStayRight == ReadSpec => []KeysNameRows
<1>1. ReadInv => KeysNameRows
  <2> SUFFICES ASSUME ReadInv, NEW key \in Keys, NEW rows \in RowSets, Holds(key, rows)
               PROVE  CASE key[1] = "show" -> \A i \in rows : shows[i].slug = key[2]
                        [] key[1] = "episode" -> \A e \in rows : episodes[e].slug = key[2]
                        [] key[1] = "list" ->
                              \E i \in ShowIds : /\ rows # {} => shows[i].slug = key[2]
                                                 /\ \A e \in rows : episodes[e].show = i
    BY DEF KeysNameRows
  <2>1. key[1] \in Kinds
    BY DEF Keys
  <2>2. RowsNamed(key, rows)
    BY DEF ReadInv, EntriesNamed, ReaderKept, RightRows, Holds
  <2> QED
    BY <2>1, <2>2 DEF RowsNamed, Kinds
<1> QED
  BY <1>1, ReadsInductive, PTL

(* A published episode is found by its slug, through the cache or not,     *)
(* unless another show has an episode of that slug.                        *)
THEOREM PublishedAreFound == ReadSpec => []PublishedFound
<1>1. ReadInv => PublishedFound
  BY DEF ReadInv, ReaderKept, PublishedFound
<1> QED
  BY <1>1, ReadsInductive, PTL
===============================================================================
