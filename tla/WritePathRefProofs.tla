-------------------------- MODULE WritePathRefProofs --------------------------
(***************************************************************************)
(* What imports leave behind: the refs are two ledgers, a row keeps to the *)
(* feed it came from, and a run loses at most one row.                     *)
(***************************************************************************)
EXTENDS WritePathStatusProofs

----------------------------------------------------------------------------
(* What one step of an actor adds to the tables.                           *)
StepBy(a) ==
    /\ \A i \in ShowIds : shows[i] = None /\ shows'[i] # None => shows'[i].createdBy = a
    /\ \A e \in EpisodeIds : episodes[e] = None /\ episodes'[e] # None =>
          episodes'[e].createdBy = a
    /\ \A k \in RefKeys : showRefs'[k] # showRefs[k] =>
          /\ showRefs[k] = None /\ showRefs'[k] \in ShowIds
          /\ shows[showRefs'[k]] # None /\ shows[showRefs'[k]].createdBy = a
    /\ \A k \in RefKeys : episodeRefs'[k] # episodeRefs[k] =>
          /\ episodeRefs[k] = None /\ episodeRefs'[k] \in EpisodeIds
          /\ episodes[episodeRefs'[k]] # None /\ episodes[episodeRefs'[k]].createdBy = a

TasksKept == \A q \in Runs : imp[q].pc # "idle" => imp'[q].pc # "idle" /\ SameTask(q)

LEMMA TableSteps ==
    ASSUME StoreTypeOK
    PROVE  /\ UNCHANGED storeVars => \A a : StepBy(a)
           /\ \A a, i, row : ShowAdded(i, row) /\ row.createdBy = a => StepBy(a)
           /\ \A a, i, row : ShowChanged(i, row) => StepBy(a)
           /\ \A a, k, i : /\ ShowBound(k, i) /\ shows[i] # None /\ shows[i].createdBy = a
                           => StepBy(a)
           /\ \A a, e, row : EpisodeAdded(e, row) /\ row.createdBy = a => StepBy(a)
           /\ \A a, e, row : EpisodeChanged(e, row) => StepBy(a)
           /\ \A a, k, e : /\ EpisodeBound(k, e)
                           /\ episodes[e] # None /\ episodes[e].createdBy = a
                           => StepBy(a)
<1> USE DEF StepBy, StoreTypeOK, RefKeys
<1>1. UNCHANGED storeVars => \A a : StepBy(a)
  BY DEF storeVars
<1>2. ASSUME NEW a, NEW i, NEW row, ShowAdded(i, row), row.createdBy = a PROVE StepBy(a)
  BY <1>2 DEF ShowAdded
<1>3. ASSUME NEW a, NEW i, NEW row, ShowChanged(i, row) PROVE StepBy(a)
  BY <1>3 DEF ShowChanged
<1>4. ASSUME NEW a, NEW k, NEW i, ShowBound(k, i), shows[i] # None, shows[i].createdBy = a
      PROVE  StepBy(a)
  BY <1>4 DEF ShowBound
<1>5. ASSUME NEW a, NEW e, NEW row, EpisodeAdded(e, row), row.createdBy = a PROVE StepBy(a)
  BY <1>5 DEF EpisodeAdded
<1>6. ASSUME NEW a, NEW e, NEW row, EpisodeChanged(e, row) PROVE StepBy(a)
  BY <1>6 DEF EpisodeChanged
<1>7. ASSUME NEW a, NEW k, NEW e, EpisodeBound(k, e),
             episodes[e] # None, episodes[e].createdBy = a
      PROVE  StepBy(a)
  BY <1>7 DEF EpisodeBound
<1> QED
  BY <1>1, <1>2, <1>3, <1>4, <1>5, <1>6, <1>7

LEMMA SessionAdds ==
    ASSUME StatusTyped, NEW s \in Sessions, OthersWait(s), SessionEffect(s)
    PROVE  StepBy(s) /\ TasksKept
<1>1. StoreTypeOK /\ CopiesKeepStatus
  BY DEF StatusTyped, StatusInv, KeysTyped, TypeInv, TypeOK
<1>2. TasksKept
  BY DEF TasksKept, OthersWait, SameTask
<1>3. req[s].pc = "insertEpisode" => req[s].copy.createdBy = s
  BY <1>1 DEF CopiesKeepStatus
<1>4. StepBy(s)
  BY <1>1, <1>3, TableSteps
     DEF SessionEffect, Refused, ShowCreated, ShowRead, ShowWritten, EpisodeDrafted,
         EpisodeCreated, EpisodeRead, EpisodeWritten
<1> QED
  BY <1>2, <1>4

LEMMA RunAdds ==
    ASSUME StatusTyped, RefInv, NEW r \in Runs, RunsWait(r), RunEffect(r)
    PROVE  StepBy(r) /\ TasksKept
<1>1. StoreTypeOK /\ OwnersImported /\ RunRefs(r)
  BY DEF StatusTyped, StatusInv, KeysTyped, TypeInv, TypeOK, RefInv
<1>2. TasksKept
  <2>1. imp[r].pc # "idle" => imp'[r].pc # "idle" /\ SameTask(r)
    BY DEF RunEffect, Fetched, GaveUp, ShowLookedUp, ShowFound, ShowTried, ShowUpserted,
           EpisodeLookedUp, EpisodeFound, EpisodeTried, EpisodeUpserted, LoopPc
  <2> QED
    BY <2>1 DEF TasksKept, RunsWait, SameTask
<1>3. NewShowOf(r).createdBy = r /\ NewEpisodeOf(r).createdBy = r
  BY DEF NewShowOf, NewEpisodeOf
<1>4. /\ imp[r].pc = "refShow" =>
            shows[imp[r].owner] # None /\ shows[imp[r].owner].createdBy = r
      /\ imp[r].pc = "refEpisode" =>
            episodes[imp[r].owner] # None /\ episodes[imp[r].owner].createdBy = r
  BY <1>1 DEF OwnersImported, RunRefs
<1>5. StepBy(r)
  BY <1>1, <1>3, <1>4, TableSteps
     DEF RunEffect, Fetched, GaveUp, ShowLookedUp, ShowFound, ShowTried, ShowUpserted,
         EpisodeLookedUp, EpisodeFound, EpisodeTried, EpisodeUpserted
<1> QED
  BY <1>2, <1>5

(* What a step of one actor leaves true of a run that does not move.       *)
LEMMA StillRefs ==
    ASSUME StatusTyped, RefInv, RowsKept, NEW a, StepBy(a), NEW q \in Runs, q # a,
           imp'[q] = imp[q]
    PROVE  /\ RunRefs(q)' /\ Unbound(q)' /\ AtMostOneOrphan(q)'
           /\ CountsWhatItMade(q)' /\ MadeWhatItCounts(q)'
<1>1. StoreTypeOK /\ RunsTyped /\ RunShape(imp[q]) /\ OwnersImported /\ RefsImported
  BY DEF StatusTyped, StatusInv, KeysTyped, TypeInv, TypeOK, RunsTyped
<1>2. /\ RunRefs(q) /\ Unbound(q) /\ AtMostOneOrphan(q)
      /\ CountsWhatItMade(q) /\ MadeWhatItCounts(q)
  BY DEF RefInv
<1>3. /\ \A k \in RefKeys : showRefs[k] # None => showRefs'[k] = showRefs[k]
      /\ \A k \in RefKeys : episodeRefs[k] # None => episodeRefs'[k] = episodeRefs[k]
  BY DEF StepBy
<1>4. /\ \A i \in ShowIds : shows[i] # None =>
             shows'[i] # None /\ shows'[i].createdBy = shows[i].createdBy
      /\ \A e \in EpisodeIds : episodes[e] # None =>
             /\ episodes'[e] # None /\ episodes'[e].createdBy = episodes[e].createdBy
             /\ episodes'[e].show = episodes[e].show
  BY DEF RowsKept, SameShow, SameEpisode
<1>5. /\ imp[q].pc \in ShowPcs \cup EpisodePcs \cup {"done"} => ShowKey(q) \in RefKeys
      /\ imp[q].pc \in EpisodePcs => ItemKey(q) \in RefKeys
      /\ imp[q].pc \in EpisodePcs \cup {"done"} => \A n \in DOMAIN imp[q].data.episodes :
             <<imp[q].src, imp[q].data.episodes[n].ext>> \in RefKeys
  <2>1. imp[q].pc \in ShowPcs \cup EpisodePcs \cup {"done"} => ShowKey(q) \in RefKeys
    BY <1>1 DEF RunShape, ShowKey, RefKeys, ImportedShow
  <2>2. imp[q].pc \in EpisodePcs => ItemKey(q) \in RefKeys
    BY <1>1, KeyTypes DEF RefKeys
  <2>3. ASSUME imp[q].pc \in EpisodePcs \cup {"done"}, NEW n \in DOMAIN imp[q].data.episodes
        PROVE  <<imp[q].src, imp[q].data.episodes[n].ext>> \in RefKeys
    <3>1. imp[q].src \in Sources /\ imp[q].data.episodes \in Seq(ImportedEpisode)
      BY <1>1, <2>3 DEF RunShape, ImportedShow
    <3>2. imp[q].data.episodes[n] \in ImportedEpisode
      BY <2>3, <3>1
    <3> QED
      BY <3>1, <3>2 DEF RefKeys, ImportedEpisode
  <2> QED
    BY <2>1, <2>2, <2>3
<1>6. RunRefs(q)'
  <2> USE <1>1, <1>2, <1>3, <1>4, <1>5 DEF RunShape, ShowPcs, EpisodePcs
  <2>1. ShowKey(q)' = ShowKey(q) /\ ItemKey(q)' = ItemKey(q)
    BY DEF ShowKey, ItemKey, Item
  <2>2. imp'[q].pc \in {"getShow", "updateShow"} => showRefs'[ShowKey(q)'] = imp'[q].owner
    BY <2>1, RowAssumption, StoreAssumption DEF RunRefs
  <2>3. imp'[q].pc = "refShow" => shows'[imp'[q].owner].createdBy = q
    BY DEF RunRefs, OwnersImported
  <2>4. imp'[q].pc \in EpisodePcs \cup {"done"} => showRefs'[ShowKey(q)'] = imp'[q].show
    BY <2>1, StoreAssumption DEF RunRefs
  <2>5. imp'[q].pc \in {"getEpisode", "updateEpisode"} =>
            episodeRefs'[ItemKey(q)'] = imp'[q].owner
    BY <2>1, StoreAssumption DEF RunRefs
  <2>6. imp'[q].pc = "refEpisode" =>
            /\ episodes'[imp'[q].owner].createdBy = q
            /\ episodes'[imp'[q].owner].show = imp'[q].show
    BY DEF RunRefs, OwnersImported
  <2>7. imp'[q].pc \in EpisodePcs \cup {"done"} =>
            \A n \in DOMAIN imp'[q].data.episodes : n < imp'[q].next =>
                episodeRefs'[<<imp'[q].src, imp'[q].data.episodes[n].ext>>] # None
    <3>1. ASSUME imp[q].pc \in EpisodePcs \cup {"done"},
                 NEW n \in DOMAIN imp[q].data.episodes, n < imp[q].next
          PROVE  episodeRefs'[<<imp[q].src, imp[q].data.episodes[n].ext>>] # None
      <4>1. episodeRefs[<<imp[q].src, imp[q].data.episodes[n].ext>>] # None
        BY <3>1 DEF RunRefs
      <4>2. <<imp[q].src, imp[q].data.episodes[n].ext>> \in RefKeys
        BY <3>1
      <4> QED
        BY <4>1, <4>2
    <3> QED
      BY <3>1
  <2>8. imp'[q].pc = "done" => imp'[q].next > Len(imp'[q].data.episodes)
    BY DEF RunRefs
  <2> QED
    BY <2>2, <2>3, <2>4, <2>5, <2>6, <2>7, <2>8 DEF RunRefs
<1>7. Unbound(q)'
  <2>1. ASSUME imp[q].pc = "refShow", NEW k \in RefKeys PROVE showRefs'[k] # imp[q].owner
    BY <1>2, <2>1 DEF Unbound, ShowReffed, RunRefs, StepBy
  <2>2. ASSUME imp[q].pc = "refEpisode", NEW k \in RefKeys PROVE episodeRefs'[k] # imp[q].owner
    BY <1>2, <2>2 DEF Unbound, EpisodeReffed, RunRefs, StepBy
  <2> QED
    BY <2>1, <2>2 DEF Unbound, ShowReffed, EpisodeReffed
<1>8. AtMostOneOrphan(q)'
  <2>1. ASSUME NEW i \in ShowIds, shows'[i] # None, shows'[i].createdBy = q
        PROVE  \/ \E k \in RefKeys : showRefs'[k] = i
               \/ imp[q].pc \in MayOrphan /\ imp[q].owner = i
    <3>1. shows[i] # None /\ shows[i].createdBy = q
      BY <1>4, <2>1 DEF StepBy
    <3>2. ASSUME NEW k \in RefKeys, showRefs[k] = i PROVE showRefs'[k] = i
      BY <1>3, <3>2, StoreAssumption
    <3> QED
      BY <1>2, <3>1, <3>2 DEF AtMostOneOrphan, ShowReffed
  <2>2. ASSUME NEW e \in EpisodeIds, episodes'[e] # None, episodes'[e].createdBy = q
        PROVE  \/ \E k \in RefKeys : episodeRefs'[k] = e
               \/ imp[q].pc \in MayOrphan /\ imp[q].owner = e
    <3>1. episodes[e] # None /\ episodes[e].createdBy = q
      BY <1>4, <2>2 DEF StepBy
    <3>2. ASSUME NEW k \in RefKeys, episodeRefs[k] = e PROVE episodeRefs'[k] = e
      BY <1>3, <3>2, StoreAssumption
    <3> QED
      BY <1>2, <3>1, <3>2 DEF AtMostOneOrphan, EpisodeReffed
  <2> QED
    BY <2>1, <2>2 DEF AtMostOneOrphan, ShowReffed, EpisodeReffed
<1>9. CountsWhatItMade(q)'
  <2>1. ASSUME NEW x \in ExtIds, <<"show", x>> \in imp[q].created
        PROVE  /\ <<imp[q].src, x>> \in RefKeys /\ showRefs'[<<imp[q].src, x>>] # None
               /\ shows'[showRefs'[<<imp[q].src, x>>]].createdBy = q
    <3>1. /\ <<imp[q].src, x>> \in RefKeys /\ showRefs[<<imp[q].src, x>>] # None
          /\ shows[showRefs[<<imp[q].src, x>>]].createdBy = q
      BY <1>2, <2>1 DEF CountsWhatItMade
    <3>2. /\ showRefs[<<imp[q].src, x>>] \in ShowIds
          /\ shows[showRefs[<<imp[q].src, x>>]] # None
      BY <1>1, <3>1 DEF StoreTypeOK, RefsImported, RefKeys
    <3> QED
      BY <1>3, <1>4, <3>1, <3>2
  <2>2. ASSUME NEW x \in ExtIds, <<"episode", x>> \in imp[q].created
        PROVE  /\ <<imp[q].src, x>> \in RefKeys /\ episodeRefs'[<<imp[q].src, x>>] # None
               /\ episodes'[episodeRefs'[<<imp[q].src, x>>]].createdBy = q
    <3>1. /\ <<imp[q].src, x>> \in RefKeys /\ episodeRefs[<<imp[q].src, x>>] # None
          /\ episodes[episodeRefs[<<imp[q].src, x>>]].createdBy = q
      BY <1>2, <2>2 DEF CountsWhatItMade
    <3>2. /\ episodeRefs[<<imp[q].src, x>>] \in EpisodeIds
          /\ episodes[episodeRefs[<<imp[q].src, x>>]] # None
      BY <1>1, <3>1 DEF StoreTypeOK, RefsImported, RefKeys
    <3> QED
      BY <1>3, <1>4, <3>1, <3>2
  <2> QED
    BY <1>2, <2>1, <2>2 DEF CountsWhatItMade
<1>10. MadeWhatItCounts(q)'
  <2>1. ASSUME NEW k \in RefKeys, showRefs'[k] # None, shows'[showRefs'[k]].createdBy = q
        PROVE  showRefs[k] # None /\ shows[showRefs[k]].createdBy = q
    BY <1>1, <1>3, <1>4, <2>1 DEF StepBy, RefsImported, StoreTypeOK, RefKeys
  <2>2. ASSUME NEW k \in RefKeys, episodeRefs'[k] # None,
               episodes'[episodeRefs'[k]].createdBy = q
        PROVE  episodeRefs[k] # None /\ episodes[episodeRefs[k]].createdBy = q
    BY <1>1, <1>3, <1>4, <2>2 DEF StepBy, RefsImported, StoreTypeOK, RefKeys
  <2> QED
    BY <1>2, <2>1, <2>2 DEF MadeWhatItCounts
<1> QED
  BY <1>6, <1>7, <1>8, <1>9, <1>10

(* A ref is bound by the run that is at it, to the row it has just made.   *)
BoundByTask ==
    /\ \A k \in RefKeys : showRefs'[k] # showRefs[k] =>
          \E r \in Runs :
              imp[r].pc = "refShow" /\ k = ShowKey(r) /\ showRefs'[k] = imp[r].owner
    /\ \A k \in RefKeys : episodeRefs'[k] # episodeRefs[k] =>
          \E r \in Runs :
              imp[r].pc = "refEpisode" /\ k = ItemKey(r) /\ episodeRefs'[k] = imp[r].owner

LEMMA SessionBinds ==
    ASSUME NEW s \in Sessions, SessionEffect(s) PROVE BoundByTask
<1>1. UNCHANGED <<showRefs, episodeRefs>>
  BY DEF SessionEffect, Refused, ShowCreated, ShowRead, ShowWritten, EpisodeDrafted,
         EpisodeCreated, EpisodeRead, EpisodeWritten, storeVars, ShowAdded, ShowChanged,
         EpisodeAdded, EpisodeChanged
<1> QED
  BY <1>1 DEF BoundByTask

LEMMA RunBinds ==
    ASSUME StatusTyped, NEW r \in Runs, RunEffect(r) PROVE BoundByTask
<1>1. StoreTypeOK
  BY DEF StatusTyped, KeysTyped, TypeInv, TypeOK
<1>2. CASE UNCHANGED <<showRefs, episodeRefs>>
  BY <1>2 DEF BoundByTask
<1>3. CASE imp[r].pc = "refShow" /\ ShowBound(ShowKey(r), imp[r].owner)
  BY <1>1, <1>3 DEF BoundByTask, ShowBound, StoreTypeOK, RefKeys
<1>4. CASE imp[r].pc = "refEpisode" /\ EpisodeBound(ItemKey(r), imp[r].owner)
  BY <1>1, <1>4 DEF BoundByTask, EpisodeBound, StoreTypeOK, RefKeys
<1> QED
  BY <1>2, <1>3, <1>4
     DEF RunEffect, Fetched, GaveUp, ShowLookedUp, ShowFound, ShowTried, ShowUpserted,
         EpisodeLookedUp, EpisodeFound, EpisodeTried, EpisodeUpserted, storeVars,
         ShowAdded, ShowChanged, EpisodeAdded, EpisodeChanged

LEMMA FeedsNext ==
    ASSUME StatusTyped, RefInv, RowsKept, NEW a, StepBy(a), TasksKept, BoundByTask
    PROVE  /\ ShowsOfTheirFeed' /\ EpisodesOfTheirFeed'
           /\ (\A k, l \in RefKeys :
                  episodeRefs[k] # None /\ episodeRefs[k] = episodeRefs[l] => k = l)'
<1>1. StoreTypeOK /\ RunsTyped /\ OwnersImported /\ RefsImported
  BY DEF StatusTyped, StatusInv, KeysTyped, TypeInv, TypeOK
<1>2. /\ ShowsOfTheirFeed /\ EpisodesOfTheirFeed
      /\ \A r \in Runs : RunRefs(r) /\ Unbound(r) /\ RunShape(imp[r])
      /\ \A k, l \in RefKeys :
            episodeRefs[k] # None /\ episodeRefs[k] = episodeRefs[l] => k = l
  BY <1>1 DEF RefInv, RunsTyped
<1>3. /\ \A k \in RefKeys : showRefs[k] # None => showRefs'[k] = showRefs[k]
      /\ \A k \in RefKeys : episodeRefs[k] # None => episodeRefs'[k] = episodeRefs[k]
  BY DEF StepBy
<1>4. ASSUME NEW q \in Runs, imp[q].pc # "idle"
      PROVE  imp'[q].pc # "idle" /\ imp'[q].src = imp[q].src /\ imp'[q].data = imp[q].data
  BY <1>4 DEF TasksKept, SameTask
<1>5. ASSUME NEW k \in RefKeys, showRefs'[k] # None
      PROVE  LET maker == shows'[showRefs'[k]].createdBy
             IN  imp'[maker].pc # "idle" /\ k = <<imp'[maker].src, imp'[maker].data.ext>>
  <2>1. CASE showRefs'[k] = showRefs[k]
    <3>1. /\ showRefs[k] \in ShowIds /\ shows[showRefs[k]] # None
          /\ shows[showRefs[k]].createdBy \in Runs
      BY <1>1, <1>5, <2>1 DEF RefsImported, StoreTypeOK, RefKeys
    <3>2. shows'[showRefs[k]].createdBy = shows[showRefs[k]].createdBy
      BY <3>1 DEF RowsKept, SameShow
    <3> QED
      BY <1>2, <1>4, <1>5, <2>1, <3>1, <3>2 DEF ShowsOfTheirFeed, ShowKey
  <2>2. CASE showRefs'[k] # showRefs[k]
    <3>1. PICK r \in Runs :
             imp[r].pc = "refShow" /\ k = ShowKey(r) /\ showRefs'[k] = imp[r].owner
      BY <2>2 DEF BoundByTask
    <3>2. /\ imp[r].owner \in ShowIds /\ shows[imp[r].owner] # None
          /\ shows[imp[r].owner].createdBy = r
      BY <1>1, <1>2, <3>1 DEF RunShape, OwnersImported, RunRefs
    <3>3. shows'[imp[r].owner].createdBy = r
      BY <3>2 DEF RowsKept, SameShow
    <3> QED
      BY <1>4, <3>1, <3>3 DEF ShowKey
  <2> QED
    BY <2>1, <2>2
<1>6. ASSUME NEW k \in RefKeys, episodeRefs'[k] # None
      PROVE  LET row == episodes'[episodeRefs'[k]]
                 maker == row.createdBy
             IN  /\ imp'[maker].pc # "idle"
                 /\ k[1] = imp'[maker].src /\ InFeed(imp'[maker], k[2])
                 /\ <<imp'[maker].src, imp'[maker].data.ext>> \in RefKeys
                 /\ showRefs'[<<imp'[maker].src, imp'[maker].data.ext>>] = row.show
  <2>1. CASE episodeRefs'[k] = episodeRefs[k]
    <3> DEFINE e == episodeRefs[k]
               maker == episodes[e].createdBy
    <3>1. e \in EpisodeIds /\ episodes[e] # None /\ episodes[e] \in EpisodeRow
      BY <1>1, <1>6, <2>1 DEF RefsImported, StoreTypeOK, RefKeys
    <3>2. maker \in Runs
      BY <1>1, <1>6, <2>1 DEF RefsImported, RefKeys
    <3>3. episodes'[e].createdBy = maker /\ episodes'[e].show = episodes[e].show
      BY <3>1 DEF RowsKept, SameEpisode
    <3>4. /\ imp[maker].pc # "idle" /\ k[1] = imp[maker].src /\ InFeed(imp[maker], k[2])
          /\ ShowKey(maker) \in RefKeys /\ showRefs[ShowKey(maker)] = episodes[e].show
      BY <1>2, <1>6, <2>1 DEF EpisodesOfTheirFeed
    <3>5. showRefs'[ShowKey(maker)] = episodes[e].show
      BY <1>3, <3>1, <3>4, StoreAssumption DEF EpisodeRow
    <3>6. imp'[maker].pc # "idle" /\ imp'[maker].src = imp[maker].src
          /\ imp'[maker].data = imp[maker].data
      BY <1>4, <3>2, <3>4
    <3>7. InFeed(imp'[maker], k[2])
      BY <3>4, <3>6 DEF InFeed
    <3> HIDE DEF maker
    <3> QED
      BY <2>1, <3>3, <3>4, <3>5, <3>6, <3>7 DEF ShowKey
  <2>2. CASE episodeRefs'[k] # episodeRefs[k]
    <3>1. PICK r \in Runs :
             imp[r].pc = "refEpisode" /\ k = ItemKey(r) /\ episodeRefs'[k] = imp[r].owner
      BY <2>2 DEF BoundByTask
    <3>2. /\ imp[r].owner \in EpisodeIds /\ episodes[imp[r].owner] # None
          /\ episodes[imp[r].owner].createdBy = r
          /\ episodes[imp[r].owner].show = imp[r].show
      BY <1>1, <1>2, <3>1 DEF RunShape, EpisodePcs, OwnersImported, RunRefs
    <3>3. episodes'[imp[r].owner].createdBy = r /\ episodes'[imp[r].owner].show = imp[r].show
      BY <3>2 DEF RowsKept, SameEpisode
    <3>4. imp[r].show \in ShowIds /\ showRefs[ShowKey(r)] = imp[r].show /\ ShowKey(r) \in RefKeys
      BY <1>2, <3>1 DEF RunShape, RunRefs, EpisodePcs, ShowKey, RefKeys, ImportedShow
    <3>5. showRefs'[ShowKey(r)] = imp[r].show
      BY <1>3, <3>4, StoreAssumption
    <3>6. imp[r].next \in DOMAIN imp[r].data.episodes
      <4>1. imp[r].data.episodes \in Seq(ImportedEpisode)
            /\ imp[r].next \in 1..Len(imp[r].data.episodes)
        BY <1>2, <3>1 DEF RunShape, EpisodePcs, ImportedShow
      <4> QED
        BY <4>1
    <3>7. InFeed(imp'[r], k[2]) /\ k[1] = imp[r].src
      BY <1>4, <3>1, <3>6 DEF InFeed, ItemKey, Item
    <3>8. imp'[r].pc # "idle" /\ imp'[r].src = imp[r].src /\ imp'[r].data = imp[r].data
      BY <1>4, <3>1
    <3> QED
      BY <3>1, <3>3, <3>4, <3>5, <3>7, <3>8 DEF ShowKey
  <2> QED
    BY <2>1, <2>2
<1>7. ASSUME NEW k \in RefKeys, NEW l \in RefKeys,
             episodeRefs'[k] # None, episodeRefs'[k] = episodeRefs'[l]
      PROVE  k = l
  <2>1. ASSUME NEW m \in RefKeys, NEW n \in RefKeys,
               episodeRefs'[m] = episodeRefs'[n], episodeRefs'[m] # episodeRefs[m]
        PROVE  m = n
    <3>1. PICK r \in Runs : /\ imp[r].pc = "refEpisode" /\ m = ItemKey(r)
                            /\ episodeRefs'[m] = imp[r].owner
      BY <2>1 DEF BoundByTask
    <3>2. episodes[imp[r].owner].createdBy = r
      BY <1>2, <3>1 DEF RunRefs
    <3>3. episodeRefs'[n] # episodeRefs[n]
      BY <1>2, <2>1, <3>1 DEF Unbound, EpisodeReffed
    <3>4. PICK q \in Runs : /\ imp[q].pc = "refEpisode" /\ n = ItemKey(q)
                            /\ episodeRefs'[n] = imp[q].owner
      BY <3>3 DEF BoundByTask
    <3>5. episodes[imp[q].owner].createdBy = q
      BY <1>2, <3>4 DEF RunRefs
    <3> QED
      BY <2>1, <3>1, <3>2, <3>4, <3>5
  <2> QED
    BY <1>2, <1>7, <2>1
<1> QED
  BY <1>5, <1>6, <1>7 DEF ShowsOfTheirFeed, EpisodesOfTheirFeed, ShowKey, InFeed

(* And of the run that moves.                                              *)
LEMMA MovedRefs ==
    ASSUME StatusTyped, RefInv, NEW r \in Runs, RunsWait(r), RunEffect(r)
    PROVE  RunRefs(r)'
<1>1. StoreTypeOK /\ RunShape(imp[r]) /\ RunRefs(r)
  BY DEF StatusTyped, KeysTyped, TypeInv, TypeOK, RunsTyped, RefInv
<1>2. /\ imp[r].pc \in ShowPcs => ShowKey(r) \in RefKeys
      /\ imp[r].pc \in EpisodePcs => ItemKey(r) \in RefKeys /\ ShowKey(r) \in RefKeys
  BY <1>1, KeyTypes DEF StatusTyped, KeysTyped, TypeInv, RunShape, ShowKey, RefKeys, ImportedShow
<1>3. SameTask(r) => ShowKey(r)' = ShowKey(r)
  BY DEF SameTask, ShowKey
<1>4. SameTask(r) /\ imp'[r].next = imp[r].next => ItemKey(r)' = ItemKey(r)
  BY DEF SameTask, ItemKey, Item
<1>5. imp'[r].pc \in {"findShow", "insertShow", "conflict", "failed"} => RunRefs(r)'
  BY DEF RunRefs, EpisodePcs
<1>6. CASE Fetched(r) \/ GaveUp(r)
  BY <1>5, <1>6 DEF Fetched, GaveUp
<1>7. CASE ShowLookedUp(r)
  <2>1. showRefs'[ShowKey(r)'] = imp'[r].owner /\ imp'[r].pc \in {"insertShow", "getShow"}
    BY <1>3, <1>7 DEF ShowLookedUp, storeVars
  <2> QED
    BY <2>1 DEF RunRefs, EpisodePcs
<1>8. CASE ShowFound(r)
  <2>1. showRefs'[ShowKey(r)'] = imp'[r].owner /\ imp'[r].pc = "updateShow"
    BY <1>1, <1>3, <1>8 DEF ShowFound, storeVars, RunRefs, SameOwner
  <2> QED
    BY <2>1 DEF RunRefs, EpisodePcs
<1>9. CASE ShowTried(r)
  <2>1. imp'[r].pc = "refShow" => shows'[imp'[r].owner].createdBy = r
    BY <1>1, <1>9 DEF ShowTried, ShowAdded, NewShowOf, StoreTypeOK
  <2> QED
    BY <1>9, <2>1 DEF ShowTried, RunRefs, EpisodePcs
<1>10. CASE ShowUpserted(r)
  <2>1. imp[r].pc \in {"updateShow", "refShow"} /\ imp[r].next = 1
    BY <1>1, <1>10 DEF ShowUpserted, RunShape, ShowPcs
  <2>2. showRefs'[ShowKey(r)] = imp[r].owner
    BY <1>1, <1>2, <1>10 DEF ShowUpserted, ShowChanged, ShowBound, RunRefs, StoreTypeOK,
                             ShowPcs, RefKeys
  <2>3. showRefs'[ShowKey(r)'] = imp'[r].show /\ imp'[r].next = 1
    BY <1>3, <1>10, <2>1, <2>2 DEF ShowUpserted
  <2>4. imp'[r].data = imp[r].data /\ imp[r].data.episodes \in Seq(ImportedEpisode)
    BY <1>1, <1>10, <2>1 DEF ShowUpserted, SameTask, RunShape, ShowPcs, ImportedShow
  <2>5. \A n \in DOMAIN imp'[r].data.episodes : ~(n < 1)
    BY <2>4
  <2>6. /\ imp'[r].pc \in {"findEpisode", "done"}
        /\ imp'[r].pc = "done" => 1 > Len(imp'[r].data.episodes)
    BY <1>10, <2>4 DEF ShowUpserted, LoopPc
  <2> QED
    BY <2>3, <2>5, <2>6 DEF RunRefs
<1>11. ASSUME imp[r].pc \in EpisodePcs, SameTask(r), imp'[r].show = imp[r].show,
              UNCHANGED showRefs
       PROVE  showRefs'[ShowKey(r)'] = imp'[r].show
  BY <1>1, <1>3, <1>11 DEF RunRefs
<1>12. ASSUME imp[r].pc \in EpisodePcs, SameTask(r), SameCount(r), UNCHANGED episodeRefs
       PROVE  \A n \in DOMAIN imp'[r].data.episodes : n < imp'[r].next =>
                  episodeRefs'[<<imp'[r].src, imp'[r].data.episodes[n].ext>>] # None
  BY <1>1, <1>12 DEF RunRefs, SameTask, SameCount
<1>13. CASE EpisodeLookedUp(r)
  <2>1. /\ episodeRefs'[ItemKey(r)'] = imp'[r].owner
        /\ imp'[r].pc \in {"insertEpisode", "getEpisode"}
    BY <1>4, <1>13 DEF EpisodeLookedUp, storeVars, SameCount
  <2> QED
    BY <1>11, <1>12, <1>13, <2>1 DEF EpisodeLookedUp, RunRefs, EpisodePcs, storeVars, SameCount
<1>14. CASE EpisodeFound(r)
  <2>1. episodeRefs'[ItemKey(r)'] = imp'[r].owner /\ imp'[r].pc = "updateEpisode"
    BY <1>1, <1>4, <1>14 DEF EpisodeFound, storeVars, RunRefs, SameOwner, SameCount
  <2> QED
    BY <1>11, <1>12, <1>14, <2>1 DEF EpisodeFound, RunRefs, EpisodePcs, storeVars, SameCount
<1>15. CASE EpisodeTried(r)
  <2>1. imp'[r].pc \in {"conflict", "failed"} => RunRefs(r)'
    BY <1>5
  <2>2. CASE imp'[r].pc = "refEpisode"
    <3>1. /\ episodes'[imp'[r].owner].createdBy = r
          /\ episodes'[imp'[r].owner].show = imp'[r].show
      BY <1>1, <1>15, <2>2
         DEF EpisodeTried, EpisodeAdded, NewEpisodeOf, StoreTypeOK, SameCount
    <3> QED
      BY <1>11, <1>12, <1>15, <2>2, <3>1
         DEF EpisodeTried, EpisodeAdded, RunRefs, EpisodePcs, SameCount
  <2> QED
    BY <1>15, <2>1, <2>2 DEF EpisodeTried
<1>16. CASE EpisodeUpserted(r)
  <2>1. /\ imp[r].pc \in {"updateEpisode", "refEpisode"} /\ imp[r].owner \in EpisodeIds
        /\ imp[r].data.episodes \in Seq(ImportedEpisode)
        /\ imp[r].next \in 1..Len(imp[r].data.episodes)
    BY <1>1, <1>16 DEF EpisodeUpserted, RunShape, EpisodePcs, ImportedShow
  <2>2. episodeRefs'[ItemKey(r)] = imp[r].owner /\ UNCHANGED showRefs
    BY <1>1, <1>2, <1>16
       DEF EpisodeUpserted, EpisodeChanged, EpisodeBound, RunRefs, StoreTypeOK, EpisodePcs, RefKeys
  <2>3. \A k \in RefKeys : episodeRefs[k] # None => episodeRefs'[k] = episodeRefs[k]
    BY <1>1, <1>16 DEF EpisodeUpserted, EpisodeChanged, EpisodeBound, StoreTypeOK, RefKeys
  <2>4. ASSUME NEW n \in DOMAIN imp[r].data.episodes, n < imp[r].next + 1
        PROVE  episodeRefs'[<<imp[r].src, imp[r].data.episodes[n].ext>>] # None
    <3>1. CASE n = imp[r].next
      BY <2>1, <2>2, <3>1, StoreAssumption DEF ItemKey, Item
    <3>2. CASE n < imp[r].next
      <4>1. episodeRefs[<<imp[r].src, imp[r].data.episodes[n].ext>>] # None
        BY <1>1, <2>1, <3>2 DEF RunRefs, EpisodePcs
      <4>2. imp[r].src \in Sources /\ imp[r].data.episodes[n] \in ImportedEpisode
        BY <1>1, <2>1 DEF RunShape, EpisodePcs
      <4>3. <<imp[r].src, imp[r].data.episodes[n].ext>> \in RefKeys
        BY <4>2 DEF RefKeys, ImportedEpisode
      <4> QED
        BY <2>3, <4>1, <4>3
    <3> QED
      BY <2>1, <2>4, <3>1, <3>2
  <2>5. imp'[r].src = imp[r].src /\ imp'[r].data = imp[r].data /\ imp'[r].next = imp[r].next + 1
    BY <1>16 DEF EpisodeUpserted, SameTask
  <2>6. /\ imp'[r].pc \in {"findEpisode", "done"}
        /\ imp'[r].pc = "done" => imp'[r].next > Len(imp'[r].data.episodes)
    BY <1>16, <2>5 DEF EpisodeUpserted, LoopPc
  <2>7. showRefs'[ShowKey(r)'] = imp'[r].show
    BY <1>11, <1>16, <2>1, <2>2 DEF EpisodeUpserted, EpisodePcs
  <2> QED
    BY <2>4, <2>5, <2>6, <2>7 DEF RunRefs
<1> QED
  BY <1>6, <1>7, <1>8, <1>9, <1>10, <1>13, <1>14, <1>15, <1>16 DEF RunEffect

LEMMA MovedOrphans ==
    ASSUME StatusTyped, RefInv, RowsKept, NEW r \in Runs, RunsWait(r), RunEffect(r), StepBy(r)
    PROVE  Unbound(r)' /\ AtMostOneOrphan(r)'
<1>1. StoreTypeOK /\ RunShape(imp[r]) /\ RefsImported /\ AtMostOneOrphan(r)
  BY DEF StatusTyped, StatusInv, KeysTyped, TypeInv, TypeOK, RunsTyped, RefInv
<1>2. /\ \A k \in RefKeys : showRefs[k] # None => showRefs'[k] = showRefs[k]
      /\ \A k \in RefKeys : episodeRefs[k] # None => episodeRefs'[k] = episodeRefs[k]
  BY DEF StepBy
<1>3. Unbound(r)'
  <2>1. imp'[r].pc = "refShow" =>
            ShowTried(r) /\ ShowAdded(imp'[r].owner, NewShowOf(r))
    BY DEF RunEffect, Fetched, GaveUp, ShowLookedUp, ShowFound, ShowTried, ShowUpserted,
           EpisodeLookedUp, EpisodeFound, EpisodeTried, EpisodeUpserted, LoopPc
  <2>2. imp'[r].pc = "refEpisode" =>
            EpisodeTried(r) /\ EpisodeAdded(imp'[r].owner, NewEpisodeOf(r))
    BY DEF RunEffect, Fetched, GaveUp, ShowLookedUp, ShowFound, ShowTried, ShowUpserted,
           EpisodeLookedUp, EpisodeFound, EpisodeTried, EpisodeUpserted, LoopPc
  <2>3. ASSUME imp'[r].pc = "refShow", NEW k \in RefKeys PROVE showRefs'[k] # imp'[r].owner
    BY <1>1, <2>1, <2>3, StoreAssumption DEF ShowAdded, RefsImported, RefKeys
  <2>4. ASSUME imp'[r].pc = "refEpisode", NEW k \in RefKeys
        PROVE  episodeRefs'[k] # imp'[r].owner
    BY <1>1, <2>2, <2>4, StoreAssumption DEF EpisodeAdded, RefsImported, RefKeys
  <2> QED
    BY <2>3, <2>4 DEF Unbound, ShowReffed, EpisodeReffed
\* The row without its ref is the one at hand, also where the run gives up.
<1>4. imp[r].pc \in MayOrphan =>
          \/ imp'[r].pc \in MayOrphan /\ imp'[r].owner = imp[r].owner
          \/ imp[r].pc = "refShow" /\ ShowBound(ShowKey(r), imp[r].owner)
          \/ imp[r].pc = "refEpisode" /\ EpisodeBound(ItemKey(r), imp[r].owner)
  BY DEF MayOrphan, RunEffect, Fetched, GaveUp, ShowLookedUp, ShowFound, ShowTried,
         ShowUpserted, EpisodeLookedUp, EpisodeFound, EpisodeTried, EpisodeUpserted, SameOwner
<1>5. ASSUME NEW i \in ShowIds, shows'[i] # None, shows'[i].createdBy = r
      PROVE  \/ \E k \in RefKeys : showRefs'[k] = i
             \/ imp'[r].pc \in MayOrphan /\ imp'[r].owner = i
  <2>1. CASE shows[i] = None
    <3>1. ShowTried(r) /\ ShowAdded(imp'[r].owner, NewShowOf(r))
      BY <1>1, <1>5, <2>1
         DEF RunEffect, Fetched, GaveUp, ShowLookedUp, ShowFound, ShowTried, ShowUpserted,
             EpisodeLookedUp, EpisodeFound, EpisodeTried, EpisodeUpserted, storeVars,
             ShowChanged, ShowBound, EpisodeAdded, EpisodeChanged, EpisodeBound, StoreTypeOK
    <3>2. imp'[r].owner = i
      BY <1>1, <1>5, <2>1, <3>1 DEF ShowAdded, StoreTypeOK
    <3>3. imp'[r].pc \in MayOrphan
      BY <3>1 DEF ShowTried, MayOrphan
    <3> QED
      BY <3>2, <3>3
  <2>2. CASE shows[i] # None
    <3>1. shows[i].createdBy = r
      BY <1>5, <2>2 DEF RowsKept, SameShow
    <3>2. ASSUME NEW k \in RefKeys, showRefs[k] = i PROVE showRefs'[k] = i
      BY <1>2, <3>2, StoreAssumption
    <3>3. ASSUME imp[r].pc = "refShow", ShowBound(ShowKey(r), imp[r].owner)
          PROVE  \E k \in RefKeys : showRefs'[k] = imp[r].owner
      BY <1>1, <3>3 DEF ShowBound, StoreTypeOK, RefKeys
    <3>4. ASSUME imp[r].pc = "refEpisode" PROVE imp[r].owner # i
      BY <1>1, <3>4, StoreAssumption DEF RunShape, EpisodePcs
    <3> QED
      BY <1>1, <1>4, <2>2, <3>1, <3>2, <3>3, <3>4 DEF AtMostOneOrphan, ShowReffed
  <2> QED
    BY <2>1, <2>2
<1>6. ASSUME NEW e \in EpisodeIds, episodes'[e] # None, episodes'[e].createdBy = r
      PROVE  \/ \E k \in RefKeys : episodeRefs'[k] = e
             \/ imp'[r].pc \in MayOrphan /\ imp'[r].owner = e
  <2>1. CASE episodes[e] = None
    <3>1. EpisodeTried(r) /\ EpisodeAdded(imp'[r].owner, NewEpisodeOf(r))
      BY <1>1, <1>6, <2>1
         DEF RunEffect, Fetched, GaveUp, ShowLookedUp, ShowFound, ShowTried, ShowUpserted,
             EpisodeLookedUp, EpisodeFound, EpisodeTried, EpisodeUpserted, storeVars,
             ShowAdded, ShowChanged, ShowBound, EpisodeChanged, EpisodeBound, StoreTypeOK
    <3>2. imp'[r].owner = e
      BY <1>1, <1>6, <2>1, <3>1 DEF EpisodeAdded, StoreTypeOK
    <3>3. imp'[r].pc \in MayOrphan
      BY <3>1 DEF EpisodeTried, MayOrphan
    <3> QED
      BY <3>2, <3>3
  <2>2. CASE episodes[e] # None
    <3>1. episodes[e].createdBy = r
      BY <1>6, <2>2 DEF RowsKept, SameEpisode
    <3>2. ASSUME NEW k \in RefKeys, episodeRefs[k] = e PROVE episodeRefs'[k] = e
      BY <1>2, <3>2, StoreAssumption
    <3>3. ASSUME imp[r].pc = "refEpisode", EpisodeBound(ItemKey(r), imp[r].owner)
          PROVE  \E k \in RefKeys : episodeRefs'[k] = imp[r].owner
      BY <1>1, <3>3 DEF EpisodeBound, StoreTypeOK, RefKeys
    <3>4. ASSUME imp[r].pc = "refShow" PROVE imp[r].owner # e
      BY <1>1, <3>4, StoreAssumption DEF RunShape
    <3> QED
      BY <1>1, <1>4, <2>2, <3>1, <3>2, <3>3, <3>4 DEF AtMostOneOrphan, EpisodeReffed
  <2> QED
    BY <2>1, <2>2
<1> QED
  BY <1>3, <1>5, <1>6 DEF AtMostOneOrphan, ShowReffed, EpisodeReffed

\* What a step of a run does to its count.
CountStep(r) ==
    /\ imp[r].pc \notin {"conflict", "failed"}
    /\ imp'[r].pc \in ShowPcs \cup {"idle"} => imp'[r].created = {}
    /\ imp[r].created \subseteq imp'[r].created
    /\ SameTask(r) \/ imp[r].created = {}
    /\ \A x : <<"show", x>> \in imp'[r].created \ imp[r].created =>
          /\ SameTask(r) /\ imp[r].pc = "refShow" /\ x = imp[r].data.ext
          /\ ShowBound(ShowKey(r), imp[r].owner)
    /\ \A x : <<"episode", x>> \in imp'[r].created \ imp[r].created =>
          /\ SameTask(r) /\ imp[r].pc = "refEpisode" /\ x = Item(r).ext
          /\ EpisodeBound(ItemKey(r), imp[r].owner)
    /\ imp'[r].pc \notin {"conflict", "failed"} =>
          /\ imp[r].pc = "refShow" => <<"show", imp[r].data.ext>> \in imp'[r].created
          /\ imp[r].pc = "refEpisode" => <<"episode", Item(r).ext>> \in imp'[r].created

LEMMA CountSteps ==
    ASSUME StatusTyped, RefInv, NEW r \in Runs, RunsWait(r), RunEffect(r)
    PROVE  CountStep(r)
<1>1. imp[r].pc \in ShowPcs \cup {"idle"} => imp[r].created = {}
  BY DEF RefInv, CountsWhatItMade
<1>2. CASE Fetched(r)
  BY <1>1, <1>2 DEF Fetched, CountStep, SameCount
<1>3. CASE GaveUp(r)
  <2>1. imp[r].pc \notin {"conflict", "failed"}
    BY <1>3 DEF GaveUp, Stopped
  <2> QED
    BY <1>3, <2>1 DEF GaveUp, CountStep, SameCount, ShowPcs
<1>4. CASE ShowLookedUp(r) \/ ShowFound(r) \/ ShowTried(r)
  BY <1>1, <1>4 DEF ShowLookedUp, ShowFound, ShowTried, CountStep, SameCount, ShowPcs
<1>5. CASE ShowUpserted(r)
  BY <1>1, <1>5 DEF ShowUpserted, CountStep, ShowPcs, LoopPc
<1>6. CASE EpisodeLookedUp(r) \/ EpisodeFound(r) \/ EpisodeTried(r)
  BY <1>6 DEF EpisodeLookedUp, EpisodeFound, EpisodeTried, CountStep, SameCount, ShowPcs
<1>7. CASE EpisodeUpserted(r)
  BY <1>7 DEF EpisodeUpserted, CountStep, ShowPcs, LoopPc
<1> QED
  BY <1>2, <1>3, <1>4, <1>5, <1>6, <1>7 DEF RunEffect

LEMMA MovedCounts ==
    ASSUME StatusTyped, RefInv, RowsKept, NEW r \in Runs, RunsWait(r), RunEffect(r),
           StepBy(r), BoundByTask
    PROVE  CountsWhatItMade(r)' /\ MadeWhatItCounts(r)'
<1>1. /\ StoreTypeOK /\ RunShape(imp[r]) /\ RefsImported /\ OwnersImported
      /\ RunRefs(r) /\ CountsWhatItMade(r) /\ MadeWhatItCounts(r)
  BY DEF StatusTyped, StatusInv, KeysTyped, TypeInv, TypeOK, RunsTyped, RefInv
<1>2. CountStep(r)
  BY CountSteps
<1>3. /\ \A k \in RefKeys : showRefs[k] # None => showRefs'[k] = showRefs[k]
      /\ \A k \in RefKeys : episodeRefs[k] # None => episodeRefs'[k] = episodeRefs[k]
  BY DEF StepBy
<1>4. /\ \A i \in ShowIds : shows[i] # None =>
             shows'[i] # None /\ shows'[i].createdBy = shows[i].createdBy
      /\ \A e \in EpisodeIds : episodes[e] # None =>
             episodes'[e] # None /\ episodes'[e].createdBy = episodes[e].createdBy
  BY DEF RowsKept, SameShow, SameEpisode
<1>5. /\ \A k \in RefKeys : showRefs[k] # None =>
             showRefs[k] \in ShowIds /\ shows[showRefs[k]] # None
      /\ \A k \in RefKeys : episodeRefs[k] # None =>
             episodeRefs[k] \in EpisodeIds /\ episodes[episodeRefs[k]] # None
  BY <1>1 DEF StoreTypeOK, RefsImported, RefKeys
<1>6. ASSUME NEW x \in ExtIds, <<"show", x>> \in imp'[r].created
      PROVE  /\ <<imp'[r].src, x>> \in RefKeys /\ showRefs'[<<imp'[r].src, x>>] # None
             /\ shows'[showRefs'[<<imp'[r].src, x>>]].createdBy = r
  <2>1. CASE <<"show", x>> \in imp[r].created
    <3>1. imp'[r].src = imp[r].src
      BY <1>2, <2>1 DEF CountStep, SameTask
    <3>2. /\ <<imp[r].src, x>> \in RefKeys /\ showRefs[<<imp[r].src, x>>] # None
          /\ shows[showRefs[<<imp[r].src, x>>]].createdBy = r
      BY <1>1, <2>1 DEF CountsWhatItMade
    <3> QED
      BY <1>3, <1>4, <1>5, <3>1, <3>2
  <2>2. CASE <<"show", x>> \notin imp[r].created
    <3>1. /\ imp'[r].src = imp[r].src /\ imp[r].pc = "refShow" /\ x = imp[r].data.ext
          /\ ShowBound(ShowKey(r), imp[r].owner)
      BY <1>2, <1>6, <2>2 DEF CountStep, SameTask
    <3>2. imp[r].owner \in ShowIds /\ <<imp[r].src, x>> = ShowKey(r) /\ ShowKey(r) \in RefKeys
      BY <3>1 DEF ShowKey, ShowBound, RefKeys
    <3>3. showRefs'[ShowKey(r)] = imp[r].owner
      BY <1>1, <3>1, <3>2 DEF ShowBound, StoreTypeOK, RefKeys
    <3>4. shows'[imp[r].owner].createdBy = r
      BY <1>1, <1>4, <3>1, <3>2 DEF RunRefs, OwnersImported
    <3> QED
      BY <3>1, <3>2, <3>3, <3>4, StoreAssumption
  <2> QED
    BY <2>1, <2>2
<1>7. ASSUME NEW x \in ExtIds, <<"episode", x>> \in imp'[r].created
      PROVE  /\ <<imp'[r].src, x>> \in RefKeys /\ episodeRefs'[<<imp'[r].src, x>>] # None
             /\ episodes'[episodeRefs'[<<imp'[r].src, x>>]].createdBy = r
  <2>1. CASE <<"episode", x>> \in imp[r].created
    <3>1. imp'[r].src = imp[r].src
      BY <1>2, <2>1 DEF CountStep, SameTask
    <3>2. /\ <<imp[r].src, x>> \in RefKeys /\ episodeRefs[<<imp[r].src, x>>] # None
          /\ episodes[episodeRefs[<<imp[r].src, x>>]].createdBy = r
      BY <1>1, <2>1 DEF CountsWhatItMade
    <3> QED
      BY <1>3, <1>4, <1>5, <3>1, <3>2
  <2>2. CASE <<"episode", x>> \notin imp[r].created
    <3>1. /\ imp'[r].src = imp[r].src /\ imp[r].pc = "refEpisode" /\ x = Item(r).ext
          /\ EpisodeBound(ItemKey(r), imp[r].owner)
      BY <1>2, <1>7, <2>2 DEF CountStep, SameTask
    <3>2. /\ imp[r].owner \in EpisodeIds
          /\ <<imp[r].src, x>> = ItemKey(r) /\ ItemKey(r) \in RefKeys
      BY <3>1 DEF ItemKey, EpisodeBound, RefKeys
    <3>3. episodeRefs'[ItemKey(r)] = imp[r].owner
      BY <1>1, <3>1, <3>2 DEF EpisodeBound, StoreTypeOK, RefKeys
    <3>4. episodes'[imp[r].owner].createdBy = r
      BY <1>1, <1>4, <3>1, <3>2 DEF RunRefs, OwnersImported
    <3> QED
      BY <3>1, <3>2, <3>3, <3>4, StoreAssumption
  <2> QED
    BY <2>1, <2>2
<1>8. CountsWhatItMade(r)'
  <2>1. imp'[r].pc \in ShowPcs \cup {"idle"} => imp'[r].created = {}
    BY <1>2 DEF CountStep
  <2> QED
    BY <1>6, <1>7, <2>1 DEF CountsWhatItMade, RefKeys, ShowPcs
<1>9. ASSUME imp'[r].pc \notin {"conflict", "failed"}, NEW k \in RefKeys,
             showRefs'[k] # None, shows'[showRefs'[k]].createdBy = r
      PROVE  k[1] = imp'[r].src /\ <<"show", k[2]>> \in imp'[r].created
  <2>1. CASE showRefs'[k] = showRefs[k]
    <3>1. shows[showRefs[k]].createdBy = r
      BY <1>4, <1>5, <1>9, <2>1
    <3>2. k[1] = imp[r].src /\ <<"show", k[2]>> \in imp[r].created
      BY <1>1, <1>2, <1>9, <2>1, <3>1 DEF MadeWhatItCounts, CountStep
    <3> QED
      BY <1>2, <3>2 DEF CountStep, SameTask
  <2>2. CASE showRefs'[k] # showRefs[k]
    <3>1. PICK q \in Runs :
             imp[q].pc = "refShow" /\ k = ShowKey(q) /\ showRefs'[k] = imp[q].owner
      BY <2>2 DEF BoundByTask
    <3>2. shows[showRefs'[k]].createdBy = r
      BY <2>2 DEF StepBy
    <3>3. q = r
      BY <3>1, <3>2 DEF StatusTyped, RefInv, RunRefs
    <3>4. /\ imp[r].pc = "refShow" /\ k[1] = imp[r].src /\ k[2] = imp[r].data.ext
          /\ <<"show", k[2]>> \in imp'[r].created
      BY <1>2, <1>9, <3>1, <3>3 DEF CountStep, ShowKey
    <3>5. imp'[r].src = imp[r].src
      BY <3>4 DEF RunEffect, Fetched, GaveUp, ShowLookedUp, ShowFound, ShowTried, ShowUpserted,
                  EpisodeLookedUp, EpisodeFound, EpisodeTried, EpisodeUpserted, SameTask
    <3> QED
      BY <3>4, <3>5
  <2> QED
    BY <2>1, <2>2
<1>10. ASSUME imp'[r].pc \notin {"conflict", "failed"}, NEW k \in RefKeys,
              episodeRefs'[k] # None, episodes'[episodeRefs'[k]].createdBy = r
       PROVE  k[1] = imp'[r].src /\ <<"episode", k[2]>> \in imp'[r].created
  <2>1. CASE episodeRefs'[k] = episodeRefs[k]
    <3>1. episodes[episodeRefs[k]].createdBy = r
      BY <1>4, <1>5, <1>10, <2>1
    <3>2. k[1] = imp[r].src /\ <<"episode", k[2]>> \in imp[r].created
      BY <1>1, <1>2, <1>10, <2>1, <3>1 DEF MadeWhatItCounts, CountStep
    <3> QED
      BY <1>2, <3>2 DEF CountStep, SameTask
  <2>2. CASE episodeRefs'[k] # episodeRefs[k]
    <3>1. PICK q \in Runs :
             imp[q].pc = "refEpisode" /\ k = ItemKey(q) /\ episodeRefs'[k] = imp[q].owner
      BY <2>2 DEF BoundByTask
    <3>2. episodes[episodeRefs'[k]].createdBy = r
      BY <2>2 DEF StepBy
    <3>3. q = r
      BY <3>1, <3>2 DEF StatusTyped, RefInv, RunRefs
    <3>4. /\ imp[r].pc = "refEpisode" /\ k[1] = imp[r].src /\ k[2] = Item(r).ext
          /\ <<"episode", k[2]>> \in imp'[r].created
      BY <1>2, <1>10, <3>1, <3>3 DEF CountStep, ItemKey
    <3>5. imp'[r].src = imp[r].src
      BY <3>4 DEF RunEffect, Fetched, GaveUp, ShowLookedUp, ShowFound, ShowTried, ShowUpserted,
                  EpisodeLookedUp, EpisodeFound, EpisodeTried, EpisodeUpserted, SameTask
    <3> QED
      BY <3>4, <3>5
  <2> QED
    BY <2>1, <2>2
<1> QED
  BY <1>8, <1>9, <1>10 DEF MadeWhatItCounts

RefTyped == StatusTyped /\ RefInv

LEMMA InitRefs == Init => RefInv
  BY DEF Init, StoreInit, IngestionInit, RefInv, ShowsOfTheirFeed, EpisodesOfTheirFeed, RefKeys,
         RunRefs, Unbound, AtMostOneOrphan, CountsWhatItMade, MadeWhatItCounts, ShowPcs,
         EpisodePcs, MayOrphan

LEMMA NextRefs == RefTyped /\ [Next]_vars => RefInv'
<1> SUFFICES ASSUME RefTyped, [Next]_vars PROVE RefInv'
  OBVIOUS
<1>1. StatusTyped /\ KeysTyped /\ StoreTypeOK /\ RefInv /\ RowsKept
  BY NextKeys DEF RefTyped, StatusTyped, KeysTyped, TypeInv, TypeOK
<1>2. CASE UNCHANGED vars
  <2>1. ShowsOfTheirFeed' /\ EpisodesOfTheirFeed'
    BY <1>1, <1>2 DEF vars, RefInv, ShowsOfTheirFeed, EpisodesOfTheirFeed, ShowKey, InFeed
  <2>2. ASSUME NEW r \in Runs PROVE RunRefs(r)' /\ Unbound(r)' /\ AtMostOneOrphan(r)'
    <3>1. /\ imp' = imp /\ shows' = shows /\ episodes' = episodes
          /\ showRefs' = showRefs /\ episodeRefs' = episodeRefs
      BY <1>2 DEF vars, storeVars
    <3>2. RunRefs(r) /\ Unbound(r) /\ AtMostOneOrphan(r)
      BY <1>1 DEF RefInv
    <3>3. RunRefs(r)'
      BY <3>1, <3>2 DEF RunRefs, ShowKey, ItemKey, Item
    <3>4. Unbound(r)'
      BY <3>1, <3>2 DEF Unbound, ShowReffed, EpisodeReffed
    <3>5. AtMostOneOrphan(r)'
      BY <3>1, <3>2 DEF AtMostOneOrphan, ShowReffed, EpisodeReffed
    <3> QED
      BY <3>3, <3>4, <3>5
  <2>3. ASSUME NEW r \in Runs PROVE CountsWhatItMade(r)' /\ MadeWhatItCounts(r)'
    BY <1>1, <1>2 DEF vars, RefInv, CountsWhatItMade, MadeWhatItCounts
  <2> QED
    BY <1>1, <1>2, <2>1, <2>2, <2>3 DEF vars, RefInv
<1>3. ASSUME NEW s \in Sessions, OthersWait(s), SessionEffect(s) PROVE RefInv'
  <2>1. StepBy(s) /\ TasksKept /\ BoundByTask
    BY <1>1, <1>3, SessionAdds, SessionBinds
  <2>2. ASSUME NEW q \in Runs
        PROVE  /\ RunRefs(q)' /\ Unbound(q)' /\ AtMostOneOrphan(q)'
               /\ CountsWhatItMade(q)' /\ MadeWhatItCounts(q)'
    <3>1. q # s /\ imp'[q] = imp[q]
      BY <1>3, StoreAssumption DEF OthersWait
    <3> QED
      BY <1>1, <2>1, <3>1, StillRefs
  <2> QED
    BY <1>1, <2>1, <2>2, FeedsNext DEF RefInv
<1>4. ASSUME NEW r \in Runs, RunsWait(r), RunEffect(r) PROVE RefInv'
  <2>1. StepBy(r) /\ TasksKept /\ BoundByTask
    BY <1>1, <1>4, RunAdds, RunBinds
  <2>2. /\ RunRefs(r)' /\ Unbound(r)' /\ AtMostOneOrphan(r)'
        /\ CountsWhatItMade(r)' /\ MadeWhatItCounts(r)'
    BY <1>1, <1>4, <2>1, MovedRefs, MovedOrphans, MovedCounts
  <2>3. ASSUME NEW q \in Runs, q # r
        PROVE  /\ RunRefs(q)' /\ Unbound(q)' /\ AtMostOneOrphan(q)'
               /\ CountsWhatItMade(q)' /\ MadeWhatItCounts(q)'
    <3>1. imp'[q] = imp[q]
      BY <1>4, <2>3 DEF RunsWait
    <3> QED
      BY <1>1, <2>1, <2>3, <3>1, StillRefs
  <2> QED
    BY <1>1, <2>1, <2>2, <2>3, FeedsNext DEF RefInv
<1> QED
  BY <1>1, <1>2, <1>3, <1>4, Effects

LEMMA RefsInductive == Spec => []RefTyped
<1>1. StatusTyped /\ RefInv <=> RefTyped
  BY DEF RefTyped
<1>2. Spec => []RefInv
  <2>1. StatusTyped /\ RefInv /\ [Next]_vars => RefInv'
    BY <1>1, NextRefs
  <2> QED
    BY InitRefs, <2>1, StatusInductive, PTL DEF Spec
<1> QED
  BY <1>1, <1>2, StatusInductive, PTL

----------------------------------------------------------------------------
(* An imported episode is under the show that its own feed imported.       *)
THEOREM EpisodesUnderTheirShows == Spec => []RefedEpisodesUnderRefedShows
<1>1. RefTyped => RefedEpisodesUnderRefedShows
  <2> SUFFICES ASSUME RefTyped, NEW src \in Sources, NEW x \in ExtIds,
                      episodeRefs[<<src, x>>] # None
               PROVE  \E y \in ExtIds :
                          showRefs[<<src, y>>] = episodes[episodeRefs[<<src, x>>]].show
    BY DEF RefedEpisodesUnderRefedShows
  <2> DEFINE maker == episodes[episodeRefs[<<src, x>>]].createdBy
  <2>1. <<src, x>> \in RefKeys /\ EpisodesOfTheirFeed
    BY DEF RefKeys, RefTyped, RefInv
  <2>2. /\ src = imp[maker].src /\ ShowKey(maker) \in RefKeys
        /\ showRefs[ShowKey(maker)] = episodes[episodeRefs[<<src, x>>]].show
    BY <2>1 DEF EpisodesOfTheirFeed
  <2>3. ShowKey(maker) = <<src, imp[maker].data.ext>> /\ imp[maker].data.ext \in ExtIds
    BY <2>2 DEF ShowKey, RefKeys
  <2> QED
    BY <2>2, <2>3
<1> QED
  BY <1>1, RefsInductive, PTL

(* A run loses at most one row, the one between whose two inserts it was   *)
(* cut: all other rows it made have their ref.                             *)
THEOREM OrphansBounded == Spec => []OrphanBound
<1>1. RefTyped => OrphanBound
  <2> SUFFICES ASSUME RefTyped, NEW r \in Runs
               PROVE  /\ RowsOf(r) \ Owners \subseteq {imp[r].owner}
                      /\ imp[r].pc \notin MayOrphan => RowsOf(r) \subseteq Owners
    BY DEF OrphanBound, MayOrphan
  <2>1. AtMostOneOrphan(r)
    BY DEF RefTyped, RefInv
  <2>2. ASSUME NEW row \in RowsOf(r)
        PROVE  \/ row \in Owners
               \/ imp[r].pc \in MayOrphan /\ imp[r].owner = row
    BY <2>1, <2>2 DEF AtMostOneOrphan, RowsOf, Owners, ShowReffed, EpisodeReffed, RefKeys
  <2> QED
    BY <2>2
<1> QED
  BY <1>1, RefsInductive, PTL

----------------------------------------------------------------------------
(* The refinement: what a step does to the rows and the refs is a step of  *)
(* each ledger, or nothing of its business.                                *)
ShowRowsThere == {i \in ShowIds : shows[i] # None}
EpisodeRowsThere == {e \in EpisodeIds : episodes[e] # None}

\* One row more, or one ref more, or neither, in each of the two ledgers.
LedgerStep(row, key) ==
    /\ \/ ShowRowsThere' = ShowRowsThere /\ showRefs' = showRefs
       \/ /\ row \in ShowIds \ ShowRowsThere
          /\ ShowRowsThere' = ShowRowsThere \cup {row} /\ showRefs' = showRefs
       \/ /\ ShowRowsThere' = ShowRowsThere /\ key \in RefKeys /\ showRefs[key] = None
          /\ row \in ShowRowsThere /\ ~ShowReffed(row)
          /\ showRefs' = [showRefs EXCEPT ![key] = row]
    /\ \/ EpisodeRowsThere' = EpisodeRowsThere /\ episodeRefs' = episodeRefs
       \/ /\ row \in EpisodeIds \ EpisodeRowsThere
          /\ EpisodeRowsThere' = EpisodeRowsThere \cup {row} /\ episodeRefs' = episodeRefs
       \/ /\ EpisodeRowsThere' = EpisodeRowsThere /\ key \in RefKeys /\ episodeRefs[key] = None
          /\ row \in EpisodeRowsThere /\ ~EpisodeReffed(row)
          /\ episodeRefs' = [episodeRefs EXCEPT ![key] = row]

LEMMA TablesLedger ==
    ASSUME StoreTypeOK
    PROVE  /\ UNCHANGED storeVars => \A row, key : LedgerStep(row, key)
           /\ \A i, new, key : ShowAdded(i, new) => LedgerStep(i, key)
           /\ \A i, new, row, key : ShowChanged(i, new) => LedgerStep(row, key)
           /\ \A key, i : ShowBound(key, i) /\ shows[i] # None /\ ~ShowReffed(i)
                  => LedgerStep(i, key)
           /\ \A e, new, key : EpisodeAdded(e, new) => LedgerStep(e, key)
           /\ \A e, new, row, key : EpisodeChanged(e, new) => LedgerStep(row, key)
           /\ \A key, e : EpisodeBound(key, e) /\ episodes[e] # None /\ ~EpisodeReffed(e)
                  => LedgerStep(e, key)
<1> USE DEF LedgerStep, ShowRowsThere, EpisodeRowsThere
<1>1. UNCHANGED storeVars => \A row, key : LedgerStep(row, key)
  BY DEF storeVars
<1>2. ASSUME NEW i, NEW new, NEW key, ShowAdded(i, new) PROVE LedgerStep(i, key)
  <2>1. i \in ShowIds \ ShowRowsThere /\ ShowRowsThere' = ShowRowsThere \cup {i}
    BY <1>2, RowAssumption DEF ShowAdded, StoreTypeOK
  <2> QED
    BY <1>2, <2>1 DEF ShowAdded
<1>3. ASSUME NEW i, NEW new, NEW row, NEW key, ShowChanged(i, new)
      PROVE  LedgerStep(row, key)
  <2>1. ShowRowsThere' = ShowRowsThere
    BY <1>3, RowAssumption DEF ShowChanged, StoreTypeOK
  <2> QED
    BY <1>3, <2>1 DEF ShowChanged
<1>4. ASSUME NEW key, NEW i, ShowBound(key, i), shows[i] # None, ~ShowReffed(i)
      PROVE  LedgerStep(i, key)
  BY <1>4 DEF ShowBound, RefKeys
<1>5. ASSUME NEW e, NEW new, NEW key, EpisodeAdded(e, new) PROVE LedgerStep(e, key)
  <2>1. e \in EpisodeIds \ EpisodeRowsThere /\ EpisodeRowsThere' = EpisodeRowsThere \cup {e}
    BY <1>5, RowAssumption DEF EpisodeAdded, StoreTypeOK
  <2> QED
    BY <1>5, <2>1 DEF EpisodeAdded
<1>6. ASSUME NEW e, NEW new, NEW row, NEW key, EpisodeChanged(e, new)
      PROVE  LedgerStep(row, key)
  <2>1. EpisodeRowsThere' = EpisodeRowsThere
    BY <1>6, RowAssumption DEF EpisodeChanged, StoreTypeOK
  <2> QED
    BY <1>6, <2>1 DEF EpisodeChanged
<1>7. ASSUME NEW key, NEW e, EpisodeBound(key, e), episodes[e] # None, ~EpisodeReffed(e)
      PROVE  LedgerStep(e, key)
  BY <1>7 DEF EpisodeBound, RefKeys
<1> HIDE DEF LedgerStep
<1> QED
  BY <1>1, <1>2, <1>3, <1>4, <1>5, <1>6, <1>7

LEMMA NextLedger == RefTyped /\ [Next]_vars => \E row, key : LedgerStep(row, key)
<1> SUFFICES ASSUME RefTyped, [Next]_vars PROVE \E row, key : LedgerStep(row, key)
  OBVIOUS
<1>1. KeysTyped /\ StoreTypeOK /\ OwnersImported /\ \A r \in Runs : Unbound(r)
  BY DEF RefTyped, RefInv, StatusTyped, StatusInv, KeysTyped, TypeInv, TypeOK
<1>2. CASE UNCHANGED vars
  BY <1>1, <1>2, TablesLedger DEF vars, storeVars
<1>3. ASSUME NEW s \in Sessions, SessionEffect(s) PROVE \E row, key : LedgerStep(row, key)
  BY <1>1, <1>3, TablesLedger
     DEF SessionEffect, Refused, ShowCreated, ShowRead, ShowWritten, EpisodeDrafted,
         EpisodeCreated, EpisodeRead, EpisodeWritten
<1>4. ASSUME NEW r \in Runs, RunEffect(r) PROVE \E row, key : LedgerStep(row, key)
  <2>1. /\ imp[r].pc = "refShow" => shows[imp[r].owner] # None /\ ~ShowReffed(imp[r].owner)
        /\ imp[r].pc = "refEpisode" =>
              episodes[imp[r].owner] # None /\ ~EpisodeReffed(imp[r].owner)
    BY <1>1 DEF OwnersImported, Unbound
  <2> QED
    BY <1>1, <1>4, <2>1, TablesLedger
       DEF RunEffect, Fetched, GaveUp, ShowLookedUp, ShowFound, ShowTried, ShowUpserted,
           EpisodeLookedUp, EpisodeFound, EpisodeTried, EpisodeUpserted
<1> QED
  BY <1>1, <1>2, <1>3, <1>4, Effects

(* The refs of shows, and those of episodes, are ledgers: a key is bound   *)
(* once and for good, to a row that is there and has no other key, although *)
(* a run makes the row and binds it in two statements, next to other runs. *)
THEOREM RefsImplementLedgers == Spec => RefsAreLedgers
<1>1. Init => ShowLedger!Init /\ EpisodeLedger!Init
  BY DEF Init, StoreInit, ShowLedger!Init, EpisodeLedger!Init
<1>2. ASSUME NEW row, NEW key, LedgerStep(row, key)
      PROVE  /\ [ShowLedger!Next]_<<ShowRowsThere, showRefs>>
             /\ [EpisodeLedger!Next]_<<EpisodeRowsThere, episodeRefs>>
  <2>1. [ShowLedger!Next]_<<ShowRowsThere, showRefs>>
    BY <1>2
       DEF LedgerStep, ShowReffed, RefKeys, ShowRowsThere,
           ShowLedger!Next, ShowLedger!Create, ShowLedger!Bind
  <2>2. [EpisodeLedger!Next]_<<EpisodeRowsThere, episodeRefs>>
    BY <1>2
       DEF LedgerStep, EpisodeReffed, RefKeys, EpisodeRowsThere,
           EpisodeLedger!Next, EpisodeLedger!Create, EpisodeLedger!Bind
  <2> QED
    BY <2>1, <2>2
<1>3. RefTyped /\ [Next]_vars =>
          /\ [ShowLedger!Next]_<<{i \in ShowIds : shows[i] # None}, showRefs>>
          /\ [EpisodeLedger!Next]_<<{e \in EpisodeIds : episodes[e] # None}, episodeRefs>>
  BY <1>2, NextLedger DEF ShowRowsThere, EpisodeRowsThere
<1> QED
  BY <1>1, <1>3, RefsInductive, PTL
     DEF Spec, RefsAreLedgers, ShowLedger!Ledger, EpisodeLedger!Ledger

----------------------------------------------------------------------------
(* What a finished run may say of itself.                                  *)
LEMMA DoneKnows ==
    ASSUME RefTyped, NEW r \in Runs, imp[r].pc = "done"
    PROVE  /\ imp[r].src \in Sources /\ imp[r].data \in ImportedShow
           /\ imp[r].show \in ShowIds /\ ShowKey(r) \in RefKeys
           /\ showRefs[ShowKey(r)] = imp[r].show
           /\ \A n \in DOMAIN imp[r].data.episodes :
                 /\ <<imp[r].src, imp[r].data.episodes[n].ext>> \in RefKeys
                 /\ episodeRefs[<<imp[r].src, imp[r].data.episodes[n].ext>>] # None
<1>1. RunShape(imp[r]) /\ RunRefs(r)
  BY DEF RefTyped, RefInv, StatusTyped, KeysTyped, TypeInv, RunsTyped
<1>2. /\ imp[r].src \in Sources /\ imp[r].data \in ImportedShow /\ imp[r].show \in ShowIds
      /\ imp[r].next \in Nat
  BY <1>1 DEF RunShape, RefTyped, StatusTyped, KeysTyped, TypeInv, RunsTyped, ImportRun
<1>3. ASSUME NEW n \in DOMAIN imp[r].data.episodes
      PROVE  /\ <<imp[r].src, imp[r].data.episodes[n].ext>> \in RefKeys
             /\ episodeRefs[<<imp[r].src, imp[r].data.episodes[n].ext>>] # None
  <2>1. imp[r].data.episodes \in Seq(ImportedEpisode)
    BY <1>2 DEF ImportedShow
  <2>2. imp[r].data.episodes[n] \in ImportedEpisode /\ n < imp[r].next
    BY <1>1, <1>2, <1>3, <2>1 DEF RunRefs
  <2>3. episodeRefs[<<imp[r].src, imp[r].data.episodes[n].ext>>] # None
    BY <1>1, <1>3, <2>2 DEF RunRefs
  <2> QED
    BY <1>2, <2>2, <2>3 DEF RefKeys, ImportedEpisode
<1> QED
  BY <1>1, <1>2, <1>3 DEF RunRefs, ShowKey, RefKeys, ImportedShow

(* A run that answers 200 has imported its whole document, and all of it   *)
(* is published, whatever editors and other runs did in between.           *)
THEOREM DoneMeansImported == Spec => []DoneImportsAll
<1>1. RefTyped => DoneImportsAll
  <2> SUFFICES ASSUME RefTyped, NEW r \in Runs, imp[r].pc = "done"
               PROVE  /\ Covered(imp[r].src, imp[r].data)
                      /\ shows[showRefs[ShowKey(r)]].status = "published"
                      /\ \A n \in DOMAIN imp[r].data.episodes :
                            episodes[episodeRefs[<<imp[r].src,
                                imp[r].data.episodes[n].ext>>]].status = "published"
    BY DEF DoneImportsAll
  <2>1. StoreTypeOK /\ RefsImported /\ ImportedStayPublished
    BY DEF RefTyped, StatusTyped, StatusInv, KeysTyped, TypeInv, TypeOK
  <2>2. \A k \in RefKeys : showRefs[k] # None => shows[showRefs[k]].status = "published"
    BY <2>1 DEF RefsImported, ImportedStayPublished, StoreTypeOK, RefKeys
  <2>3. \A k \in RefKeys : episodeRefs[k] # None => episodes[episodeRefs[k]].status = "published"
    BY <2>1 DEF RefsImported, ImportedStayPublished, StoreTypeOK, RefKeys
  <2>4. Covered(imp[r].src, imp[r].data)
    BY DoneKnows, StoreAssumption DEF Covered, ShowKey
  <2>5. shows[showRefs[ShowKey(r)]].status = "published"
    BY <2>2, DoneKnows, StoreAssumption
  <2> QED
    BY <2>3, <2>4, <2>5, DoneKnows
<1> QED
  BY <1>1, RefsInductive, PTL

(* What a finished run reports as created are the rows it made, and no     *)
(* other run reports them.                                                 *)
THEOREM ReportsTruthful == Spec => []ReportTruthful
<1>1. ASSUME RefTyped, NEW r \in Runs, imp[r].pc = "done"
      PROVE  RowsOf(r) =
                {showRefs[<<imp[r].src, k[2]>>] : k \in {k \in imp[r].created : k[1] = "show"}}
                \cup
                {episodeRefs[<<imp[r].src, k[2]>>] :
                    k \in {k \in imp[r].created : k[1] = "episode"}}
  <2>1. /\ StoreTypeOK /\ RefsImported /\ AtMostOneOrphan(r)
        /\ CountsWhatItMade(r) /\ MadeWhatItCounts(r)
    BY <1>1 DEF RefTyped, RefInv, StatusTyped, StatusInv, KeysTyped, TypeInv, TypeOK
  <2>2. imp[r].created \subseteq {"show", "episode"} \X ExtIds
    BY <1>1 DEF RefTyped, StatusTyped, KeysTyped, TypeInv, RunsTyped, ImportRun
  <2> DEFINE Shows == {k \in imp[r].created : k[1] = "show"}
             Episodes == {k \in imp[r].created : k[1] = "episode"}
             src == imp[r].src
  <2>3. ASSUME NEW i \in ShowIds, shows[i] # None, shows[i].createdBy = r
        PROVE  \E k \in Shows : showRefs[<<src, k[2]>>] = i
    <3>1. PICK k \in RefKeys : showRefs[k] = i
      BY <1>1, <2>1, <2>3 DEF AtMostOneOrphan, ShowReffed, MayOrphan
    <3>2. k[1] = src /\ <<"show", k[2]>> \in imp[r].created
      BY <1>1, <2>1, <2>3, <3>1, StoreAssumption DEF MadeWhatItCounts
    <3>3. k = <<src, k[2]>>
      BY <3>2 DEF RefKeys
    <3>4. <<"show", k[2]>> \in Shows /\ showRefs[<<src, <<"show", k[2]>>[2]>>] = i
      BY <3>1, <3>2, <3>3
    <3> QED
      BY <3>4
  <2>4. ASSUME NEW e \in EpisodeIds, episodes[e] # None, episodes[e].createdBy = r
        PROVE  \E k \in Episodes : episodeRefs[<<src, k[2]>>] = e
    <3>1. PICK k \in RefKeys : episodeRefs[k] = e
      BY <1>1, <2>1, <2>4 DEF AtMostOneOrphan, EpisodeReffed, MayOrphan
    <3>2. k[1] = src /\ <<"episode", k[2]>> \in imp[r].created
      BY <1>1, <2>1, <2>4, <3>1, StoreAssumption DEF MadeWhatItCounts
    <3>3. k = <<src, k[2]>>
      BY <3>2 DEF RefKeys
    <3>4. <<"episode", k[2]>> \in Episodes
          /\ episodeRefs[<<src, <<"episode", k[2]>>[2]>>] = e
      BY <3>1, <3>2, <3>3
    <3> QED
      BY <3>4
  <2>5. ASSUME NEW k \in Shows PROVE showRefs[<<src, k[2]>>] \in RowsOf(r)
    <3>1. k[2] \in ExtIds /\ k = <<"show", k[2]>> /\ k \in imp[r].created
      BY <2>2
    <3>2. /\ <<src, k[2]>> \in RefKeys /\ showRefs[<<src, k[2]>>] # None
          /\ shows[showRefs[<<src, k[2]>>]].createdBy = r
      BY <2>1, <3>1 DEF CountsWhatItMade
    <3>3. /\ showRefs[<<src, k[2]>>] \in ShowIds /\ shows[showRefs[<<src, k[2]>>]] # None
      BY <2>1, <3>2 DEF StoreTypeOK, RefsImported, RefKeys
    <3> QED
      BY <3>2, <3>3 DEF RowsOf
  <2>6. ASSUME NEW k \in Episodes PROVE episodeRefs[<<src, k[2]>>] \in RowsOf(r)
    <3>1. k[2] \in ExtIds /\ k = <<"episode", k[2]>> /\ k \in imp[r].created
      BY <2>2
    <3>2. /\ <<src, k[2]>> \in RefKeys /\ episodeRefs[<<src, k[2]>>] # None
          /\ episodes[episodeRefs[<<src, k[2]>>]].createdBy = r
      BY <2>1, <3>1 DEF CountsWhatItMade
    <3>3. /\ episodeRefs[<<src, k[2]>>] \in EpisodeIds
          /\ episodes[episodeRefs[<<src, k[2]>>]] # None
      BY <2>1, <3>2 DEF StoreTypeOK, RefsImported, RefKeys
    <3> QED
      BY <3>2, <3>3 DEF RowsOf
  <2> DEFINE counted == {showRefs[<<src, k[2]>>] : k \in Shows}
                        \cup {episodeRefs[<<src, k[2]>>] : k \in Episodes}
  <2> HIDE DEF Shows, Episodes
  <2>7. RowsOf(r) = counted
    <3>1. ASSUME NEW row \in RowsOf(r) PROVE row \in counted
      <4>1. CASE row \in ShowIds /\ shows[row] # None /\ shows[row].createdBy = r
        BY <2>3, <4>1
      <4>2. CASE row \in EpisodeIds /\ episodes[row] # None /\ episodes[row].createdBy = r
        BY <2>4, <4>2
      <4> QED
        BY <3>1, <4>1, <4>2 DEF RowsOf
    <3>2. ASSUME NEW row \in counted PROVE row \in RowsOf(r)
      BY <2>5, <2>6, <3>2
    <3> QED
      BY <3>1, <3>2
  <2> QED
    BY <2>7 DEF Shows, Episodes
<1>2. ASSUME RefTyped, NEW r \in Runs, NEW q \in Runs \ {r}, imp[q].src = imp[r].src
      PROVE  imp[q].created \cap imp[r].created = {}
  <2>1. CountsWhatItMade(r) /\ CountsWhatItMade(q)
    BY <1>2 DEF RefTyped, RefInv
  <2>2. imp[r].created \subseteq {"show", "episode"} \X ExtIds
    BY <1>2 DEF RefTyped, StatusTyped, KeysTyped, TypeInv, RunsTyped, ImportRun
  <2>3. ASSUME NEW k \in imp[q].created \cap imp[r].created PROVE FALSE
    <3>1. k[2] \in ExtIds /\ (k = <<"show", k[2]>> \/ k = <<"episode", k[2]>>)
      BY <2>2, <2>3
    <3>2. CASE k = <<"show", k[2]>>
      <4>1. /\ shows[showRefs[<<imp[r].src, k[2]>>]].createdBy = r
            /\ shows[showRefs[<<imp[q].src, k[2]>>]].createdBy = q
        BY <2>1, <2>3, <3>1, <3>2 DEF CountsWhatItMade
      <4> QED
        BY <1>2, <4>1
    <3>3. CASE k = <<"episode", k[2]>>
      <4>1. /\ episodes[episodeRefs[<<imp[r].src, k[2]>>]].createdBy = r
            /\ episodes[episodeRefs[<<imp[q].src, k[2]>>]].createdBy = q
        BY <2>1, <2>3, <3>1, <3>3 DEF CountsWhatItMade
      <4> QED
        BY <1>2, <4>1
    <3> QED
      BY <3>1, <3>2, <3>3
  <2> QED
    BY <2>3
<1>3. RefTyped => ReportTruthful
  BY <1>1, <1>2 DEF ReportTruthful
<1> QED
  BY <1>3, RefsInductive, PTL

(* An item of a finished run is under the run's own show, or came to the   *)
(* catalog from another feed of the same source that uses the same id.     *)
THEOREM ForeignItems == Spec => []ForeignItemsShareIds
<1>1. RefTyped => ForeignItemsShareIds
  <2> SUFFICES ASSUME RefTyped, NEW r \in Runs, imp[r].pc = "done",
                      NEW n \in DOMAIN imp[r].data.episodes
               PROVE  LET ext == imp[r].data.episodes[n].ext
                          row == episodes[episodeRefs[<<imp[r].src, ext>>]]
                          other == imp[row.createdBy]
                      IN  \/ row.show = imp[r].show
                          \/ /\ other.src = imp[r].src
                             /\ other.data.ext # imp[r].data.ext
                             /\ \E m \in DOMAIN other.data.episodes :
                                   other.data.episodes[m].ext = ext
    BY DEF ForeignItemsShareIds
  <2> DEFINE key == <<imp[r].src, imp[r].data.episodes[n].ext>>
             maker == episodes[episodeRefs[key]].createdBy
  <2>1. /\ key \in RefKeys /\ episodeRefs[key] # None
        /\ showRefs[ShowKey(r)] = imp[r].show
    BY DoneKnows
  <2>2. /\ key[1] = imp[maker].src /\ InFeed(imp[maker], key[2])
        /\ showRefs[ShowKey(maker)] = episodes[episodeRefs[key]].show
    BY <2>1 DEF RefTyped, RefInv, EpisodesOfTheirFeed
  <2>3. imp[maker].src = imp[r].src
    BY <2>2
  <2>4. CASE imp[maker].data.ext = imp[r].data.ext
    <3>1. ShowKey(maker) = ShowKey(r)
      BY <2>3, <2>4 DEF ShowKey
    <3> QED
      BY <2>1, <2>2, <3>1
  <2>5. CASE imp[maker].data.ext # imp[r].data.ext
    BY <2>2, <2>3, <2>5 DEF InFeed
  <2> QED
    BY <2>4, <2>5
<1> QED
  BY <1>1, RefsInductive, PTL

----------------------------------------------------------------------------
(* The idempotence of an import.  Once a document is covered it stays so,  *)
(* and a run that was given it finds every row it looks for.               *)
OnlyUpdates(r) ==
    /\ imp[r].created = {}
    /\ imp[r].pc \notin {"insertShow", "refShow", "insertEpisode", "refEpisode", "conflict"}

Rerun(r, d) ==
    /\ Covered(d.source, ImportOf(d))
    /\ imp[r].src = d.source /\ imp[r].data = ImportOf(d) => OnlyUpdates(r)

LEMMA CoveredKeys ==
    ASSUME NEW d \in Documents
    PROVE  /\ <<d.source, ImportOf(d).ext>> \in RefKeys
           /\ \A n \in DOMAIN ImportOf(d).episodes :
                 <<d.source, ImportOf(d).episodes[n].ext>> \in RefKeys
<1>1. d.source \in Sources /\ ImportOf(d) \in ImportedShow
  BY DocumentAssumption
<1>2. ImportOf(d).ext \in ExtIds /\ ImportOf(d).episodes \in Seq(ImportedEpisode)
  BY <1>1 DEF ImportedShow
<1>3. \A n \in DOMAIN ImportOf(d).episodes : ImportOf(d).episodes[n] \in ImportedEpisode
  BY <1>2
<1> QED
  BY <1>1, <1>2, <1>3 DEF RefKeys, ImportedEpisode

LEMMA CoveredStays ==
    ASSUME NEW d \in Documents, NEW a, StepBy(a), Covered(d.source, ImportOf(d))
    PROVE  Covered(d.source, ImportOf(d))'
  BY CoveredKeys DEF Covered, StepBy

LEMMA RerunStep ==
    ASSUME RefTyped, NEW r \in Runs, NEW d \in Documents, Rerun(r, d), RunEffect(r)
    PROVE  imp'[r].src = d.source /\ imp'[r].data = ImportOf(d) => OnlyUpdates(r)'
<1> SUFFICES ASSUME imp'[r].src = d.source, imp'[r].data = ImportOf(d)
             PROVE  OnlyUpdates(r)'
  OBVIOUS
<1>1. RunShape(imp[r]) /\ CountsWhatItMade(r)
  BY DEF RefTyped, RefInv, StatusTyped, KeysTyped, TypeInv, RunsTyped
<1>2. CASE Fetched(r)
  BY <1>1, <1>2 DEF Fetched, SameCount, CountsWhatItMade, OnlyUpdates
<1>3. CASE SameTask(r)
  <2>1. /\ imp[r].src = d.source /\ imp[r].data = ImportOf(d) /\ OnlyUpdates(r)
    BY <1>3 DEF SameTask, Rerun
  <2>2. showRefs[ShowKey(r)] # None
    BY <2>1 DEF Rerun, Covered, ShowKey
  <2>3. imp[r].pc = "findEpisode" => episodeRefs[ItemKey(r)] # None
    <3>1. imp[r].pc = "findEpisode" => imp[r].next \in DOMAIN imp[r].data.episodes
      BY <1>1 DEF RunShape, EpisodePcs, ImportedShow
    <3> QED
      BY <2>1, <3>1 DEF Rerun, Covered, ItemKey, Item
  <2> QED
    BY <1>2, <2>1, <2>2, <2>3
       DEF OnlyUpdates, RunEffect, GaveUp, ShowLookedUp, ShowFound, ShowTried, ShowUpserted,
           EpisodeLookedUp, EpisodeFound, EpisodeTried, EpisodeUpserted, SameCount, LoopPc
<1> QED
  BY <1>2, <1>3
     DEF RunEffect, GaveUp, ShowLookedUp, ShowFound, ShowTried, ShowUpserted,
         EpisodeLookedUp, EpisodeFound, EpisodeTried, EpisodeUpserted

LEMMA NextRerun ==
    ASSUME NEW r \in Runs, NEW d \in Documents, RefTyped, Rerun(r, d), [Next]_vars
    PROVE  Rerun(r, d)'
<1>1. KeysTyped /\ StatusTyped /\ RefInv
  BY DEF RefTyped, StatusTyped
<1>2. CASE UNCHANGED vars
  BY <1>2 DEF vars, Rerun, Covered, OnlyUpdates
<1>3. ASSUME NEW s \in Sessions, OthersWait(s), SessionEffect(s) PROVE Rerun(r, d)'
  <2>1. Covered(d.source, ImportOf(d))'
    BY <1>1, <1>3, SessionAdds, CoveredStays DEF Rerun
  <2> QED
    BY <1>3, <2>1 DEF Rerun, OnlyUpdates, OthersWait
<1>4. ASSUME NEW q \in Runs, RunsWait(q), RunEffect(q) PROVE Rerun(r, d)'
  <2>1. Covered(d.source, ImportOf(d))'
    BY <1>1, <1>4, RunAdds, CoveredStays DEF Rerun
  <2>2. CASE q = r
    BY <1>4, <2>1, <2>2, RerunStep DEF Rerun
  <2>3. CASE q # r
    BY <1>4, <2>1, <2>3 DEF Rerun, OnlyUpdates, RunsWait
  <2> QED
    BY <2>2, <2>3
<1> QED
  BY <1>1, <1>2, <1>3, <1>4, Effects

(* Once all of a document is imported, a run that is given it from then on *)
(* only updates: it creates nothing and ends in no conflict, whatever      *)
(* editors and other runs do meanwhile.                                    *)
THEOREM RerunsOnlyUpdate == Spec => RerunUpserts
<1> SUFFICES ASSUME NEW r \in Runs, NEW d \in Documents
             PROVE  Spec => []((imp[r].pc = "idle" /\ Covered(d.source, ImportOf(d))) =>
                        [](imp[r].src = d.source /\ imp[r].data = ImportOf(d) =>
                              /\ imp[r].created = {}
                              /\ imp[r].pc \notin {"insertShow", "refShow", "insertEpisode",
                                                   "refEpisode", "conflict"}))
  BY DEF RerunUpserts
<1>1. RefTyped /\ imp[r].pc = "idle" /\ Covered(d.source, ImportOf(d)) => Rerun(r, d)
  BY DEF RefTyped, RefInv, CountsWhatItMade, Rerun, OnlyUpdates
<1>2. RefTyped /\ Rerun(r, d) /\ [Next]_vars => Rerun(r, d)'
  BY NextRerun
<1>3. Rerun(r, d) => (imp[r].src = d.source /\ imp[r].data = ImportOf(d) =>
                        /\ imp[r].created = {}
                        /\ imp[r].pc \notin {"insertShow", "refShow", "insertEpisode",
                                             "refEpisode", "conflict"})
  BY DEF Rerun, OnlyUpdates
<1> QED
  BY <1>1, <1>2, <1>3, RefsInductive, PTL DEF Spec
===============================================================================
