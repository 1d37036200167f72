------------------------------- MODULE Paging -------------------------------
(***************************************************************************)
(* The keyset pages of Discovery: a client walks the episodes of a search  *)
(* (SearchEpisodes), or the shows (List), newest first, with the cursor of *)
(* each answer, while editors and imports write.  Pages are cached under   *)
(* their cursor, so one walk may be given pages of different ages.         *)
(*                                                                         *)
(* Of a row, the date and the id order the pages, and the state tells the  *)
(* published rows that meet the query ("shown") from the other published   *)
(* ones and from drafts.  Episodes are ordered by published_at, which a    *)
(* publish sets and an import takes from the feed, if it has one; shows by *)
(* created_at, which is set once.                                          *)
(*                                                                         *)
(* The lists of the CMS are walked by page numbers instead, and not cached.*)
(* Each answer has a total, which the service counts after it has listed.  *)
(* A list is of the shows that pass a filter, by created_at, or of the     *)
(* episodes of a show, by number; either is the date here.                 *)
(***************************************************************************)
EXTENDS Naturals, FiniteSets

CONSTANTS
    Rows,           \* uuids, as numbers in their order
    Writable,       \* rows that are written during the walks, to bound these
    MaxDate,        \* bound on the dates
    Limit,          \* items per page
    MaxShifts,      \* bound on the changes to a list of the CMS during a walk
    Kinds,          \* the pages to look at, of those below
    None, Start, Done

\* Pages of shows, of the episodes of one of the two stores, or of the CMS.
AllKinds == {"shows", "postgres", "memory", "cms"}

Dates == 1..MaxDate

ASSUME PagingAssumption ==
    /\ Rows \subseteq Nat /\ IsFiniteSet(Rows) /\ Writable \subseteq Rows
    /\ MaxDate \in Nat \ {0} /\ MaxShifts \in Nat /\ Limit \in Nat \ {0}
    /\ Kinds \subseteq AllKinds

States == {"draft", "shown", "other"}

Row == [state : States, date : Dates \cup {None}]
Cursors == Dates \X Rows
Items == [id : Rows, date : Dates \cup {None}]

ASSUME ValuesAssumption ==
    /\ None \notin Row \cup Dates /\ \A page \in SUBSET Items : page # None
    /\ Start \notin Cursors \cup {Done} /\ Done \notin Cursors

VARIABLES
    kind,       \* what the pages are of; it does not change
    row,        \* the rows of the store, None where there is none yet
    pages,      \* pages[c]: the page the cache holds for cursor c, or None
    cursor,     \* where the client is: Start, a cursor, or Done
    seen,       \* the rows this walk was given
    twice,      \* those it was given in two pages
    written,    \* rows that were added or rewritten
    moved,      \* rows that were given another date
    offset,     \* where the next page of the CMS begins
    listed,     \* its rows are listed and not counted yet
    came, left  \* how many rows came into the list, or left it, during the walk

listVars == <<offset, listed, came, left>>
vars == <<kind, row, pages, cursor, seen, twice, written, moved, listVars>>

\* In memory, rows without a date follow a cursor; in Postgres they do not.
Cms == kind = "cms"
Fixed == kind \in {"shows", "cms"}     \* dates are set once
NullsCompare == kind = "memory"

TypeOK ==
    /\ kind \in Kinds
    /\ row \in [Rows -> Row \cup {None}]
    /\ pages \in [Cursors \cup {Start} -> (SUBSET Items) \cup {None}]
    /\ cursor \in Cursors \cup {Start, Done}
    /\ seen \subseteq Rows /\ twice \subseteq seen
    /\ moved \subseteq written /\ written \subseteq Rows
    /\ offset \in Nat /\ listed \in BOOLEAN
    /\ came \in 0..MaxShifts /\ left \in 0..MaxShifts

There == {i \in Rows : row[i] # None}
Shown == {i \in There : row[i].state = "shown"}

\* A show always has a date, a draft episode none, an imported one maybe;
\* to the CMS a draft is a row as others are.
MayBe(state, date) ==
    /\ IF Fixed THEN date # None ELSE state = "draft" => date = None
    /\ Cms => state # "draft"

\* Any rows to begin with.
Init ==
    /\ kind \in Kinds
    /\ row \in [Rows -> Row \cup {None}]
    /\ \A i \in There : MayBe(row[i].state, row[i].date)
    /\ pages = [c \in Cursors \cup {Start} |-> None]
    /\ cursor = Start
    /\ seen = {} /\ twice = {} /\ written = {} /\ moved = {}
    /\ offset = 0 /\ listed = FALSE /\ came = 0 /\ left = 0

----------------------------------------------------------------------------
(* Pages.  An item without a date is the last: dates begin at 1.           *)
Rank(date) == IF date = None THEN 0 ELSE date

\* (d, i) comes after (e, j).
After(d, i, e, j) == Rank(d) < Rank(e) \/ (Rank(d) = Rank(e) /\ i < j)

\* Mutant: the item of the cursor is given again.
FollowsAtOr(i, c) ==
    \/ c = Start
    \/ (NullsCompare \/ row[i].date # None)
       /\ (After(row[i].date, i, c[1], c[2]) \/ <<row[i].date, i>> = c)

\* Mutant: the cursor is a date alone.
FollowsDate(i, c) ==
    \/ c = Start
    \/ row[i].date # None /\ row[i].date < c[1]

\* Mutant: the cursor is an id alone.
FollowsId(i, c) == c = Start \/ (row[i].date # None /\ i < c[2])

\* In SQL a comparison with NULL is not true.
Follows(i, c) ==
    \/ c = Start
    \/ (NullsCompare \/ row[i].date # None) /\ After(row[i].date, i, c[1], c[2])

Before(i, rows) == Cardinality({j \in rows : After(row[i].date, i, row[j].date, j)})

PageOf(c) ==
    LET rest == {i \in Shown : Follows(i, c)}
        first == {i \in rest : Before(i, rest) < Limit}
    IN  {[id |-> i, date |-> row[i].date] : i \in first}

LastOf(page) ==
    CHOOSE x \in page : \A y \in page \ {x} : After(x.date, x.id, y.date, y.id)

\* The cursor the answer names: none when the page is not full.
CursorAfter(page) ==
    IF Cardinality(page) < Limit \/ LastOf(page).date = None THEN Done
    ELSE <<LastOf(page).date, LastOf(page).id>>

----------------------------------------------------------------------------
Given(ids) ==
    /\ seen' = seen \cup ids
    /\ twice' = twice \cup (seen \cap ids)

\* The client asks for the next page; a fill of the cache may fail.
Ask ==
    /\ cursor # Done /\ ~Cms
    /\ LET page == IF pages[cursor] # None THEN pages[cursor] ELSE PageOf(cursor)
           ids == {x.id : x \in page}
       IN  /\ \/ pages' = [pages EXCEPT ![cursor] = page]
              \/ pages[cursor] = None /\ UNCHANGED pages
           /\ Given(ids)
           /\ cursor' = CursorAfter(page)
    /\ UNCHANGED <<kind, row, written, moved, listVars>>

\* Mutant: the first page is page 0.
OffsetPageOne(i) == Before(i, Shown) \in (offset + Limit)..(offset + 2 * Limit - 1)

OnOffsetPage(i) == Before(i, Shown) \in offset..(offset + Limit - 1)

\* listShows and listEpisodes list first and count then ...
ListRows ==
    /\ Cms /\ cursor # Done /\ ~listed
    /\ Given({i \in Shown : OnOffsetPage(i)})
    /\ listed' = TRUE
    /\ UNCHANGED <<kind, row, pages, cursor, written, moved, offset, came, left>>

\* ... and the client goes on while the total says that there is more.
CountRows ==
    /\ listed /\ listed' = FALSE
    /\ offset' = offset + Limit
    /\ cursor' = IF offset' >= Cardinality(Shown) THEN Done ELSE cursor
    /\ UNCHANGED <<kind, row, pages, seen, twice, written, moved, came, left>>

\* A client begins again, or another one does.
Again ==
    /\ cursor # Start
    /\ cursor' = Start /\ seen' = {} /\ twice' = {}
    /\ offset' = 0 /\ listed' = FALSE /\ came' = 0 /\ left' = 0
    /\ UNCHANGED <<kind, row, pages, written, moved>>

Expire(c) ==
    /\ pages[c] # None
    /\ pages' = [pages EXCEPT ![c] = None]
    /\ UNCHANGED <<kind, row, cursor, seen, twice, written, moved, listVars>>

Written(i, state, date) ==
    /\ row' = [row EXCEPT ![i] = [state |-> state, date |-> date]]
    /\ written' = written \cup {i}
    /\ moved' = IF row[i] # None /\ row[i].date # date THEN moved \cup {i} ELSE moved
    /\ came' = IF Cms /\ state = "shown" /\ i \notin Shown THEN came + 1 ELSE came
    /\ left' = IF Cms /\ state # "shown" /\ i \in Shown THEN left + 1 ELSE left
    /\ came' <= MaxShifts /\ left' <= MaxShifts
    /\ UNCHANGED <<kind, pages, cursor, seen, twice, offset, listed>>

(* The CMS adds a draft, an import a published row, an episode with the    *)
(* date of the feed; created_at is set before the insert.                  *)
Add(i) ==
    /\ row[i] = None
    /\ \E state \in States, d \in Dates \cup {None} :
          MayBe(state, d) /\ Written(i, state, d)

(* publishShow keeps created_at.  publishEpisode sets published_at to the  *)
(* time at which it read the row; it writes later, and others may have     *)
(* written a later time by then.                                           *)
Publish(i) ==
    /\ row[i] # None
    /\ \E state \in States \ {"draft"}, d \in Dates :
          (Fixed => d = row[i].date) /\ Written(i, state, d)

(* An import or a PATCH writes a new text into a copy it read earlier: of  *)
(* a show the copy may still be a draft, of an episode, which only imports *)
(* refresh, the copy may have the date before a publish.                   *)
Rewrite(i) ==
    /\ row[i] # None
    /\ \E state \in States, d \in Dates \cup {None} :
          /\ MayBe(state, d)
          /\ IF Fixed THEN d = row[i].date
             ELSE "draft" \notin {state, row[i].state}
          /\ Written(i, state, d)

Next ==
    \/ Ask \/ ListRows \/ CountRows \/ Again
    \/ \E c \in Cursors \cup {Start} : Expire(c)
    \/ \E i \in Writable : Add(i) \/ Publish(i) \/ Rewrite(i)

Spec == Init /\ [][Next]_vars

----------------------------------------------------------------------------
Steady == Shown \ written

(* A walk that ends has visited every dated row that was there all along,  *)
(* whatever is written between its pages and however old these are.        *)
WalksVisitSteady ==
    cursor = Done /\ ~Cms => \A i \in Steady : row[i].date # None => i \in seen

(* A row is given in two pages of a walk only if it was moved, thus a show *)
(* never.                                                                  *)
TwiceOnlyMoved == ~Cms => twice \subseteq moved

(* Rows that change the list of the CMS during a walk shift the others: a  *)
(* row that leaves it hides at most one that stays, though the total is of *)
(* a later moment than the rows, and a row that comes repeats at most one. *)
ShiftsCostOneEach ==
    Cms => /\ cursor = Done => Cardinality(Steady \ seen) <= left
           /\ Cardinality(twice) <= came

(* Each answer's cursor lies below the one asked with, so that a walk ends *)
(* although rows are added to it.                                          *)
CursorsDescend ==
    [][Ask /\ cursor # Start /\ cursor' # Done =>
          After(cursor'[1], cursor'[2], cursor[1], cursor[2])]_vars

(* The description of next_cursor in the API: empty when no more.          *)
EmptyWhenNoMore == cursor = Done => Steady \subseteq seen

----------------------------------------------------------------------------
(* The inductive invariants behind these.                                  *)

\* What is true of a page that was made for cursor c, at any age of it.
PageKept(c, page) ==
    /\ \A x \in page : /\ row[x.id] # None
                       /\ x.date = row[x.id].date \/ x.id \in moved
                       /\ c # Start => After(x.date, x.id, c[1], c[2])
    /\ \A x, y \in page : x.id = y.id => x = y
    /\ \A i \in Steady : row[i].date # None /\ Follows(i, c) =>
          \/ \E x \in page : x.id = i
          \/ CursorAfter(page) # Done /\ Follows(i, CursorAfter(page))

\* A walk has been given what is above its cursor, and nothing below it.
WalkKept ==
    /\ ~listed
    /\ cursor = Start => seen = {}
    /\ \A c \in Cursors \cup {Start} : pages[c] # None => PageKept(c, pages[c])
    /\ \A i \in seen \ moved :
          /\ row[i] # None
          /\ cursor \in Cursors => ~After(row[i].date, i, cursor[1], cursor[2])
    /\ \A i \in Steady : row[i].date # None =>
          i \in seen \/ (cursor # Done /\ Follows(i, cursor))
    /\ twice \subseteq moved

\* The rows of a list of the CMS that are on the pages given so far.
Passed ==
    {i \in Shown : Before(i, Shown) < IF listed THEN offset + Limit ELSE offset}

\* Rows passed without being given, and rows given that will be again.
OffsetKept ==
    /\ Cardinality((Steady \cap Passed) \ seen) <= left
    /\ cursor = Done => Cardinality(Steady \ seen) <= left
    /\ Cardinality(twice \cup ((seen \cap Shown) \ Passed)) <= came

PageInv == TypeOK /\ IF Cms THEN OffsetKept ELSE WalkKept
=============================================================================
