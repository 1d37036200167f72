----------------------------- MODULE PagingProofs -----------------------------
(***************************************************************************)
(* Why a walk by cursors visits what stays and repeats only what moved, at *)
(* any age of the pages it is given, and what a shift costs a walk by page *)
(* numbers.                                                                *)
(***************************************************************************)
EXTENDS Paging, FiniteSetTheorems, TLAPS

(* The least-number principle, for a set: the library's well-foundedness   *)
(* of < on Nat and the minimal elements that it gives.                     *)
LEMMA LeastNumber ==
    ASSUME NEW T, T \subseteq Nat, T # {}
    PROVE  \E m \in T : \A n \in T : m <= n
<1>1. IsWellFoundedOn(OpToRel(<, Nat), Nat)
  BY NatLessThanWellFounded
<1>2. PICK m \in T : \A n \in T : <<n, m>> \notin OpToRel(<, Nat)
  <2> DEFINE R == OpToRel(<, Nat)
  <2> HIDE DEF R
  <2>1. IsWellFoundedOn(R, Nat)
    BY <1>1 DEF R
  <2>2. \E m \in T : \A n \in T : <<n, m>> \notin R
    BY <2>1, WFMin
  <2> QED
    BY <2>2 DEF R
<1>3. \A n \in T : ~(n < m)
  BY <1>2 DEF OpToRel
<1> QED
  BY <1>3

----------------------------------------------------------------------------
(* The order of items.                                                     *)
Dated == Dates \cup {None}

LEMMA RankTypes ==
    /\ \A d \in Dated : Rank(d) \in Nat
    /\ \A d \in Dates : d # None /\ Rank(d) = d /\ d > 0
    /\ Rank(None) = 0
BY PagingAssumption, ValuesAssumption DEF Dated, Dates, Rank

LEMMA AfterOrder ==
    /\ \A d, e \in Dated, i, j \in Rows : After(d, i, e, j) => ~After(e, j, d, i)
    /\ \A d, e \in Dated, i, j \in Rows : i # j => After(d, i, e, j) \/ After(e, j, d, i)
    /\ \A d, e, f \in Dated, i, j, k \in Rows :
          After(d, i, e, j) /\ After(e, j, f, k) => After(d, i, f, k)
<1>1. Rows \subseteq Nat /\ \A d \in Dated : Rank(d) \in Nat
  BY RankTypes, PagingAssumption
<1> QED
  BY <1>1 DEF After

LEMMA ItemTypes ==
    \A x \in Items : x.id \in Rows /\ x.date \in Dated /\ x.id \in Nat /\ Rank(x.date) \in Nat
BY RankTypes, PagingAssumption DEF Items, Dated

\* The items of a page have different ids.
OneItemEach(page) == \A x, y \in page : x.id = y.id => x = y

LEMMA LastIsLast ==
    ASSUME NEW page, page \subseteq Items, page # {}, OneItemEach(page)
    PROVE  /\ LastOf(page) \in page
           /\ \A y \in page \ {LastOf(page)} :
                 After(LastOf(page).date, LastOf(page).id, y.date, y.id)
<1>1. \A x \in page : x.id \in Nat /\ Rank(x.date) \in Nat
  BY ItemTypes
<1>2. PICK m \in {Rank(x.date) : x \in page} : \A n \in {Rank(x.date) : x \in page} : m <= n
  <2> DEFINE T == {Rank(x.date) : x \in page}
  <2>1. T \subseteq Nat /\ T # {}
    BY <1>1
  <2> HIDE DEF T
  <2>2. \E m \in T : \A n \in T : m <= n
    BY <2>1, LeastNumber
  <2> QED
    BY <2>2 DEF T
<1> DEFINE lowest == {x \in page : Rank(x.date) = m}
<1>3. PICK k \in {x.id : x \in lowest} : \A n \in {x.id : x \in lowest} : k <= n
  <2> DEFINE T == {x.id : x \in lowest}
  <2>1. T \subseteq Nat
    BY <1>1
  <2>2. T # {}
    BY <1>2
  <2> HIDE DEF T
  <2>3. \E k \in T : \A n \in T : k <= n
    BY <2>1, <2>2, LeastNumber
  <2> QED
    BY <2>3 DEF T
<1>4. PICK x \in page : Rank(x.date) = m /\ x.id = k
  BY <1>3
<1>5. ASSUME NEW y \in page \ {x} PROVE After(x.date, x.id, y.date, y.id)
  <2>1. m <= Rank(y.date)
    BY <1>2, <1>5
  <2>2. CASE Rank(y.date) = m
    <3>1. k <= y.id
      BY <1>3, <1>5, <2>2
    <3>2. k # y.id
      BY <1>4, <1>5 DEF OneItemEach
    <3> QED
      BY <1>1, <1>4, <1>5, <2>2, <3>1, <3>2 DEF After
  <2>3. CASE Rank(y.date) # m
    BY <1>1, <1>4, <1>5, <2>1, <2>3 DEF After
  <2> QED
    BY <2>2, <2>3
<1> QED
  BY <1>4, <1>5 DEF LastOf

\* The cursor that follows a page is its last item, dated.
LEMMA CursorOfLast ==
    ASSUME NEW page, page \subseteq Items, OneItemEach(page), CursorAfter(page) # Done
    PROVE  LET last == LastOf(page)
           IN  /\ last \in page /\ last.date \in Dates /\ last.id \in Rows
               /\ CursorAfter(page) = <<last.date, last.id>>
               /\ CursorAfter(page) \in Cursors
               /\ \A y \in page \ {last} : After(last.date, last.id, y.date, y.id)
<1>1. page # {}
  BY FS_EmptySet, PagingAssumption DEF CursorAfter
<1>2. /\ LastOf(page) \in page
      /\ \A y \in page \ {LastOf(page)} :
            After(LastOf(page).date, LastOf(page).id, y.date, y.id)
  BY <1>1, LastIsLast
<1>3. LastOf(page).date # None /\ CursorAfter(page) = <<LastOf(page).date, LastOf(page).id>>
  BY DEF CursorAfter
<1>4. LastOf(page).id \in Rows /\ LastOf(page).date \in Dates
  BY <1>2, <1>3, ItemTypes DEF Dated
<1> QED
  BY <1>2, <1>3, <1>4 DEF Cursors

----------------------------------------------------------------------------
(* The positions of rows in a list of them, with the dates that tab gives. *)
Ahead(tab, i, rows) == {j \in rows : After(tab[i].date, i, tab[j].date, j)}
Position(tab, i, rows) == Cardinality(Ahead(tab, i, rows))

DatedRows(tab, rows) == rows \subseteq Rows /\ \A i \in rows : tab[i].date \in Dated

LEMMA Positions ==
    ASSUME NEW tab, NEW rows, DatedRows(tab, rows)
    PROVE  /\ IsFiniteSet(rows) /\ Cardinality(rows) \in Nat
           /\ \A i : IsFiniteSet(Ahead(tab, i, rows)) /\ Position(tab, i, rows) \in Nat
<1>1. IsFiniteSet(rows) /\ Cardinality(rows) \in Nat
  BY FS_Subset, FS_CardinalityType, PagingAssumption DEF DatedRows
<1>2. ASSUME NEW i
      PROVE  IsFiniteSet(Ahead(tab, i, rows)) /\ Position(tab, i, rows) \in Nat
  <2>1. Ahead(tab, i, rows) \in SUBSET rows
    BY DEF Ahead
  <2>2. IsFiniteSet(Ahead(tab, i, rows))
    BY <1>1, <2>1, FS_Subset
  <2> QED
    BY <2>2, FS_CardinalityType DEF Position
<1> QED
  BY <1>1, <1>2

LEMMA PositionsGrow ==
    ASSUME NEW tab, NEW rows, DatedRows(tab, rows), NEW i \in rows, NEW j \in rows,
           After(tab[j].date, j, tab[i].date, i)
    PROVE  Position(tab, i, rows) < Position(tab, j, rows)
<1>1. Ahead(tab, i, rows) \in SUBSET Ahead(tab, j, rows)
  BY AfterOrder DEF Ahead, DatedRows
<1>2. i \in Ahead(tab, j, rows) /\ i \notin Ahead(tab, i, rows)
  BY AfterOrder DEF Ahead, DatedRows
<1>3. IsFiniteSet(Ahead(tab, j, rows)) /\ IsFiniteSet(Ahead(tab, i, rows))
  BY Positions
<1>4. Cardinality(Ahead(tab, i, rows)) <= Cardinality(Ahead(tab, j, rows))
      /\ Cardinality(Ahead(tab, i, rows)) # Cardinality(Ahead(tab, j, rows))
  BY <1>1, <1>2, <1>3, FS_Subset
<1> QED
  BY <1>4, Positions DEF Position

LEMMA PositionsDiffer ==
    ASSUME NEW tab, NEW rows, DatedRows(tab, rows), NEW i \in rows, NEW j \in rows,
           Position(tab, i, rows) = Position(tab, j, rows)
    PROVE  i = j
<1>1. ASSUME i # j
      PROVE  \/ After(tab[j].date, j, tab[i].date, i)
             \/ After(tab[i].date, i, tab[j].date, j)
  BY <1>1, AfterOrder DEF DatedRows
<1>2. Position(tab, i, rows) \in Nat /\ Position(tab, j, rows) \in Nat
  BY Positions
<1>3. \A k, l \in rows : After(tab[l].date, l, tab[k].date, k)
          => Position(tab, k, rows) < Position(tab, l, rows)
  BY PositionsGrow
<1> QED
  BY <1>1, <1>2, <1>3

LEMMA PositionsBound ==
    ASSUME NEW tab, NEW rows, DatedRows(tab, rows), NEW i \in rows
    PROVE  Position(tab, i, rows) < Cardinality(rows)
<1>1. Ahead(tab, i, rows) \in SUBSET rows /\ i \notin Ahead(tab, i, rows)
  BY AfterOrder DEF Ahead, DatedRows
<1>2. Cardinality(Ahead(tab, i, rows)) <= Cardinality(rows)
      /\ Cardinality(Ahead(tab, i, rows)) # Cardinality(rows)
  BY <1>1, Positions, FS_Subset
<1> QED
  BY <1>2, Positions DEF Position

\* A row more is one position more for the rows that come after it.
LEMMA OneRowMore ==
    ASSUME NEW tab, NEW rows, NEW k, DatedRows(tab, rows \cup {k}), k \notin rows,
           NEW j \in rows
    PROVE  Position(tab, j, rows \cup {k}) =
              IF After(tab[j].date, j, tab[k].date, k)
              THEN Position(tab, j, rows) + 1 ELSE Position(tab, j, rows)
<1>1. IsFiniteSet(Ahead(tab, j, rows)) /\ k \notin Ahead(tab, j, rows)
  BY Positions DEF DatedRows, Ahead
<1>2. CASE After(tab[j].date, j, tab[k].date, k)
  <2>1. Ahead(tab, j, rows \cup {k}) = Ahead(tab, j, rows) \cup {k}
    BY <1>2 DEF Ahead
  <2> QED
    BY <1>1, <1>2, <2>1, FS_AddElement DEF Position
<1>3. CASE ~After(tab[j].date, j, tab[k].date, k)
  <2>1. Ahead(tab, j, rows \cup {k}) = Ahead(tab, j, rows)
    BY <1>3 DEF Ahead
  <2> QED
    BY <1>3, <2>1 DEF Position
<1> QED
  BY <1>2, <1>3

LEMMA ShownDated ==
    ASSUME row \in [Rows -> Row \cup {None}]
    PROVE  DatedRows(row, There) /\ DatedRows(row, Shown)
BY DEF There, Shown, Row, Dated, DatedRows

LEMMA BeforeIsPosition ==
    \A i, rows : Before(i, rows) = Position(row, i, rows)
BY DEF Before, Position, Ahead

\* The first rows of a list are Limit, unless they are all.
LEMMA FirstRows ==
    ASSUME NEW rest, DatedRows(row, rest),
           NEW i \in rest, Before(i, rest) >= Limit
    PROVE  LET first == {j \in rest : Before(j, rest) < Limit}
           IN  /\ IsFiniteSet(first) /\ Cardinality(first) >= Limit
               /\ \A j \in first : After(row[i].date, i, row[j].date, j)
<1> DEFINE first == {j \in rest : Before(j, rest) < Limit}
<1>1. \A j \in rest : Before(j, rest) \in Nat
  BY Positions, BeforeIsPosition
<1>2. IsFiniteSet(first) /\ Cardinality(first) \in Nat
  BY Positions, FS_Subset, FS_CardinalityType
<1>3. ASSUME NEW j \in first PROVE After(row[i].date, i, row[j].date, j)
  <2>1. i # j /\ ~(Before(i, rest) < Before(j, rest))
    BY <1>1, <1>3, PagingAssumption
  <2> QED
    BY <2>1, PositionsGrow, BeforeIsPosition, AfterOrder DEF DatedRows
<1>4. PICK m \in rest \ first : \A j \in rest \ first : Before(m, rest) <= Before(j, rest)
  <2> DEFINE T == {Before(j, rest) : j \in rest \ first}
  <2>1. T \subseteq Nat /\ T # {}
    BY <1>1, PagingAssumption
  <2> HIDE DEF T
  <2>2. \E n \in T : \A k \in T : n <= k
    BY <2>1, LeastNumber
  <2> QED
    BY <2>2 DEF T
<1>5. Ahead(row, m, rest) \in SUBSET first
  <2> SUFFICES ASSUME NEW j \in rest, After(row[m].date, m, row[j].date, j)
               PROVE  j \in first
    BY DEF Ahead
  <2>1. Before(j, rest) < Before(m, rest)
    BY PositionsGrow, BeforeIsPosition
  <2> QED
    BY <1>1, <1>4, <2>1
<1>6. Cardinality(Ahead(row, m, rest)) <= Cardinality(first)
  BY <1>2, <1>5, FS_Subset
<1>7. Before(m, rest) >= Limit
  BY <1>1, <1>4, PagingAssumption
<1>8. Cardinality(first) >= Limit
  BY <1>1, <1>2, <1>6, <1>7, BeforeIsPosition, PagingAssumption DEF Position
<1> QED
  BY <1>2, <1>3, <1>8

----------------------------------------------------------------------------
(* The pages of a walk.                                                    *)
ItemOf(i) == [id |-> i, date |-> row[i].date]

LEMMA PageMade ==
    ASSUME row \in [Rows -> Row \cup {None}], NEW c \in Cursors \cup {Start}
    PROVE  PageOf(c) \in SUBSET Items /\ PageKept(c, PageOf(c))
<1> DEFINE rest == {i \in Shown : Follows(i, c)}
           first == {i \in rest : Before(i, rest) < Limit}
           page == {ItemOf(i) : i \in first}
<1>1. PageOf(c) = page
  BY DEF PageOf, ItemOf
<1>2. DatedRows(row, rest)
  BY ShownDated DEF Shown, DatedRows
<1>3. \A i \in first : /\ i \in Rows /\ i \in There /\ row[i] # None /\ row[i].date \in Dated
                       /\ Follows(i, c)
  BY DEF Shown, There, Row, Dated
<1>4. \A i \in first : ItemOf(i).id = i /\ ItemOf(i).date = row[i].date /\ ItemOf(i) \in Items
  BY <1>3 DEF ItemOf, Items, Dated
<1>5. page \in SUBSET Items
  BY <1>4
<1>6. \A x \in page : x.id \in first /\ x = ItemOf(x.id) /\ x.date = row[x.id].date
  BY <1>4
<1>7. OneItemEach(page)
  BY <1>6 DEF OneItemEach
<1>8. \A x \in page : /\ row[x.id] # None
                      /\ x.date = row[x.id].date \/ x.id \in moved
                      /\ c # Start => After(x.date, x.id, c[1], c[2])
  BY <1>3, <1>6 DEF Follows
<1>9. ASSUME NEW i \in Steady, row[i].date # None, Follows(i, c), ~ \E x \in page : x.id = i
      PROVE  CursorAfter(page) # Done /\ Follows(i, CursorAfter(page))
  <2>1. i \in rest /\ i \in There /\ i \in Rows /\ row[i].date \in Dates
    BY <1>9 DEF Steady, Shown, There, Row
  <2>2. Before(i, rest) >= Limit
    <3>1. i \notin first
      BY <1>4, <1>9
    <3>2. Before(i, rest) \in Nat
      BY <1>2, Positions, BeforeIsPosition
    <3> QED
      BY <2>1, <3>1, <3>2, PagingAssumption
  <2>3. /\ IsFiniteSet(first) /\ Cardinality(first) >= Limit
        /\ \A j \in first : After(row[i].date, i, row[j].date, j)
    BY <1>2, <2>1, <2>2, FirstRows
  <2>4. IsFiniteSet(page) /\ Cardinality(page) = Cardinality(first)
    <3> DEFINE f == [j \in first |-> ItemOf(j)]
    <3> HIDE DEF first
    <3>1. f \in Bijection(first, page)
      BY <1>4 DEF Bijection, Injection, Surjection, IsInjective
    <3> QED
      BY <2>3, <3>1, FS_Bijection DEF ExistsBijection
  <2>5. Cardinality(page) \in Nat /\ page # {} /\ ~(Cardinality(page) < Limit)
    <3> HIDE DEF page, first
    <3>1. Cardinality(first) \in Nat
      BY <2>3, FS_CardinalityType
    <3>2. Cardinality({}) = 0
      BY FS_EmptySet
    <3> QED
      BY <2>3, <2>4, <3>1, <3>2, PagingAssumption
  <2> DEFINE last == LastOf(page)
  <2>6. last \in page
    BY <1>5, <1>7, <2>5, LastIsLast
  <2> HIDE DEF last
  <2>7. After(row[i].date, i, last.date, last.id) /\ last.date \in Dated /\ last.id \in Rows
    BY <1>3, <1>6, <2>3, <2>6
  <2>8. last.date # None
    <3>1. Rank(row[i].date) \in Nat /\ Rank(row[i].date) > 0 /\ Rank(None) = 0
      BY <2>1, RankTypes DEF Dated, Dates
    <3>2. Rank(last.date) \in Nat
      BY <2>7, RankTypes
    <3>3. Rank(row[i].date) <= Rank(last.date)
      BY <2>7, <3>1, <3>2 DEF After
    <3> QED
      BY <3>1, <3>2, <3>3
  <2>9. CursorAfter(page) = <<last.date, last.id>>
    BY <2>5, <2>8 DEF CursorAfter, last
  <2>10. CursorAfter(page) # Done
    BY <2>7, <2>8, <2>9, ValuesAssumption DEF Cursors, Dated
  <2> QED
    BY <1>9, <2>7, <2>9, <2>10 DEF Follows
<1> HIDE DEF page
<1>10. PageKept(c, page)
  BY <1>7, <1>8, <1>9 DEF PageKept, OneItemEach
<1> QED
  BY <1>1, <1>5, <1>10

----------------------------------------------------------------------------
(* What the writes of rows have in common.                                 *)
RowWrite(i) ==
    /\ i \in Rows /\ row' \in [Rows -> Row \cup {None}] /\ row'[i] # None
    /\ \A j \in Rows \ {i} : row'[j] = row[j]
    /\ written' = written \cup {i}
    /\ moved \subseteq moved' /\ moved' \subseteq moved \cup {i}
    /\ row[i] # None /\ row'[i].date # row[i].date => i \in moved'
    /\ Cms /\ row[i] # None => row'[i].date = row[i].date
    /\ came' = IF Cms /\ i \in Shown' /\ i \notin Shown THEN came + 1 ELSE came
    /\ left' = IF Cms /\ i \notin Shown' /\ i \in Shown THEN left + 1 ELSE left
    /\ came' <= MaxShifts /\ left' <= MaxShifts
    /\ UNCHANGED <<kind, pages, cursor, seen, twice, offset, listed>>

LEMMA OneWrite ==
    ASSUME TypeOK, NEW i \in Rows, NEW state \in States, NEW date \in Dated,
           Written(i, state, date),
           Cms /\ row[i] # None => date = row[i].date
    PROVE  RowWrite(i)
<1> DEFINE new == [state |-> state, date |-> date]
<1>1. new \in Row /\ new # None /\ new.state = state /\ new.date = date
  BY ValuesAssumption DEF Row, Dated
<1>2. row' = [row EXCEPT ![i] = new]
  BY DEF Written
<1> HIDE DEF new
<1>3. /\ row' \in [Rows -> Row \cup {None}] /\ row'[i] = new
      /\ \A j \in Rows \ {i} : row'[j] = row[j]
  BY <1>1, <1>2 DEF TypeOK
<1>4. i \in Shown' <=> state = "shown"
  BY <1>1, <1>3 DEF Shown, There
<1> QED
  BY <1>1, <1>3, <1>4 DEF Written, RowWrite

LEMMA Writes ==
    ASSUME TypeOK, NEW i \in Writable, Add(i) \/ Publish(i) \/ Rewrite(i)
    PROVE  RowWrite(i)
<1>1. i \in Rows /\ States \ {"draft"} \subseteq States
  BY PagingAssumption DEF TypeOK
<1>2. CASE Add(i)
  <2>1. PICK state \in States, d \in Dates \cup {None} : Written(i, state, d)
    BY <1>2 DEF Add
  <2> QED
    BY <1>1, <1>2, <2>1, OneWrite DEF Add, Dated
<1>3. CASE Publish(i)
  <2>1. PICK state \in States, d \in Dates :
            (Fixed => d = row[i].date) /\ Written(i, state, d)
    BY <1>1, <1>3 DEF Publish
  <2> QED
    BY <1>1, <2>1, OneWrite DEF Dated, Cms, Fixed
<1>4. CASE Rewrite(i)
  <2>1. PICK state \in States, d \in Dates \cup {None} :
            (Fixed => d = row[i].date) /\ Written(i, state, d)
    BY <1>4 DEF Rewrite
  <2> QED
    BY <1>1, <1>4, <2>1, OneWrite DEF Rewrite, Dated, Cms, Fixed
<1> QED
  BY <1>2, <1>3, <1>4

----------------------------------------------------------------------------
(* Types.                                                                  *)
LEMMA InitTypes == Init => TypeOK
<1> SUFFICES ASSUME Init PROVE TypeOK
  OBVIOUS
<1>1. 1 \in Dates /\ 0 \in 0..MaxShifts /\ 0 \in Nat
  BY PagingAssumption DEF Dates
<1> QED
  BY <1>1 DEF Init, TypeOK

LEMMA NextCursor ==
    ASSUME NEW page \in SUBSET Items, OneItemEach(page)
    PROVE  CursorAfter(page) \in Cursors \cup {Done}
BY CursorOfLast

LEMMA NextTypes ==
    ASSUME TypeOK, [Next]_vars,
           ~Cms => \A c \in Cursors \cup {Start} : pages[c] # None => PageKept(c, pages[c])
    PROVE  TypeOK'
<1>1. CASE UNCHANGED vars
  BY <1>1 DEF vars, listVars, TypeOK
<1>2. CASE Ask
  <2> DEFINE page == IF pages[cursor] # None THEN pages[cursor] ELSE PageOf(cursor)
             ids == {x.id : x \in page}
  <2>1. cursor \in Cursors \cup {Start}
    BY <1>2 DEF Ask, TypeOK
  <2>2. page \in SUBSET Items /\ OneItemEach(page)
    <3>1. pages[cursor] # None => PageKept(cursor, pages[cursor])
      BY <1>2, <2>1 DEF Ask
    <3> QED
      BY <2>1, <3>1, PageMade DEF TypeOK, PageKept, OneItemEach
  <2>3. /\ \/ pages' = [pages EXCEPT ![cursor] = page]
           \/ pages' = pages
        /\ Given(ids) /\ cursor' = CursorAfter(page)
        /\ UNCHANGED <<kind, row, written, moved, listVars>>
    BY <1>2 DEF Ask
  <2> HIDE DEF page
  <2>4. ids \subseteq Rows
    BY <2>2, ItemTypes
  <2> HIDE DEF ids
  <2>5. seen' \subseteq Rows /\ twice' \subseteq seen'
    BY <2>3, <2>4 DEF Given, TypeOK
  <2>6. pages' \in [Cursors \cup {Start} -> (SUBSET Items) \cup {None}]
    BY <2>1, <2>2, <2>3 DEF TypeOK
  <2>7. cursor' \in Cursors \cup {Start, Done}
    BY <2>2, <2>3, NextCursor
  <2> QED
    BY <2>3, <2>5, <2>6, <2>7 DEF TypeOK, listVars
<1>3. CASE ListRows
  <2> DEFINE ids == {i \in Shown : OnOffsetPage(i)}
  <2>1. ids \subseteq Rows
    BY DEF Shown, There
  <2>2. Given(ids)
    BY <1>3 DEF ListRows
  <2> HIDE DEF ids
  <2>3. seen' \subseteq Rows /\ twice' \subseteq seen'
    BY <2>1, <2>2 DEF Given, TypeOK
  <2> QED
    BY <1>3, <2>3 DEF ListRows, TypeOK
<1>4. CASE CountRows
  <2>1. offset' \in Nat /\ listed' \in BOOLEAN /\ cursor' \in Cursors \cup {Start, Done}
    <3>1. offset' = offset + Limit /\ (cursor' = Done \/ cursor' = cursor)
      BY <1>4 DEF CountRows
    <3>2. listed' = FALSE
      BY <1>4 DEF CountRows
    <3>3. listed' \in BOOLEAN
      BY <3>2
    <3> QED
      BY <3>1, <3>3, PagingAssumption DEF TypeOK
  <2> QED
    BY <1>4, <2>1 DEF CountRows, TypeOK
<1>5. CASE Again
  <2>1. 0 \in 0..MaxShifts /\ 0 \in Nat
    BY PagingAssumption
  <2> QED
    BY <1>5, <2>1 DEF Again, TypeOK
<1>6. ASSUME NEW c \in Cursors \cup {Start}, Expire(c) PROVE TypeOK'
  BY <1>6 DEF Expire, TypeOK, listVars
<1>7. ASSUME NEW i \in Writable, Add(i) \/ Publish(i) \/ Rewrite(i) PROVE TypeOK'
  <2>1. RowWrite(i)
    BY <1>7, Writes
  <2>2. came' \in 0..MaxShifts /\ left' \in 0..MaxShifts
    BY <2>1, PagingAssumption DEF RowWrite, TypeOK
  <2> QED
    BY <2>1, <2>2 DEF RowWrite, TypeOK
<1> QED
  BY <1>1, <1>2, <1>3, <1>4, <1>5, <1>6, <1>7 DEF Next

----------------------------------------------------------------------------
(* Walks by cursors.                                                       *)

\* A page that is kept stays a page for its cursor whatever is written.
LEMMA PageStays ==
    ASSUME TypeOK, NEW c, NEW page, page \subseteq Items, PageKept(c, page),
           NEW i, RowWrite(i)
    PROVE  PageKept(c, page)'
<1>1. /\ i \in Rows /\ row'[i] # None /\ \A j \in Rows \ {i} : row'[j] = row[j]
      /\ moved \subseteq moved' /\ written' = written \cup {i} /\ kind' = kind
      /\ row[i] # None /\ row'[i].date # row[i].date => i \in moved'
  BY DEF RowWrite
<1>2. ASSUME NEW x \in page
      PROVE  /\ row'[x.id] # None
             /\ x.date = row'[x.id].date \/ x.id \in moved'
             /\ c # Start => After(x.date, x.id, c[1], c[2])
  <2>1. x.id \in Rows
    BY ItemTypes
  <2>2. /\ row[x.id] # None
        /\ x.date = row[x.id].date \/ x.id \in moved
        /\ c # Start => After(x.date, x.id, c[1], c[2])
    BY DEF PageKept
  <2> QED
    BY <1>1, <2>1, <2>2
<1>3. ASSUME NEW j \in Steady', row'[j].date # None, Follows(j, c)'
      PROVE  \/ \E x \in page : x.id = j
             \/ CursorAfter(page) # Done /\ Follows(j, CursorAfter(page))'
  <2>1. j \in Rows /\ j # i /\ row'[j] = row[j] /\ j \in Steady
    BY <1>1, <1>3 DEF Steady, Shown, There
  <2>2. Follows(j, c) /\ row[j].date # None
    BY <1>1, <1>3, <2>1 DEF Follows, NullsCompare
  <2>3. \/ \E x \in page : x.id = j
        \/ CursorAfter(page) # Done /\ Follows(j, CursorAfter(page))
    BY <2>1, <2>2 DEF PageKept
  <2>4. Follows(j, CursorAfter(page)) => Follows(j, CursorAfter(page))'
    BY <1>1, <2>1 DEF Follows, NullsCompare
  <2> QED
    BY <2>3, <2>4
<1>4. \A x, y \in page : x.id = y.id => x = y
  BY DEF PageKept
<1> QED
  BY <1>2, <1>3, <1>4 DEF PageKept

LEMMA WalkWrites ==
    ASSUME TypeOK, WalkKept, NEW i, RowWrite(i)
    PROVE  WalkKept'
<1>1. /\ i \in Rows /\ row'[i] # None /\ \A j \in Rows \ {i} : row'[j] = row[j]
      /\ moved \subseteq moved' /\ written' = written \cup {i}
      /\ row[i] # None /\ row'[i].date # row[i].date => i \in moved'
      /\ kind' = kind /\ pages' = pages /\ cursor' = cursor /\ seen' = seen
      /\ twice' = twice
  BY DEF RowWrite
<1>2. listed' = listed
  BY DEF RowWrite
<1>3. ASSUME NEW c \in Cursors \cup {Start}, pages'[c] # None PROVE PageKept(c, pages[c])'
  <2> DEFINE page == pages[c]
  <2>1. page \subseteq Items /\ PageKept(c, page)
    BY <1>1, <1>3 DEF WalkKept, TypeOK
  <2>2. \A p \in SUBSET Items : PageKept(c, p) => PageKept(c, p)'
    BY PageStays
  <2> QED
    BY <1>1, <2>1, <2>2
<1>4. ASSUME NEW j \in seen' \ moved'
      PROVE  /\ row'[j] # None
             /\ cursor' \in Cursors => ~After(row'[j].date, j, cursor'[1], cursor'[2])
  <2>1. j \in Rows /\ j \in seen \ moved
    BY <1>1, <1>4 DEF TypeOK
  <2>2. row[j] # None /\ (cursor \in Cursors => ~After(row[j].date, j, cursor[1], cursor[2]))
    BY <2>1 DEF WalkKept
  <2> QED
    BY <1>1, <1>4, <2>1, <2>2
<1>5. ASSUME NEW j \in Steady', row'[j].date # None
      PROVE  j \in seen \/ (cursor # Done /\ Follows(j, cursor)')
  <2>1. j \in Rows /\ j # i /\ row'[j] = row[j] /\ j \in Steady
    BY <1>1, <1>5 DEF Steady, Shown, There
  <2>2. j \in seen \/ (cursor # Done /\ Follows(j, cursor))
    BY <1>5, <2>1 DEF WalkKept
  <2> QED
    BY <1>1, <2>1, <2>2 DEF Follows, NullsCompare
<1> QED
  BY <1>1, <1>2, <1>3, <1>4, <1>5 DEF WalkKept

\* A step that leaves the rows as they are leaves pages their meaning.
LEMMA PagesStay ==
    ASSUME UNCHANGED <<kind, row, written, moved>>, NEW c, NEW page, PageKept(c, page)
    PROVE  PageKept(c, page)'
<1>1. Steady' = Steady /\ \A i, d : Follows(i, d) <=> Follows(i, d)'
  BY DEF Steady, Shown, There, Follows, NullsCompare
<1> QED
  BY <1>1 DEF PageKept

LEMMA WalkAsks ==
    ASSUME TypeOK, WalkKept, Ask
    PROVE  WalkKept'
<1> DEFINE page == IF pages[cursor] # None THEN pages[cursor] ELSE PageOf(cursor)
           ids == {x.id : x \in page}
<1>1. cursor \in Cursors \cup {Start} /\ ~Cms
  BY DEF Ask, TypeOK
<1>2. page \in SUBSET Items /\ PageKept(cursor, page)
  <2>1. pages[cursor] # None => PageKept(cursor, pages[cursor])
    BY <1>1 DEF WalkKept
  <2> QED
    BY <1>1, <2>1, PageMade DEF TypeOK
<1>3. /\ \/ pages' = [pages EXCEPT ![cursor] = page]
         \/ pages' = pages
      /\ seen' = seen \cup ids /\ twice' = twice \cup (seen \cap ids)
      /\ cursor' = CursorAfter(page)
      /\ UNCHANGED <<kind, row, written, moved>>
  BY DEF Ask, Given
<1>4. listed' = listed
  BY DEF Ask, listVars
<1>5. \A j \in ids : \E x \in page : x.id = j
  OBVIOUS
<1> HIDE DEF page
<1>6. \A x \in page : x.id \in ids
  OBVIOUS
<1> HIDE DEF ids
<1>7. OneItemEach(page)
  BY <1>2 DEF PageKept, OneItemEach
<1>8. \A x \in page : x.id \in Rows /\ x.date \in Dated
  BY <1>2, ItemTypes
<1>9. \A j \in ids \ moved :
          \E x \in page : /\ x.id = j /\ row[j] # None /\ x.date = row[j].date
                          /\ cursor # Start => After(row[j].date, j, cursor[1], cursor[2])
  BY <1>2, <1>5 DEF PageKept
<1>10. \A j \in seen \ moved :
          /\ row[j] # None /\ j \in Rows /\ row[j].date \in Dated /\ cursor # Start
          /\ cursor \in Cursors => ~After(row[j].date, j, cursor[1], cursor[2])
  BY DEF WalkKept, TypeOK, Row, Dated
<1>11. cursor' \in Cursors \cup {Done} /\ cursor' # Start
  BY <1>2, <1>3, <1>7, NextCursor, ValuesAssumption
<1>12. ASSUME NEW c \in Cursors \cup {Start}, pages'[c] # None PROVE PageKept(c, pages[c])'
  <2>1. \A p : PageKept(c, p) => PageKept(c, p)'
    BY <1>3, PagesStay
  <2>2. CASE pages'[c] = pages[c]
    <3>1. PageKept(c, pages[c])
      BY <1>12, <2>2 DEF WalkKept
    <3> QED
      BY <2>1, <2>2, <3>1
  <2>3. CASE c = cursor /\ pages'[c] = page
    BY <1>2, <2>1, <2>3
  <2> QED
    BY <1>1, <1>3, <2>2, <2>3 DEF TypeOK
<1>13. ASSUME NEW j \in seen' \ moved', cursor' \in Cursors
       PROVE  ~After(row'[j].date, j, cursor'[1], cursor'[2])
  <2> DEFINE last == LastOf(page)
  <2>1. /\ last \in page /\ cursor' = <<last.date, last.id>>
        /\ last.date \in Dated /\ last.id \in Rows
        /\ \A y \in page \ {last} : After(last.date, last.id, y.date, y.id)
    BY <1>2, <1>3, <1>7, <1>8, <1>13, CursorOfLast, ValuesAssumption
  <2> HIDE DEF last
  <2>2. cursor'[1] = last.date /\ cursor'[2] = last.id /\ row' = row /\ moved' = moved
    BY <1>3, <2>1
  <2>3. CASE j \in ids
    <3>1. PICK x \in page : x.id = j /\ x.date = row[j].date
      BY <1>9, <1>13, <2>2, <2>3
    <3>2. x = last \/ After(last.date, last.id, x.date, x.id)
      BY <2>1
    <3>3. ~After(x.date, x.id, last.date, last.id)
      BY <1>8, <2>1, <3>2, AfterOrder
    <3> QED
      BY <2>2, <3>1, <3>3
  <2>4. CASE j \in seen
    <3>1. /\ j \in Rows /\ row[j].date \in Dated /\ cursor # Start /\ cursor \in Cursors
          /\ ~After(row[j].date, j, cursor[1], cursor[2])
      BY <1>1, <1>10, <1>13, <2>2, <2>4
    <3>2. After(last.date, last.id, cursor[1], cursor[2])
      BY <1>2, <2>1, <3>1 DEF PageKept
    <3>3. cursor[1] \in Dated /\ cursor[2] \in Rows
      BY <3>1 DEF Cursors, Dated
    <3>4. ~After(row[j].date, j, last.date, last.id)
      BY <2>1, <3>1, <3>2, <3>3, AfterOrder
    <3> QED
      BY <2>2, <3>4
  <2> QED
    BY <1>3, <1>13, <2>3, <2>4
<1>14. ASSUME NEW j \in seen' \ moved' PROVE row'[j] # None
  BY <1>3, <1>9, <1>10, <1>14
<1>15. ASSUME NEW j \in Steady', row'[j].date # None
       PROVE  j \in seen' \/ (cursor' # Done /\ Follows(j, cursor)')
  <2>1. j \in Steady /\ row[j].date # None
    BY <1>3, <1>15 DEF Steady, Shown, There
  <2>2. j \in seen \/ Follows(j, cursor)
    BY <2>1 DEF WalkKept
  <2>3. CASE j \in seen
    BY <1>3, <2>3
  <2>4. CASE Follows(j, cursor)
    <3>1. \/ \E x \in page : x.id = j
          \/ CursorAfter(page) # Done /\ Follows(j, CursorAfter(page))
      BY <1>2, <2>1, <2>4 DEF PageKept
    <3>2. Follows(j, cursor') => Follows(j, cursor)'
      BY <1>3 DEF Follows, NullsCompare
    <3> QED
      BY <1>3, <1>6, <3>1, <3>2
  <2> QED
    BY <2>2, <2>3, <2>4
<1>16. ASSUME NEW j \in seen \cap ids PROVE j \in moved
  <2> SUFFICES ASSUME j \notin moved PROVE FALSE
    OBVIOUS
  <2>1. cursor # Start /\ cursor \in Cursors
    BY <1>1, <1>10, <1>16
  <2> QED
    BY <1>9, <1>10, <1>16, <2>1
<1>17. twice' \subseteq moved'
  BY <1>3, <1>16 DEF WalkKept
<1>18. ~listed'
  BY <1>4 DEF WalkKept
<1> QED
  BY <1>11, <1>12, <1>13, <1>14, <1>15, <1>17, <1>18 DEF WalkKept

LEMMA InitWalk == Init => WalkKept
<1> SUFFICES ASSUME Init PROVE WalkKept
  OBVIOUS
<1>1. \A j : Follows(j, cursor)
  BY DEF Init, Follows
<1>2. cursor # Done /\ cursor \notin Cursors
  BY ValuesAssumption DEF Init
<1> QED
  BY <1>1, <1>2 DEF Init, WalkKept

LEMMA NextWalk ==
    ASSUME TypeOK, WalkKept, ~Cms, [Next]_vars
    PROVE  WalkKept'
<1>1. ASSUME UNCHANGED <<kind, row, written, moved, cursor, seen, twice, listed>>,
             \A c \in Cursors \cup {Start} : pages'[c] # None => pages'[c] = pages[c]
      PROVE  WalkKept'
  <2>1. \A c, p : PageKept(c, p) => PageKept(c, p)'
    BY <1>1, PagesStay
  <2>2. \A c \in Cursors \cup {Start} : pages'[c] # None => PageKept(c, pages[c])'
    BY <1>1, <2>1 DEF WalkKept
  <2>3. Steady' = Steady /\ \A j : Follows(j, cursor) <=> Follows(j, cursor)'
    BY <1>1 DEF Steady, Shown, There, Follows, NullsCompare
  <2>4. ~listed'
    BY <1>1 DEF WalkKept
  <2> QED
    BY <1>1, <2>2, <2>3, <2>4 DEF WalkKept
<1>2. CASE UNCHANGED vars
  BY <1>1, <1>2 DEF vars, listVars
<1>3. CASE Ask
  BY <1>3, WalkAsks
<1>4. ~ListRows /\ ~CountRows
  BY DEF ListRows, CountRows, WalkKept
<1>5. CASE Again
  <2>1. /\ cursor' = Start /\ seen' = {} /\ twice' = {}
        /\ UNCHANGED <<kind, row, pages, written, moved>>
    BY <1>5 DEF Again
  <2>2. ~listed'
    BY <1>5 DEF Again
  <2>3. \A c, p : PageKept(c, p) => PageKept(c, p)'
    BY <2>1, PagesStay
  <2>4. \A c \in Cursors \cup {Start} : pages'[c] # None => PageKept(c, pages[c])'
    BY <2>1, <2>3 DEF WalkKept
  <2>5. cursor' # Done /\ \A j : Follows(j, cursor)'
    BY <2>1, ValuesAssumption DEF Follows
  <2> QED
    BY <2>1, <2>2, <2>4, <2>5 DEF WalkKept
<1>6. ASSUME NEW c \in Cursors \cup {Start}, Expire(c) PROVE WalkKept'
  BY <1>1, <1>6 DEF Expire, listVars, TypeOK
<1>7. ASSUME NEW i \in Writable, Add(i) \/ Publish(i) \/ Rewrite(i) PROVE WalkKept'
  BY <1>7, Writes, WalkWrites
<1> QED
  BY <1>2, <1>3, <1>4, <1>5, <1>6, <1>7 DEF Next

----------------------------------------------------------------------------
(* Walks by page numbers.                                                  *)

\* Where the rows begin that are not on the pages given so far.
Bound == IF listed THEN offset + Limit ELSE offset

PassedBy(tab, rows, bound) == {i \in rows : Position(tab, i, rows) < bound}

LEMMA PassedIs == Passed = PassedBy(row, Shown, Bound)
BY BeforeIsPosition DEF Passed, PassedBy, Bound

LEMMA BoundType ==
    ASSUME TypeOK
    PROVE  Bound \in Nat /\ seen \subseteq Rows /\ twice \subseteq Rows /\ left \in Nat
           /\ came \in Nat /\ row \in [Rows -> Row \cup {None}]
BY PagingAssumption DEF TypeOK, Bound

\* Positions go by the dates of the rows alone.
LEMMA SameDates ==
    ASSUME NEW tab, NEW tab2, NEW rows, \A i \in rows : tab2[i].date = tab[i].date,
           NEW bound
    PROVE  /\ PassedBy(tab2, rows, bound) = PassedBy(tab, rows, bound)
           /\ DatedRows(tab, rows) => DatedRows(tab2, rows)
<1>1. \A i \in rows : Ahead(tab2, i, rows) = Ahead(tab, i, rows)
  BY DEF Ahead
<1> QED
  BY <1>1 DEF PassedBy, Position, DatedRows

(* A row k more in a list: no row is newly passed, and one at most of k    *)
(* and the others is newly not passed, k or the one that k pushed over.    *)
LEMMA RowCame ==
    ASSUME NEW tab, NEW rows, NEW k, DatedRows(tab, rows \cup {k}), k \notin rows,
           NEW bound \in Nat
    PROVE  /\ PassedBy(tab, rows \cup {k}, bound) \subseteq PassedBy(tab, rows, bound) \cup {k}
           /\ \E x : (rows \cup {k}) \ PassedBy(tab, rows \cup {k}, bound)
                        \subseteq (rows \ PassedBy(tab, rows, bound)) \cup {x}
<1> DEFINE more == rows \cup {k}
<1>1. DatedRows(tab, rows)
  BY DEF DatedRows
<1>2. \A j \in more : Position(tab, j, more) \in Nat
  BY Positions
<1>3. \A j \in rows : Position(tab, j, rows) \in Nat
  BY <1>1, Positions
<1>4. \A j \in rows :
          \/ /\ Position(tab, j, more) = Position(tab, j, rows) + 1
             /\ Position(tab, k, more) < Position(tab, j, more)
          \/ Position(tab, j, more) = Position(tab, j, rows)
  BY OneRowMore, PositionsGrow
<1>5. PassedBy(tab, more, bound) \subseteq PassedBy(tab, rows, bound) \cup {k}
  BY <1>2, <1>3, <1>4 DEF PassedBy
<1>6. CASE k \notin PassedBy(tab, more, bound)
  <2>1. more \ PassedBy(tab, more, bound) \subseteq (rows \ PassedBy(tab, rows, bound)) \cup {k}
    <3> SUFFICES ASSUME NEW j \in rows, ~(Position(tab, j, more) < bound)
                 PROVE  ~(Position(tab, j, rows) < bound)
      BY DEF PassedBy
    <3>1. Position(tab, k, more) \in Nat /\ Position(tab, k, more) >= bound
      BY <1>2, <1>6 DEF PassedBy
    <3>2. j \in more /\ Position(tab, j, more) \in Nat /\ Position(tab, j, rows) \in Nat
      BY <1>2, <1>3
    <3> HIDE DEF more
    <3> QED
      BY <1>4, <3>1, <3>2
  <2> QED
    BY <1>5, <2>1
<1>7. CASE k \in PassedBy(tab, more, bound)
  <2>1. ASSUME NEW x \in PassedBy(tab, rows, bound), x \notin PassedBy(tab, more, bound)
        PROVE  Position(tab, x, rows) + 1 = bound
    <3>1. /\ x \in rows /\ x \in more /\ Position(tab, x, rows) < bound
          /\ ~(Position(tab, x, more) < bound)
      BY <2>1 DEF PassedBy
    <3>2. Position(tab, x, more) \in Nat /\ Position(tab, x, rows) \in Nat
      BY <1>2, <1>3, <3>1
    <3> HIDE DEF more
    <3> QED
      BY <1>4, <3>1, <3>2
  <2>2. ASSUME NEW x \in PassedBy(tab, rows, bound) \ PassedBy(tab, more, bound),
               NEW y \in PassedBy(tab, rows, bound) \ PassedBy(tab, more, bound)
        PROVE  x = y
    <3>1. x \in rows /\ y \in rows
      BY DEF PassedBy
    <3>2. Position(tab, x, rows) = Position(tab, y, rows)
      BY <1>3, <2>1, <3>1
    <3> QED
      BY <1>1, <3>1, <3>2, PositionsDiffer
  <2>3. CASE PassedBy(tab, rows, bound) \subseteq PassedBy(tab, more, bound)
    <3>1. more \ PassedBy(tab, more, bound)
             \subseteq (rows \ PassedBy(tab, rows, bound)) \cup {k}
      BY <1>7, <2>3
    <3> QED
      BY <1>5, <3>1
  <2>4. CASE ~(PassedBy(tab, rows, bound) \subseteq PassedBy(tab, more, bound))
    <3>1. PICK x : x \in PassedBy(tab, rows, bound) \ PassedBy(tab, more, bound)
      BY <2>4
    <3>2. more \ PassedBy(tab, more, bound)
             \subseteq (rows \ PassedBy(tab, rows, bound)) \cup {x}
      BY <1>7, <2>2, <3>1
    <3> QED
      BY <1>5, <3>2
  <2> QED
    BY <2>3, <2>4
<1> QED
  BY <1>6, <1>7

(* A row k less: no row is passed no more, and one at most is newly passed.*)
LEMMA RowLeft ==
    ASSUME NEW tab, NEW rows, NEW k \in rows, DatedRows(tab, rows), NEW bound \in Nat
    PROVE  /\ PassedBy(tab, rows, bound) \subseteq PassedBy(tab, rows \ {k}, bound) \cup {k}
           /\ \E x : PassedBy(tab, rows \ {k}, bound) \subseteq PassedBy(tab, rows, bound) \cup {x}
<1> DEFINE less == rows \ {k}
<1>1. DatedRows(tab, less) /\ k \notin less /\ less \cup {k} = rows
  BY DEF DatedRows
<1>2. \A j \in less : Position(tab, j, less) \in Nat
  BY <1>1, Positions
<1>3. \A j \in rows : Position(tab, j, rows) \in Nat
  BY Positions
<1>4. \A j \in less : \/ Position(tab, j, rows) = Position(tab, j, less) + 1
                      \/ Position(tab, j, rows) = Position(tab, j, less)
  <2> SUFFICES ASSUME NEW j \in less
               PROVE  \/ Position(tab, j, rows) = Position(tab, j, less) + 1
                      \/ Position(tab, j, rows) = Position(tab, j, less)
    OBVIOUS
  <2>1. \/ Position(tab, j, less \cup {k}) = Position(tab, j, less) + 1
        \/ Position(tab, j, less \cup {k}) = Position(tab, j, less)
    <3> HIDE DEF less
    <3> QED
      BY <1>1, OneRowMore
  <2> QED
    BY <1>1, <2>1
<1>5. PassedBy(tab, rows, bound) \subseteq PassedBy(tab, less, bound) \cup {k}
  BY <1>2, <1>3, <1>4 DEF PassedBy
<1>6. ASSUME NEW x \in PassedBy(tab, less, bound) \ PassedBy(tab, rows, bound)
      PROVE  Position(tab, x, less) + 1 = bound /\ x \in less
  BY <1>2, <1>3, <1>4, <1>6 DEF PassedBy
<1>7. ASSUME NEW x \in PassedBy(tab, less, bound) \ PassedBy(tab, rows, bound),
             NEW y \in PassedBy(tab, less, bound) \ PassedBy(tab, rows, bound)
      PROVE  x = y
  <2>1. x \in less /\ y \in less
    BY <1>6
  <2>2. Position(tab, x, less) + 1 = bound /\ Position(tab, y, less) + 1 = bound
    BY <1>6
  <2>3. Position(tab, x, less) = Position(tab, y, less)
    BY <1>2, <2>1, <2>2
  <2> QED
    BY <1>1, <2>1, <2>3, PositionsDiffer
<1>8. \E x : PassedBy(tab, less, bound) \subseteq PassedBy(tab, rows, bound) \cup {x}
  <2>1. CASE PassedBy(tab, less, bound) \subseteq PassedBy(tab, rows, bound)
    BY <2>1
  <2>2. CASE ~(PassedBy(tab, less, bound) \subseteq PassedBy(tab, rows, bound))
    <3>1. PICK x : x \in PassedBy(tab, less, bound) \ PassedBy(tab, rows, bound)
      BY <2>2
    <3>2. PassedBy(tab, less, bound) \subseteq PassedBy(tab, rows, bound) \cup {x}
      BY <1>7, <3>1
    <3> QED
      BY <3>2
  <2> QED
    BY <2>1, <2>2
<1> QED
  BY <1>5, <1>8

LEMMA PassedNext ==
    ASSUME row' \in [Rows -> Row \cup {None}]
    PROVE  Passed' = PassedBy(row', Shown', Bound') /\ DatedRows(row', Shown')
<1>1. Passed' = PassedBy(row', Shown', Bound')
  BY DEF Passed, PassedBy, Bound, Before, Position, Ahead
<1>2. DatedRows(row', Shown')
  BY DEF There, Shown, Row, Dated, DatedRows
<1> QED
  BY <1>1, <1>2

LEMMA Fewer ==
    ASSUME NEW A, NEW B, B \subseteq Rows
    PROVE  /\ Cardinality(B) \in Nat
           /\ A \subseteq B => Cardinality(A) \in Nat /\ Cardinality(A) <= Cardinality(B)
           /\ (\E x : A \subseteq B \cup {x}) =>
                 Cardinality(A) \in Nat /\ Cardinality(A) <= Cardinality(B) + 1
<1>1. IsFiniteSet(B) /\ Cardinality(B) \in Nat
  BY FS_Subset, FS_CardinalityType, PagingAssumption
<1>2. ASSUME A \subseteq B PROVE Cardinality(A) \in Nat /\ Cardinality(A) <= Cardinality(B)
  <2>1. IsFiniteSet(A) /\ Cardinality(A) <= Cardinality(B)
    BY <1>1, <1>2, FS_Subset
  <2> QED
    BY <2>1, FS_CardinalityType
<1>3. ASSUME NEW x, A \subseteq B \cup {x}
      PROVE  Cardinality(A) \in Nat /\ Cardinality(A) <= Cardinality(B) + 1
  <2> DEFINE C == B \cup {x}
  <2>1. IsFiniteSet(C) /\ Cardinality(C) = IF x \in B THEN Cardinality(B) ELSE Cardinality(B) + 1
    BY <1>1, FS_AddElement
  <2>2. A \subseteq C
    BY <1>3
  <2> HIDE DEF C
  <2>3. IsFiniteSet(A) /\ Cardinality(A) <= Cardinality(C)
    BY <2>1, <2>2, FS_Subset
  <2>4. Cardinality(A) \in Nat
    BY <2>3, FS_CardinalityType
  <2> QED
    BY <1>1, <2>1, <2>3, <2>4
<1> QED
  BY <1>1, <1>2, <1>3

\* The rows that a walk lost so far, and those that it repeats or will.
Lost == (Steady \cap Passed) \ seen
Repeated == twice \cup ((seen \cap Shown) \ Passed)

LEMMA OffsetParts ==
    ASSUME TypeOK
    PROVE  /\ Lost \subseteq Rows /\ Repeated \subseteq Rows /\ Steady \ seen \subseteq Rows
           /\ OffsetKept <=> /\ Cardinality(Lost) <= left
                             /\ cursor = Done => Cardinality(Steady \ seen) <= left
                             /\ Cardinality(Repeated) <= came
BY DEF TypeOK, Lost, Repeated, OffsetKept, Steady, Shown, There

LEMMA OffsetWrites ==
    ASSUME TypeOK, Cms, OffsetKept, NEW i, RowWrite(i)
    PROVE  OffsetKept'
<1>1. /\ i \in Rows /\ row' \in [Rows -> Row \cup {None}]
      /\ \A j \in Rows \ {i} : row'[j] = row[j]
      /\ written' = written \cup {i} /\ cursor' = cursor /\ seen' = seen /\ twice' = twice
      /\ row[i] # None => row'[i].date = row[i].date
      /\ came' = IF i \in Shown' /\ i \notin Shown THEN came + 1 ELSE came
      /\ left' = IF i \notin Shown' /\ i \in Shown THEN left + 1 ELSE left
  BY DEF RowWrite
<1>2. Bound' = Bound /\ Bound \in Nat /\ left \in Nat /\ came \in Nat
  BY BoundType DEF RowWrite, Bound
<1>3. /\ Shown \subseteq Rows /\ Shown' \subseteq Rows
      /\ \A j \in Rows \ {i} : j \in Shown' <=> j \in Shown
  BY <1>1 DEF Shown, There
<1>4. i \notin Steady' /\ Steady' \subseteq Steady
  BY <1>1, <1>3 DEF Steady
<1>5. \A j \in Shown : row'[j].date = row[j].date
  BY <1>1 DEF Shown, There
<1>6. Passed' = PassedBy(row', Shown', Bound) /\ DatedRows(row', Shown')
  BY <1>1, <1>2, PassedNext
<1>7. /\ DatedRows(row, Shown) /\ DatedRows(row', Shown)
      /\ Passed = PassedBy(row, Shown, Bound) /\ Passed = PassedBy(row', Shown, Bound)
  <2>1. DatedRows(row, Shown) /\ row \in [Rows -> Row \cup {None}]
    BY ShownDated DEF TypeOK
  <2>2. /\ PassedBy(row', Shown, Bound) = PassedBy(row, Shown, Bound)
        /\ DatedRows(row', Shown)
    BY <1>5, <2>1, SameDates
  <2> QED
    BY <2>1, <2>2, PassedIs
<1>8. SUFFICES /\ Cardinality(Lost') <= left'
               /\ cursor' = Done => Cardinality(Steady' \ seen') <= left'
               /\ Cardinality(Repeated') <= came'
  BY DEF OffsetKept, Lost, Repeated
<1>9. /\ Lost \subseteq Rows /\ Repeated \subseteq Rows /\ Steady \ seen \subseteq Rows
      /\ Cardinality(Lost) <= left
      /\ cursor = Done => Cardinality(Steady \ seen) <= left
      /\ Cardinality(Repeated) <= came
  BY OffsetParts
<1>10. /\ Cardinality(Lost) \in Nat /\ Cardinality(Repeated) \in Nat
       /\ Cardinality(Steady \ seen) \in Nat
       /\ Cardinality(Steady' \ seen') \in Nat
       /\ Cardinality(Steady' \ seen') <= Cardinality(Steady \ seen)
  BY <1>1, <1>4, <1>9, Fewer
<1>11. CASE i \in Shown <=> i \in Shown'
  <2>1. Shown' = Shown
    BY <1>1, <1>3, <1>11
  <2>2. Passed' = Passed
    BY <1>6, <1>7, <2>1
  <2>3. Lost' \subseteq Lost /\ Repeated' = Repeated
    BY <1>1, <1>4, <2>1, <2>2 DEF Lost, Repeated
  <2>4. Cardinality(Lost') \in Nat /\ Cardinality(Lost') <= Cardinality(Lost)
    BY <1>9, <2>3, Fewer
  <2> QED
    BY <1>1, <1>2, <1>9, <1>10, <1>11, <2>3, <2>4
<1>12. CASE i \notin Shown /\ i \in Shown'
  <2>1. Shown' = Shown \cup {i}
    BY <1>1, <1>3, <1>12
  <2>2. /\ Passed' \subseteq Passed \cup {i}
        /\ \E x : Shown' \ Passed' \subseteq (Shown \ Passed) \cup {x}
    BY <1>2, <1>6, <1>7, <1>12, <2>1, RowCame
  <2>3. Lost' \subseteq Lost
    BY <1>1, <1>4, <2>2 DEF Lost
  <2>4. \E x : Repeated' \subseteq Repeated \cup {x}
    BY <1>1, <2>1, <2>2 DEF Repeated
  <2>5. /\ Cardinality(Lost') \in Nat /\ Cardinality(Lost') <= Cardinality(Lost)
        /\ Cardinality(Repeated') \in Nat
        /\ Cardinality(Repeated') <= Cardinality(Repeated) + 1
    BY <1>9, <2>3, <2>4, Fewer
  <2> QED
    BY <1>1, <1>2, <1>9, <1>10, <1>12, <2>5
<1>13. CASE i \in Shown /\ i \notin Shown'
  <2>1. Shown' = Shown \ {i}
    BY <1>1, <1>3, <1>13
  <2>2. /\ Passed \subseteq Passed' \cup {i}
        /\ \E x : Passed' \subseteq Passed \cup {x}
    BY <1>2, <1>6, <1>7, <1>13, <2>1, RowLeft
  <2>3. Repeated' \subseteq Repeated
    BY <1>1, <2>1, <2>2 DEF Repeated
  <2>4. \E x : Lost' \subseteq Lost \cup {x}
    BY <1>1, <1>4, <2>2 DEF Lost
  <2>5. /\ Cardinality(Repeated') \in Nat /\ Cardinality(Repeated') <= Cardinality(Repeated)
        /\ Cardinality(Lost') \in Nat /\ Cardinality(Lost') <= Cardinality(Lost) + 1
    BY <1>9, <2>3, <2>4, Fewer
  <2> QED
    BY <1>1, <1>2, <1>9, <1>10, <1>13, <2>5
<1> QED
  BY <1>11, <1>12, <1>13

LEMMA InitOffset == Init => OffsetKept
<1> SUFFICES ASSUME Init PROVE OffsetKept
  OBVIOUS
<1>1. TypeOK /\ ~listed
  BY InitTypes DEF Init
<1>2. Passed = {}
  <2>1. \A i : Position(row, i, Shown) \in Nat
    BY <1>1, ShownDated, Positions DEF TypeOK
  <2> QED
    BY <1>1, <2>1, PassedIs DEF PassedBy, Bound, Init
<1>3. Lost = {} /\ Repeated = {}
  BY <1>2 DEF Init, Lost, Repeated
<1>4. cursor # Done /\ left = 0 /\ came = 0
  BY ValuesAssumption DEF Init
<1> QED
  BY <1>3, <1>4, FS_EmptySet DEF OffsetKept, Lost, Repeated

LEMMA OffsetLists ==
    ASSUME TypeOK, OffsetKept, ListRows
    PROVE  OffsetKept'
<1> DEFINE ids == {i \in Shown : OnOffsetPage(i)}
<1>1. /\ seen' = seen \cup ids /\ twice' = twice \cup (seen \cap ids)
      /\ UNCHANGED <<row, written, cursor, offset, came, left>> /\ cursor # Done
  BY DEF ListRows, Given
<1>2. Bound = offset /\ Bound' = offset + Limit
  BY <1>1 DEF ListRows, Bound
<1>3. Shown' = Shown /\ Steady' = Steady
  BY <1>1 DEF Shown, There, Steady
<1>4. Passed' = PassedBy(row, Shown, offset + Limit) /\ Passed = PassedBy(row, Shown, offset)
  BY <1>1, <1>2, <1>3, PassedNext, PassedIs DEF TypeOK
<1>5. \A i \in Shown : i \in ids <=> Position(row, i, Shown) \in offset..(offset + Limit - 1)
  BY BeforeIsPosition DEF OnOffsetPage
<1>6. (\A i : Position(row, i, Shown) \in Nat) /\ offset \in Nat
  BY ShownDated, Positions DEF TypeOK
<1> HIDE DEF ids
<1>7. Passed \subseteq Passed' /\ Passed' \subseteq Passed \cup ids
  BY <1>4, <1>5, <1>6, PagingAssumption DEF PassedBy
<1>8. ids \cap Passed = {} /\ (ids \cap Shown) \subseteq Passed'
  BY <1>4, <1>5, <1>6, PagingAssumption DEF PassedBy
<1>9. ids \subseteq Shown
  BY DEF ids
<1>10. Lost' \subseteq Lost
  BY <1>1, <1>3, <1>7 DEF Lost
<1>11. Repeated' \subseteq Repeated
  BY <1>1, <1>3, <1>7, <1>8, <1>9 DEF Repeated
<1>12. /\ Lost \subseteq Rows /\ Repeated \subseteq Rows
       /\ Cardinality(Lost) <= left /\ Cardinality(Repeated) <= came
  BY OffsetParts
<1>13. /\ Cardinality(Lost) \in Nat /\ Cardinality(Repeated) \in Nat
       /\ Cardinality(Lost') \in Nat /\ Cardinality(Lost') <= Cardinality(Lost)
       /\ Cardinality(Repeated') \in Nat /\ Cardinality(Repeated') <= Cardinality(Repeated)
  BY <1>10, <1>11, <1>12, Fewer
<1>14. Cardinality(Lost') <= left' /\ Cardinality(Repeated') <= came' /\ cursor' # Done
  BY <1>1, <1>12, <1>13, BoundType
<1> QED
  BY <1>14 DEF OffsetKept, Lost, Repeated

LEMMA OffsetCounts ==
    ASSUME TypeOK, OffsetKept, CountRows
    PROVE  OffsetKept'
<1>1. /\ UNCHANGED <<row, written, seen, twice, came, left>> /\ offset' = offset + Limit
      /\ cursor' = IF offset' >= Cardinality(Shown) THEN Done ELSE cursor
  BY DEF CountRows
<1>2. Bound' = Bound /\ Bound = offset'
  BY <1>1 DEF CountRows, Bound
<1>3. Shown' = Shown /\ Steady' = Steady
  BY <1>1 DEF Shown, There, Steady
<1>4. Passed' = Passed /\ Passed = PassedBy(row, Shown, Bound)
  BY <1>1, <1>2, <1>3, PassedNext, PassedIs DEF TypeOK
<1>5. Lost' = Lost /\ Repeated' = Repeated /\ Steady' \ seen' = Steady \ seen
  BY <1>1, <1>3, <1>4 DEF Lost, Repeated
<1>6. /\ Cardinality(Lost) <= left /\ Cardinality(Repeated) <= came
      /\ cursor = Done => Cardinality(Steady \ seen) <= left
  BY OffsetParts
<1>7. ASSUME offset' >= Cardinality(Shown) PROVE Steady \ seen = Lost
  <2>1. DatedRows(row, Shown) /\ offset' \in Nat
    BY <1>1, ShownDated, PagingAssumption DEF TypeOK
  <2>2. Cardinality(Shown) \in Nat /\ \A i : Position(row, i, Shown) \in Nat
    BY <2>1, Positions
  <2>3. \A i \in Shown : Position(row, i, Shown) < Cardinality(Shown)
    BY <2>1, PositionsBound
  <2>4. Shown \subseteq Passed
    BY <1>2, <1>4, <1>7, <2>1, <2>2, <2>3 DEF PassedBy
  <2> QED
    BY <2>4 DEF Lost, Steady
<1>8. cursor' = Done => Cardinality(Steady \ seen) <= left
  BY <1>1, <1>6, <1>7
<1> QED
  BY <1>1, <1>5, <1>6, <1>8 DEF OffsetKept, Lost, Repeated

LEMMA OffsetAgain ==
    ASSUME TypeOK, Again
    PROVE  OffsetKept'
<1>1. /\ row' = row /\ cursor' = Start /\ seen' = {} /\ twice' = {}
      /\ offset' = 0 /\ came' = 0 /\ left' = 0
  BY DEF Again
<1>2. Bound' = 0
  BY DEF Again, Bound
<1>3. Shown' = Shown
  BY <1>1 DEF Shown, There
<1>4. Passed' = PassedBy(row, Shown, 0)
  BY <1>1, <1>2, <1>3, PassedNext DEF TypeOK
<1>5. Passed' = {}
  <2>1. \A i : Position(row, i, Shown) \in Nat
    BY ShownDated, Positions DEF TypeOK
  <2> QED
    BY <1>4, <2>1 DEF PassedBy
<1>6. Lost' = {} /\ Repeated' = {}
  BY <1>1, <1>5 DEF Lost, Repeated
<1>7. cursor' # Done /\ Cardinality({}) = 0
  BY <1>1, ValuesAssumption, FS_EmptySet
<1> QED
  BY <1>1, <1>6, <1>7 DEF OffsetKept, Lost, Repeated

LEMMA NextOffset ==
    ASSUME TypeOK, Cms, OffsetKept, [Next]_vars
    PROVE  OffsetKept'
<1>1. ASSUME UNCHANGED <<row, cursor, seen, twice, written, listVars>> PROVE OffsetKept'
  <2>1. Shown' = Shown /\ Steady' = Steady /\ Bound' = Bound
    BY <1>1 DEF Shown, There, Steady, Bound, listVars
  <2>2. Passed' = Passed
    BY <1>1, <2>1, PassedNext, PassedIs DEF TypeOK
  <2> QED
    BY <1>1, <2>1, <2>2 DEF OffsetKept, listVars
<1>2. CASE UNCHANGED vars
  BY <1>1, <1>2 DEF vars
<1>3. ~Ask
  BY DEF Ask
<1>4. ASSUME NEW c \in Cursors \cup {Start}, Expire(c) PROVE OffsetKept'
  BY <1>1, <1>4 DEF Expire
<1>5. ASSUME NEW i \in Writable, Add(i) \/ Publish(i) \/ Rewrite(i) PROVE OffsetKept'
  BY <1>5, Writes, OffsetWrites
<1> QED
  BY <1>2, <1>3, <1>4, <1>5, OffsetLists, OffsetCounts, OffsetAgain DEF Next

----------------------------------------------------------------------------
LEMMA KindStays == [Next]_vars => kind' = kind
BY DEF Next, Ask, ListRows, CountRows, Again, Expire, Add, Publish, Rewrite, Written, vars

LEMMA PagesInductive == Spec => []PageInv
<1>1. Init => PageInv
  BY InitTypes, InitWalk, InitOffset DEF PageInv
<1>2. PageInv /\ [Next]_vars => PageInv'
  <2> SUFFICES ASSUME PageInv, [Next]_vars PROVE PageInv'
    OBVIOUS
  <2>1. TypeOK /\ kind' = kind
    BY KindStays DEF PageInv
  <2>2. CASE Cms
    <3>1. TypeOK' /\ OffsetKept'
      BY <2>1, <2>2, NextTypes, NextOffset DEF PageInv
    <3> QED
      BY <2>1, <2>2, <3>1 DEF PageInv, Cms
  <2>3. CASE ~Cms
    <3>1. WalkKept
      BY <2>3 DEF PageInv
    <3>2. TypeOK' /\ WalkKept'
      BY <2>1, <2>3, <3>1, NextTypes, NextWalk DEF WalkKept
    <3> QED
      BY <2>1, <2>3, <3>2 DEF PageInv, Cms
  <2> QED
    BY <2>2, <2>3
<1> QED
  BY <1>1, <1>2, PTL DEF Spec

(* A walk that ends was given every dated row that stood through it, for   *)
(* any number of rows, any limit, and pages of any age.                    *)
THEOREM WalksComplete == Spec => []WalksVisitSteady
<1>1. PageInv => WalksVisitSteady
  BY DEF PageInv, WalkKept, WalksVisitSteady
<1> QED
  BY <1>1, PagesInductive, PTL

(* What a walk is given twice was given another date since it was given    *)
(* first, or since the page it was given on was made.                      *)
THEOREM RepeatsMoved == Spec => []TwiceOnlyMoved
<1>1. PageInv => TwiceOnlyMoved
  BY DEF PageInv, WalkKept, TwiceOnlyMoved
<1> QED
  BY <1>1, PagesInductive, PTL

(* In the lists of the CMS a row that leaves during a walk hides at most   *)
(* one row that stood through it, and one that comes repeats at most one.  *)
THEOREM ShiftsAreBounded == Spec => []ShiftsCostOneEach
<1>1. PageInv => ShiftsCostOneEach
  <2> SUFFICES ASSUME PageInv, Cms
               PROVE  /\ cursor = Done => Cardinality(Steady \ seen) <= left
                      /\ Cardinality(twice) <= came
    BY DEF ShiftsCostOneEach
  <2>1. TypeOK /\ OffsetKept
    BY DEF PageInv
  <2>2. /\ cursor = Done => Cardinality(Steady \ seen) <= left
        /\ Cardinality(Repeated) <= came /\ Repeated \subseteq Rows
    BY <2>1, OffsetParts
  <2>3. twice \subseteq Repeated
    BY DEF Repeated
  <2>4. Cardinality(twice) \in Nat /\ Cardinality(twice) <= Cardinality(Repeated)
        /\ Cardinality(Repeated) \in Nat
    BY <2>2, <2>3, Fewer
  <2>5. Cardinality(twice) <= came
    BY <2>1, <2>2, <2>4, BoundType
  <2> QED
    BY <2>2, <2>5
<1> QED
  BY <1>1, PagesInductive, PTL

(* The cursors of a walk descend, also from page to cached page: there is  *)
(* no way back in a walk, whatever is written.                             *)
THEOREM WalksDescend == Spec => CursorsDescend
<1> DEFINE Descends == Ask /\ cursor # Start /\ cursor' # Done =>
                          After(cursor'[1], cursor'[2], cursor[1], cursor[2])
<1>1. PageInv /\ [Next]_vars => [Descends]_vars
  <2> SUFFICES ASSUME PageInv, Ask, cursor # Start, cursor' # Done
               PROVE  After(cursor'[1], cursor'[2], cursor[1], cursor[2])
    OBVIOUS
  <2> DEFINE page == IF pages[cursor] # None THEN pages[cursor] ELSE PageOf(cursor)
  <2>1. cursor \in Cursors \cup {Start} /\ cursor' = CursorAfter(page) /\ WalkKept
    BY DEF Ask, PageInv, TypeOK
  <2>2. page \in SUBSET Items /\ PageKept(cursor, page)
    <3>1. pages[cursor] # None => PageKept(cursor, pages[cursor])
      BY <2>1 DEF WalkKept
    <3> QED
      BY <2>1, <3>1, PageMade DEF PageInv, TypeOK
  <2> HIDE DEF page
  <2>3. /\ LastOf(page) \in page
        /\ cursor' = <<LastOf(page).date, LastOf(page).id>>
    BY <2>1, <2>2, CursorOfLast DEF PageKept, OneItemEach
  <2>4. After(LastOf(page).date, LastOf(page).id, cursor[1], cursor[2])
    BY <2>2, <2>3 DEF PageKept
  <2> QED
    BY <2>3, <2>4
<1> QED
  BY <1>1, PagesInductive, PTL DEF Spec, CursorsDescend
===============================================================================
