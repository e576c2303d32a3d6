--------------------------- MODULE MainListProofs ---------------------------
(***************************************************************************)
(* The selection of the file browser is on the screen, for every card,     *)
(* every console, every view mode of two rows or more and any number of    *)
(* favourites.  Shown below, ListInv is the inductive invariant: the       *)
(* length of what is listed, the size of the window and the selection.     *)
(***************************************************************************)
EXTENDS MainList, FiniteSetTheorems, TLAPS

\* A list as the browser has it
GoodList(l) == l \in Lists /\ l.visible >= 2 /\ SelectedIsShown(l)

\* It shows the rows c.
ShownIn(l, c) == GoodList(l) /\ Len(c) \in Nat /\ l.rows = Len(c)

ListInv ==
    /\ layout \in Layouts
    /\ recent \in Recents
    /\ mode \in DOMAIN Modes
    /\ dir \in Dirs
    /\ ShownIn(list, content)

-----------------------------------------------------------------------------
(* What the list view's operations keep. *)

LEMMA ScrolledGood ==
    ASSUME NEW l \in Lists, NEW id \in Int
    PROVE  /\ ScrolledTo(l, id) \in Lists
           /\ ScrolledTo(l, id).rows = l.rows
           /\ ScrolledTo(l, id).visible = l.visible
           /\ ScrolledTo(l, id).selected = l.selected
           /\ ScrolledTo(l, id).first =
                 IF l.rows = 0 THEN l.first ELSE ClampedToPage(l, id)
BY DEF ScrolledTo, ClampedToPage, Upper, Lower, Lists

\* Where selectRow puts the selection and the window
LEMMA PickedWhere ==
    ASSUME NEW l \in Lists, l.rows # 0, NEW id \in Int,
           NEW row, row = Upper(0, Lower(id, l.rows - 1))
    PROVE  /\ Picked(l, id) \in Lists
           /\ Picked(l, id).rows = l.rows /\ Picked(l, id).visible = l.visible
           /\ row \in Nat /\ row < l.rows
           /\ Picked(l, id).selected = row
           /\ Picked(l, id).first =
                 IF row < l.first \/ row > LastVisible(l)
                 THEN ClampedToPage(l, row - (l.selected - l.first)) ELSE l.first
<1> DEFINE scrolled == IF row < l.first \/ row > LastVisible(l)
                       THEN ScrolledTo(l, row - (l.selected - l.first)) ELSE l
<1>1. /\ l.rows \in Nat /\ l.visible \in Nat /\ l.first \in Nat /\ l.selected \in Nat
      /\ l.rows >= 1
  BY DEF Lists
<1>2. row \in Nat /\ row < l.rows
  BY <1>1 DEF Upper, Lower
<1>3. row - (l.selected - l.first) \in Int
  BY <1>1, <1>2
<1>4. /\ scrolled \in Lists /\ scrolled.rows = l.rows /\ scrolled.visible = l.visible
      /\ scrolled.first = IF row < l.first \/ row > LastVisible(l)
                          THEN ClampedToPage(l, row - (l.selected - l.first)) ELSE l.first
  <2>1. CASE row < l.first \/ row > LastVisible(l)
    BY <1>3, <2>1, ScrolledGood
  <2>2. CASE ~(row < l.first \/ row > LastVisible(l))
    BY <2>2
  <2>3. QED
    BY <2>1, <2>2
<1>5. Picked(l, id) = [scrolled EXCEPT !.selected = row]
  BY DEF Picked
<1> HIDE DEF scrolled
<1>6. QED
  BY <1>2, <1>4, <1>5 DEF Lists

\* selectRow shows the row it selects, wherever the list was scrolled to, as
\* long as the selection was shown.
LEMMA PickedGood ==
    ASSUME NEW l, GoodList(l), NEW id \in Int
    PROVE  /\ GoodList(Picked(l, id))
           /\ Picked(l, id).rows = l.rows
           /\ Picked(l, id).visible = l.visible
<1>1. l \in Lists /\ l.visible >= 2 /\ SelectedIsShown(l)
  BY DEF GoodList
<1>2. CASE l.rows = 0
  BY <1>1, <1>2 DEF Picked, GoodList
<1>3. CASE l.rows # 0
  <2>1. PICK row : row = Upper(0, Lower(id, l.rows - 1))
    OBVIOUS
  <2>2. /\ Picked(l, id) \in Lists
        /\ Picked(l, id).rows = l.rows /\ Picked(l, id).visible = l.visible
        /\ row \in Nat /\ row < l.rows
        /\ Picked(l, id).selected = row
        /\ Picked(l, id).first =
              IF row < l.first \/ row > LastVisible(l)
              THEN ClampedToPage(l, row - (l.selected - l.first)) ELSE l.first
    BY <1>1, <1>3, <2>1, PickedWhere
  <2>3. /\ l.rows \in Nat /\ l.visible \in Nat /\ l.first \in Nat /\ l.selected \in Nat
        /\ l.selected < l.rows /\ l.first <= l.selected
        /\ l.selected < l.first + l.visible
    BY <1>1, <1>3 DEF Lists, SelectedIsShown
  <2>4. Picked(l, id).first <= row /\ row < Picked(l, id).first + l.visible
    BY <2>2, <2>3 DEF LastVisible, ClampedToPage, Upper, Lower
  <2>5. QED
    BY <1>1, <1>3, <2>2, <2>4 DEF GoodList, SelectedIsShown
<1>4. QED
  BY <1>2, <1>3

LEMMA FilledGood ==
    ASSUME NEW l \in Lists, l.visible >= 2, NEW n \in Nat
    PROVE  GoodList(Filled(l, n)) /\ Filled(l, n).rows = n
           /\ Filled(l, n).visible = l.visible
<1>1. /\ Filled(l, n) \in Lists /\ Filled(l, n).rows = n
      /\ Filled(l, n).visible = l.visible /\ l.visible \in Nat
      /\ Filled(l, n).first = 0 /\ Filled(l, n).selected = 0
  BY DEF Filled, Lists
<1>2. QED
  BY <1>1 DEF GoodList, SelectedIsShown

\* setViewMode scrolls to where the selection is the last row shown.
LEMMA ResizedGood ==
    ASSUME NEW l, GoodList(l), NEW v \in Nat, v >= 2
    PROVE  GoodList(Resized(l, v)) /\ Resized(l, v).rows = l.rows
<1> DEFINE shown == [l EXCEPT !.visible = v]
           id == l.selected - v + 1
<1>1. /\ shown \in Lists /\ shown.rows = l.rows /\ shown.visible = v
      /\ shown.first = l.first /\ shown.selected = l.selected
      /\ l.rows \in Nat /\ l.first \in Nat /\ l.selected \in Nat
  BY DEF GoodList, Lists
<1>2. id \in Int
  BY <1>1
<1> HIDE DEF shown
<1>3. /\ ScrolledTo(shown, id) \in Lists
      /\ ScrolledTo(shown, id).rows = l.rows /\ ScrolledTo(shown, id).visible = v
      /\ ScrolledTo(shown, id).selected = l.selected
      /\ ScrolledTo(shown, id).first = IF l.rows = 0 THEN l.first ELSE ClampedToPage(shown, id)
  BY <1>1, <1>2, ScrolledGood
<1>4. SelectedIsShown(ScrolledTo(shown, id))
  <2>1. CASE l.rows = 0
    BY <1>3, <2>1 DEF GoodList, SelectedIsShown
  <2>2. CASE l.rows # 0
    BY <1>1, <1>2, <1>3, <2>2 DEF GoodList, SelectedIsShown, ClampedToPage, Upper, Lower
  <2>3. QED
    BY <2>1, <2>2
<1>5. Resized(l, v) = ScrolledTo(shown, id)
  BY DEF Resized, shown
<1>6. QED
  BY <1>3, <1>4, <1>5 DEF GoodList

\* A drag moves the selection and the window; the window has to be of two rows.
LEMMA DraggedGood ==
    ASSUME NEW l, GoodList(l), NEW step \in {-1, 1}
    PROVE  GoodList(Dragged(l, step)) /\ Dragged(l, step).rows = l.rows
           /\ Dragged(l, step).visible = l.visible
<1> DEFINE moved == Picked(l, l.selected + step)
<1>1. /\ l \in Lists /\ l.visible >= 2 /\ SelectedIsShown(l)
      /\ l.rows \in Nat /\ l.visible \in Nat /\ l.first \in Nat /\ l.selected \in Nat
      /\ l.selected + step \in Int
  BY DEF GoodList, Lists
<1>2. GoodList(moved) /\ moved.rows = l.rows /\ moved.visible = l.visible
  BY <1>1, PickedGood
<1>3. Dragged(l, step) = ScrolledTo(moved, moved.first + step)
  BY DEF Dragged
<1>4. moved \in Lists /\ moved.first \in Nat /\ moved.selected \in Nat
  BY <1>2 DEF GoodList, Lists
<1>5. /\ Dragged(l, step) \in Lists
      /\ Dragged(l, step).rows = l.rows /\ Dragged(l, step).visible = l.visible
      /\ Dragged(l, step).selected = moved.selected
      /\ Dragged(l, step).first =
            IF l.rows = 0 THEN moved.first ELSE ClampedToPage(moved, moved.first + step)
  <2>1. moved.first + step \in Int
    BY <1>4
  <2> HIDE DEF moved
  <2>2. /\ ScrolledTo(moved, moved.first + step) \in Lists
        /\ ScrolledTo(moved, moved.first + step).rows = moved.rows
        /\ ScrolledTo(moved, moved.first + step).visible = moved.visible
        /\ ScrolledTo(moved, moved.first + step).selected = moved.selected
        /\ ScrolledTo(moved, moved.first + step).first =
              IF moved.rows = 0 THEN moved.first ELSE ClampedToPage(moved, moved.first + step)
    BY <1>4, <2>1, ScrolledGood
  <2>3. QED
    BY <1>2, <1>3, <2>2
<1>6. CASE l.rows = 0
  <2> HIDE DEF moved
  <2>1. QED
    BY <1>1, <1>2, <1>5, <1>6 DEF GoodList, SelectedIsShown
<1>7. CASE l.rows # 0
  <2>1. PICK row : row = Upper(0, Lower(l.selected + step, l.rows - 1))
    OBVIOUS
  <2>2. /\ row \in Nat /\ row < l.rows
        /\ moved.selected = row
        /\ moved.first = IF row < l.first \/ row > LastVisible(l)
                         THEN ClampedToPage(l, row - (l.selected - l.first)) ELSE l.first
    BY <1>1, <1>7, <2>1, PickedWhere
  <2>3. /\ l.selected < l.rows /\ l.first <= l.selected
        /\ l.selected < l.first + l.visible
    BY <1>1, <1>7 DEF SelectedIsShown
  <2> HIDE DEF moved
  <2>4. /\ moved.first <= row /\ row < moved.first + l.visible
        /\ \/ row = l.rows - 1 \/ step = -1 \/ moved.first < row
        /\ \/ row = 0 \/ step = 1 \/ row + 1 < moved.first + l.visible
    <3>1. CASE step = 1
      <4>1. row = (IF l.selected = l.rows - 1 THEN l.selected ELSE l.selected + 1)
        BY <1>1, <1>7, <2>1, <2>3, <3>1 DEF Upper, Lower
      <4>2. CASE row > LastVisible(l)
        <5>1. row = l.first + l.visible
          BY <1>1, <2>2, <2>3, <4>1, <4>2 DEF LastVisible, Lower
        <5>2. moved.first = l.first + 1
          BY <1>1, <2>2, <2>3, <4>1, <4>2, <5>1 DEF ClampedToPage, Upper, Lower
        <5>3. QED
          BY <1>1, <2>2, <3>1, <5>1, <5>2
      <4>3. CASE row <= LastVisible(l)
        <5>1. moved.first = l.first
          BY <1>1, <2>2, <2>3, <4>1, <4>3 DEF LastVisible, Lower
        <5>2. QED
          BY <1>1, <2>2, <2>3, <3>1, <4>1, <4>3, <5>1 DEF LastVisible, Lower
      <4>4. QED
        BY <1>1, <2>2, <4>2, <4>3 DEF LastVisible, Lower
    <3>2. CASE step = -1
      <4>1. row = (IF l.selected = 0 THEN 0 ELSE l.selected - 1)
        BY <1>1, <1>7, <2>1, <2>3, <3>2 DEF Upper, Lower
      <4>2. QED
        BY <1>1, <2>2, <2>3, <3>2, <4>1 DEF LastVisible, ClampedToPage, Upper, Lower
    <3>3. QED
      BY <3>1, <3>2
  <2>5. Dragged(l, step).first =
          Upper(0, Lower(Lower(moved.first + step, l.rows - 1), l.rows - l.visible))
    BY <1>2, <1>5, <1>7 DEF ClampedToPage
  <2>6. /\ Dragged(l, step).first <= row
        /\ row < Dragged(l, step).first + l.visible
    BY <1>1, <1>4, <2>2, <2>4, <2>5 DEF Upper, Lower
  <2>7. QED
    BY <1>1, <1>5, <1>7, <2>2, <2>6 DEF GoodList, SelectedIsShown
<1>8. QED
  BY <1>6, <1>7

-----------------------------------------------------------------------------
(* What the list is filled with is a sequence. *)

LEMMA SortedIsSeq ==
    ASSUME NEW S, IsFiniteSet(S)
    PROVE  \E T : Sorted(S) \in Seq(T)
<1> DEFINE n == Cardinality(S)
           T == {Sorted(S)[i] : i \in 1 .. n}
<1>1. n \in Nat
  BY FS_CardinalityType
<1>2. Sorted(S) \in [1 .. n -> T]
  BY DEF Sorted
<1> HIDE DEF n, T
<1>3. Sorted(S) \in Seq(T)
  BY <1>1, <1>2
<1>4. QED
  BY <1>3

LEMMA OtherNames ==
    /\ Top # FavRow /\ Top # RecentRow /\ FavRow # RecentRow
    /\ Top \notin Opened /\ FavRow \notin Opened /\ RecentRow \notin Opened
BY MainListAssumption

LEMMA RowsAreSeq ==
    ASSUME NEW d \in Dirs, NEW sav \in BOOLEAN, NEW favs,
           layout \in Layouts, recent \in Recents
    PROVE  \E T : RowsOf(d, sav, favs) \in Seq(T)
<1>1. CASE d = Top
  <2>1. layout.top \in Seq(Paths)
    BY MainListAssumption
  <2>2. RowsOf(d, sav, favs) = layout.top
    BY <1>1, OtherNames DEF RowsOf
  <2>3. QED
    BY <2>1, <2>2
<1>2. CASE d # Top /\ d = RecentRow
  <2>1. recent \in Seq(Files)
    BY MainListAssumption
  <2>2. RowsOf(d, sav, favs) = recent
    BY <1>2, OtherNames DEF RowsOf
  <2>3. QED
    BY <2>1, <2>2
<1>3. CASE d # Top /\ d # RecentRow /\ d = FavRow
  <2>1. IsFiniteSet((Devices \cup Entries) \cap favs)
    <3>1. IsFiniteSet({Fat}) /\ IsFiniteSet({Sd}) /\ Devices = {Fat} \cup {Sd}
      BY FS_Singleton DEF Devices
    <3>2. IsFiniteSet(Devices)
      BY <3>1, FS_Union
    <3>3. IsFiniteSet(Devices \cup Entries)
      BY <3>2, FS_Union, MainListAssumption
    <3>4. QED
      BY <3>3, FS_Subset
  <2>2. QED
    BY <1>3, <2>1, SortedIsSeq, OtherNames DEF RowsOf
<1>4. CASE d # Top /\ d # RecentRow /\ d # FavRow
  <2> DEFINE S == {e \in Entries : ParentOf[e] = d /\ (sav \/ e \notin SavFiles)}
  <2>1. IsFiniteSet(S)
    BY FS_Subset, MainListAssumption
  <2>2. d \in Opened
    BY <1>4 DEF Dirs
  <2>3. RowsOf(d, sav, favs) = Sorted(S)
    BY <1>4, <2>2, OtherNames DEF RowsOf, Listing
  <2> HIDE DEF S
  <2>4. QED
    BY <2>1, <2>3, SortedIsSeq
<1>5. QED
  BY <1>1, <1>2, <1>3, <1>4

LEMMA RowOfSeq ==
    ASSUME NEW T, NEW c \in Seq(T), NEW e
    PROVE  Len(c) \in Nat /\ RowOf(c, e) \in Int
<1>1. Len(c) \in Nat /\ DOMAIN c = 1 .. Len(c)
  OBVIOUS
<1>2. CASE \E i \in DOMAIN c : c[i] = e
  <2>1. (CHOOSE i \in DOMAIN c : c[i] = e) \in DOMAIN c
    BY <1>2
  <2>2. QED
    BY <1>1, <1>2, <2>1 DEF RowOf
<1>3. CASE ~\E i \in DOMAIN c : c[i] = e
  BY <1>1, <1>3 DEF RowOf
<1>4. QED
  BY <1>2, <1>3

LEMMA RowsFacts ==
    ASSUME NEW d \in Dirs, NEW sav \in BOOLEAN, NEW favs, NEW e,
           layout \in Layouts, recent \in Recents
    PROVE  /\ Len(RowsOf(d, sav, favs)) \in Nat
           /\ RowOf(RowsOf(d, sav, favs), e) \in Int
BY RowsAreSeq, RowOfSeq

LEMMA TopFacts ==
    ASSUME layout \in Layouts, NEW e
    PROVE  Len(layout.top) \in Nat /\ RowOf(layout.top, e) \in Int
BY RowOfSeq, MainListAssumption

-----------------------------------------------------------------------------
(* Filling the list. *)

LEMMA FolderChangedShown ==
    ASSUME NEW d \in Dirs, NEW c, NEW l, NEW row \in Int,
           layout \in Layouts, ShownIn(l, c), FolderChanged(d, c, l, row)
    PROVE  dir' = d /\ ShownIn(list', content')
<1> DEFINE back == Filled(l, Len(layout.top))
           chosen == Picked(back, RowOf(layout.top, Slot2))
<1>1. \/ content' = c /\ list' = Picked(l, row) /\ dir' = d
      \/ content' = layout.top /\ list' = Picked(chosen, row) /\ dir' = d
  BY Zenon DEF FolderChanged
<1>2. CASE content' = c /\ list' = Picked(l, row) /\ dir' = d
  BY <1>2, PickedGood DEF ShownIn
<1>3. CASE content' = layout.top /\ list' = Picked(chosen, row) /\ dir' = d
  <2>1. Len(layout.top) \in Nat /\ RowOf(layout.top, Slot2) \in Int
    BY TopFacts
  <2>2. GoodList(back) /\ back.rows = Len(layout.top)
    BY <2>1, FilledGood DEF ShownIn, GoodList
  <2> HIDE DEF back
  <2>3. GoodList(chosen) /\ chosen.rows = Len(layout.top)
    BY <2>1, <2>2, PickedGood
  <2> HIDE DEF chosen
  <2>4. QED
    BY <1>3, <2>1, <2>3, PickedGood DEF ShownIn
<1>4. QED
  BY <1>1, <1>2, <1>3

LEMMA ShownShown ==
    ASSUME NEW l, GoodList(l), NEW d \in Dirs, NEW sav \in BOOLEAN, NEW favs,
           NEW row \in Int, layout \in Layouts, recent \in Recents,
           Shown(l, d, sav, favs, row)
    PROVE  dir' \in Dirs /\ ShownIn(list', content')
<1> DEFINE c == RowsOf(d, sav, favs)
<1>1. Len(c) \in Nat
  BY RowsFacts
<1>2. FolderChanged(d, c, Filled(l, Len(c)), row)
  BY DEF Shown
<1> HIDE DEF c
<1>3. ShownIn(Filled(l, Len(c)), c)
  BY <1>1, FilledGood DEF ShownIn, GoodList
<1>4. QED
  BY <1>2, <1>3, FolderChangedShown

LEMMA EnteredShown ==
    ASSUME NEW l, ShownIn(l, content), NEW d \in Dirs, NEW sav \in BOOLEAN, NEW favs,
           NEW row \in Int, layout \in Layouts, recent \in Recents, dir \in Dirs,
           Entered(l, d, sav, favs, row)
    PROVE  dir' \in Dirs /\ ShownIn(list', content')
<1>1. CASE Shown(l, d, sav, favs, row)
  BY <1>1, ShownShown DEF ShownIn
<1>2. CASE list' = l /\ dir' = dir /\ content' = content
  BY <1>2
<1>3. QED
  BY <1>1, <1>2 DEF Entered

-----------------------------------------------------------------------------
(* The actions. *)

LEMMA InitListInv == Init => ListInv
<1> SUFFICES ASSUME Init PROVE ListInv
  OBVIOUS
<1> DEFINE filled == [rows |-> Len(content), visible |-> Modes[mode],
                      first |-> 0, selected |-> 0]
<1>1. /\ layout \in Layouts /\ recent \in Recents /\ mode \in DOMAIN Modes
      /\ dir \in Dirs /\ content = RowsOf(dir, savType, favorites) /\ savType \in BOOLEAN
  BY DEF Init, Dirs
<1>2. Len(content) \in Nat /\ \A e : RowOf(content, e) \in Int
  BY <1>1, RowsFacts
<1>3. Modes[mode] \in Nat /\ Modes[mode] >= 2
  BY <1>1, MainListAssumption
<1>4. GoodList(filled) /\ filled.rows = Len(content)
  BY <1>2, <1>3 DEF GoodList, Lists, SelectedIsShown
<1>5. PICK file : list = Picked(filled, RowOf(content, file))
  BY DEF Init
<1> HIDE DEF filled
<1>6. GoodList(list) /\ list.rows = Len(content)
  BY <1>2, <1>4, <1>5, PickedGood
<1>7. QED
  BY <1>1, <1>2, <1>6 DEF ListInv, ShownIn

\* opening the selected row
LEMMA OpenShown ==
    ASSUME ListInv, all \in BOOLEAN, savType \in BOOLEAN, Open
    PROVE  dir' \in Dirs /\ ShownIn(list', content')
<1>1. /\ ShownIn(list, content) /\ layout \in Layouts /\ recent \in Recents
      /\ dir \in Dirs /\ Top \in Dirs
  BY DEF ListInv, Dirs
<1>2. \/ FolderChanged(Top, content, list, list.selected)
      \/ /\ Selected \in Opened \cup {FavRow, RecentRow}
         /\ Entered(list, Selected, all \/ savType, favorites, 0)
      \/ dir' = dir /\ list' = list /\ content' = content
  BY Zenon DEF Open, browser
<1>3. CASE FolderChanged(Top, content, list, list.selected)
  <2>1. list.selected \in Int
    BY <1>1 DEF ShownIn, GoodList, Lists
  <2>2. QED
    BY <1>1, <1>3, <2>1, FolderChangedShown
<1>4. CASE /\ Selected \in Opened \cup {FavRow, RecentRow}
           /\ Entered(list, Selected, all \/ savType, favorites, 0)
  <2>1. Selected \in Dirs /\ 0 \in Int /\ (all \/ savType) \in BOOLEAN
    BY <1>4 DEF Dirs
  <2>2. QED
    BY <1>1, <1>4, <2>1, EnteredShown
<1>5. CASE dir' = dir /\ list' = list /\ content' = content
  BY <1>1, <1>5
<1>6. QED
  BY <1>2, <1>3, <1>4, <1>5

\* leaving the directory
LEMMA BackShown ==
    ASSUME ListInv, all \in BOOLEAN, savType \in BOOLEAN, Back
    PROVE  dir' \in Dirs /\ ShownIn(list', content')
<1> DEFINE sav == all \/ savType
           parent == ParentOf[dir]
           row == RowOf(RowsOf(parent, sav, favorites), dir)
           topRow == IF dir = layout.root THEN layout.uSD ELSE
                     IF dir \in {FavRow, RecentRow} THEN RowOf(layout.top, dir) ELSE 0
<1>1. /\ ShownIn(list, content) /\ GoodList(list) /\ layout \in Layouts /\ recent \in Recents
      /\ dir \in Dirs /\ Top \in Dirs /\ sav \in BOOLEAN
  BY DEF ListInv, Dirs, ShownIn
<1>2. \/ dir \in Folders /\ Entered(list, parent, sav, favorites, row)
      \/ Shown(list, Top, sav, favorites, topRow)
  BY Zenon DEF Back
<1>3. CASE dir \in Folders /\ Entered(list, parent, sav, favorites, row)
  <2>1. parent \in Dirs
    BY <1>3, MainListAssumption DEF Dirs, Entries
  <2>2. row \in Int
    BY <1>1, <2>1, RowsFacts
  <2> HIDE DEF sav, parent, row
  <2>3. QED
    BY <1>1, <1>3, <2>1, <2>2, EnteredShown
<1>4. CASE Shown(list, Top, sav, favorites, topRow)
  <2>1. layout.uSD \in Nat
    BY <1>1, MainListAssumption
  <2>2. topRow \in Int
    BY <1>1, <2>1, TopFacts
  <2> HIDE DEF sav, topRow
  <2>3. QED
    BY <1>1, <1>4, <2>2, ShownShown
<1>5. QED
  BY <1>2, <1>3, <1>4

Flags == all \in BOOLEAN /\ savType \in BOOLEAN

LEMMA NextListInv == ListInv /\ Flags /\ [Next]_vars => ListInv' /\ Flags'
<1> SUFFICES ASSUME ListInv, Flags, [Next]_vars PROVE ListInv' /\ Flags'
  OBVIOUS
<1>1. /\ ShownIn(list, content) /\ GoodList(list)
      /\ layout \in Layouts /\ recent \in Recents
      /\ mode \in DOMAIN Modes /\ dir \in Dirs /\ FavRow \in Dirs
      /\ list.visible \in Nat /\ list.selected \in Nat /\ list.first \in Nat
      /\ Flags /\ (all \/ savType) \in BOOLEAN /\ 0 \in Int
  BY DEF ListInv, ShownIn, GoodList, Lists, Dirs, Flags
<1> DEFINE Kept == layout' = layout /\ recent' = recent
           Settings == mode' = mode /\ all' = all /\ savType' = savType
<1>2. ASSUME Kept, mode' \in DOMAIN Modes, Flags',
             dir' \in Dirs, ShownIn(list', content')
      PROVE  ListInv' /\ Flags'
  BY <1>1, <1>2 DEF ListInv, ShownIn, GoodList
<1>3. ASSUME NEW l, list' = l, GoodList(l), l.rows = list.rows,
             dir' = dir, content' = content, Kept, mode' \in DOMAIN Modes, Flags'
      PROVE  ListInv' /\ Flags'
  BY <1>1, <1>2, <1>3 DEF ShownIn
<1>4. CASE PressArrow
  <2>1. PICK step \in {-1, 1, -list.visible, list.visible} :
          list' = Picked(list, list.selected + step)
    BY <1>4 DEF PressArrow
  <2>2. list.selected + step \in Int
    BY <1>1
  <2>3. Kept /\ Settings /\ dir' = dir /\ content' = content
    BY <1>4 DEF PressArrow, Rest, settings
  <2>4. QED
    BY <1>1, <1>3, <2>1, <2>2, <2>3, PickedGood DEF Flags
<1>5. CASE PressA
  <2>1. Open /\ Kept /\ Settings
    BY <1>5 DEF PressA, Rest, settings
  <2>2. QED
    BY <1>1, <1>2, <2>1, OpenShown DEF Flags
<1>6. CASE PressB
  <2>1. Back /\ Kept /\ Settings
    BY <1>6 DEF PressB, Rest, settings
  <2>2. QED
    BY <1>1, <1>2, <2>1, BackShown DEF Flags
<1>7. CASE PressX
  <2>1. Entered(list, FavRow, all \/ savType, favorites, 0) /\ Kept /\ Settings
    BY <1>7 DEF PressX, Rest, settings
  <2>2. dir' \in Dirs /\ ShownIn(list', content')
    BY <1>1, <2>1, EnteredShown
  <2>3. QED
    BY <1>1, <1>2, <2>1, <2>2 DEF Flags
<1>8. CASE PressSelect
  <2>1. /\ mode' = (mode % Len(Modes)) + 1 /\ list' = Resized(list, Modes[mode'])
        /\ Kept /\ all' = all /\ savType' = savType /\ dir' = dir /\ content' = content
    BY <1>8 DEF PressSelect, Rest
  <2>2. mode' \in DOMAIN Modes
    <3>1. Modes \in Seq(Nat) /\ mode \in 1 .. Len(Modes) /\ Len(Modes) \in Nat
      BY <1>1, MainListAssumption
    <3>2. (mode % Len(Modes)) \in 0 .. Len(Modes) - 1
      BY <3>1
    <3>3. QED
      BY <2>1, <3>1, <3>2
  <2>3. Modes[mode'] \in Nat /\ Modes[mode'] >= 2
    BY <2>2, MainListAssumption
  <2>4. QED
    BY <1>1, <1>3, <2>1, <2>2, <2>3, ResizedGood DEF Flags
<1>9. CASE SwitchShowAllFiles
  <2>1. /\ all' = ~all /\ Entered(list, dir, all' \/ savType, favorites, 0)
        /\ Kept /\ mode' = mode /\ savType' = savType
    BY <1>9 DEF SwitchShowAllFiles, Rest
  <2>2. Flags' /\ (all' \/ savType) \in BOOLEAN
    BY <1>1, <2>1 DEF Flags
  <2>3. dir' \in Dirs /\ ShownIn(list', content')
    BY <1>1, <2>1, <2>2, EnteredShown
  <2>4. QED
    BY <1>1, <1>2, <2>1, <2>2, <2>3
<1>10. CASE ShowSettings
  <2>1. PICK m \in DOMAIN Modes :
          /\ mode' = m
          /\ \/ /\ list' = Resized(list, Modes[m])
                /\ UNCHANGED <<savType, dir, content, savesOf, started>>
             \/ /\ savType' \in BOOLEAN
                /\ Entered(Resized(list, Modes[m]), dir, all \/ savType', favorites, 0)
    BY <1>10 DEF ShowSettings
  <2>2. Kept /\ all' = all
    BY <1>10 DEF ShowSettings, Rest
  <2>3. Modes[m] \in Nat /\ Modes[m] >= 2
    BY MainListAssumption
  <2>4. GoodList(Resized(list, Modes[m])) /\ Resized(list, Modes[m]).rows = list.rows
    BY <1>1, <2>3, ResizedGood
  <2>5. CASE list' = Resized(list, Modes[m]) /\ UNCHANGED <<savType, dir, content, savesOf, started>>
    BY <1>1, <1>3, <2>1, <2>2, <2>4, <2>5 DEF Flags
  <2>6. CASE savType' \in BOOLEAN
             /\ Entered(Resized(list, Modes[m]), dir, all \/ savType', favorites, 0)
    <3>1. ShownIn(Resized(list, Modes[m]), content)
      BY <1>1, <2>4 DEF ShownIn
    <3>2. (all \/ savType') \in BOOLEAN /\ Flags'
      BY <1>1, <2>2, <2>6 DEF Flags
    <3>3. dir' \in Dirs /\ ShownIn(list', content')
      BY <1>1, <2>6, <3>1, <3>2, EnteredShown
    <3>4. QED
      BY <1>2, <2>1, <2>2, <3>2, <3>3
  <2>7. QED
    BY <2>1, <2>5, <2>6
<1>11. CASE AddFavorite
  <2>1. Entered(list, dir, all \/ savType, favorites', 0) /\ Kept /\ Settings
    BY <1>11 DEF AddFavorite, Rest, settings
  <2>2. dir' \in Dirs /\ ShownIn(list', content')
    BY <1>1, <2>1, EnteredShown
  <2>3. QED
    BY <1>1, <1>2, <2>1, <2>2 DEF Flags
<1>12. CASE DeleteFavorite
  <2>1. Kept /\ Settings
    BY <1>12 DEF DeleteFavorite, Rest, settings
  <2>2. CASE Entered(list, dir, all \/ savType, favorites', 0)
    <3>1. dir' \in Dirs /\ ShownIn(list', content')
      BY <1>1, <2>2, EnteredShown
    <3>2. QED
      BY <1>1, <1>2, <2>1, <3>1 DEF Flags
  <2>3. CASE UNCHANGED browser
    BY <1>1, <1>3, <2>1, <2>3 DEF browser, Flags
  <2>4. QED
    BY <1>12, <2>2, <2>3 DEF DeleteFavorite
<1>13. CASE PenDown
  <2>1. PICK offset \in 0 .. list.visible :
          list' = IF OnRow(list, offset) THEN Picked(list, list.first + offset) ELSE list
    BY <1>13 DEF PenDown
  <2>2. Kept /\ Settings /\ dir' = dir /\ content' = content
    BY <1>13 DEF PenDown, Rest, settings
  <2>3. list.first + offset \in Int
    BY <1>1
  <2>4. GoodList(list') /\ list'.rows = list.rows
    BY <1>1, <2>1, <2>3, PickedGood
  <2>5. QED
    BY <1>1, <1>3, <2>2, <2>4 DEF Flags
<1>14. CASE PenMove
  <2>1. PICK step \in {-1, 1} : list' = Dragged(list, step)
    BY <1>14 DEF PenMove
  <2>2. Kept /\ Settings /\ dir' = dir /\ content' = content
    BY <1>14 DEF PenMove, Rest, settings
  <2>3. QED
    BY <1>1, <1>3, <2>1, <2>2, DraggedGood DEF Flags
<1>15. CASE PenUp
  <2>1. Kept /\ Settings
    BY <1>15 DEF PenUp, Rest, settings
  <2>2. CASE Open
    BY <1>1, <1>2, <2>1, <2>2, OpenShown DEF Flags
  <2>3. CASE UNCHANGED browser
    BY <1>1, <1>3, <2>1, <2>3 DEF browser, Flags
  <2>4. QED
    BY <1>15, <2>2, <2>3 DEF PenUp
<1>16. CASE UNCHANGED vars
  BY <1>1, <1>3, <1>16 DEF vars, Flags
<1>17. QED
  BY <1>4, <1>5, <1>6, <1>7, <1>8, <1>9, <1>10, <1>11, <1>12, <1>13, <1>14, <1>15, <1>16
     DEF Next

\* The selected row is always one of the rows and on the screen
\* (listview.cpp:160-205), whatever is listed and however it is moved in.
THEOREM MainListSelectedShown == Spec => []SelectedShown
<1>1. Init => ListInv /\ Flags
  BY InitListInv DEF Init, Flags
<1>2. ListInv /\ Flags /\ [Next]_vars => (ListInv /\ Flags)'
  BY NextListInv
<1>3. ListInv => SelectedShown
  BY DEF ListInv, ShownIn, GoodList, SelectedShown
<1>4. QED
  BY <1>1, <1>2, <1>3, PTL DEF Spec

-----------------------------------------------------------------------------
(* A sorted list has every entry once: the entries before one are fewer for  *)
(* an earlier entry, so each number below that of the entries occurs.        *)

LEMMA SortedPermutes ==
    ASSUME NEW S \in SUBSET (Devices \cup Entries), IsFiniteSet(S)
    PROVE  /\ Cardinality(S) \in Nat
           /\ \A i \in 1 .. Cardinality(S) : Sorted(S)[i] \in S
           /\ \A e \in S : \E i \in 1 .. Cardinality(S) : Sorted(S)[i] = e
<1> DEFINE n == Cardinality(S)
           Below(e) == {x \in S : Rank[x] < Rank[e]}
           f == [e \in S |-> Cardinality(Below(e))]
<1>0. n \in Nat /\ \A e \in S : Rank[e] \in Nat
  BY FS_CardinalityType, MainListAssumption
<1>1. ASSUME NEW e \in S
      PROVE  IsFiniteSet(Below(e)) /\ Cardinality(Below(e)) \in 0 .. n - 1
  <2>1. Below(e) \in SUBSET S /\ Below(e) # S
    BY <1>0
  <2> HIDE DEF Below
  <2>2. IsFiniteSet(Below(e)) /\ Cardinality(Below(e)) <= n /\ Cardinality(Below(e)) # n
    BY <2>1, FS_Subset
  <2>3. Cardinality(Below(e)) \in Nat
    BY <2>2, FS_CardinalityType
  <2> QED
    BY <1>0, <2>2, <2>3
<1>2. ASSUME NEW a \in S, NEW b \in S, Rank[a] < Rank[b]
      PROVE  Cardinality(Below(a)) # Cardinality(Below(b))
  <2>1. Below(a) \in SUBSET Below(b) /\ Below(a) # Below(b)
    <3>1. a \in Below(b) /\ a \notin Below(a)
      BY <1>0, <1>2
    <3>2. \A x \in Below(a) : x \in Below(b)
      BY <1>0, <1>2
    <3> QED
      BY <3>1, <3>2
  <2> HIDE DEF Below
  <2> QED
    BY <1>1, <2>1, FS_Subset
<1>3. ASSUME NEW a \in S, NEW b \in S, Cardinality(Below(a)) = Cardinality(Below(b))
      PROVE  a = b
  <2>1. ~(Rank[a] < Rank[b]) /\ ~(Rank[b] < Rank[a])
    BY <1>2, <1>3
  <2>2. Rank[a] = Rank[b]
    BY <1>0, <2>1
  <2> QED
    BY <2>2, MainListAssumption
<1>4. ASSUME NEW i \in 1 .. n PROVE \E e \in S : Cardinality(Below(e)) = i - 1
  <2> SUFFICES ASSUME \A e \in S : Cardinality(Below(e)) # i - 1 PROVE FALSE
    OBVIOUS
  <2> DEFINE U == 0 .. n - 1
             T == U \ {i - 1}
  <2>0. n - 1 \in Int /\ 0 \in Int /\ ~(0 > n - 1) /\ (n - 1) - 0 + 1 = n
    BY <1>0
  <2>1. IsFiniteSet(U) /\ Cardinality(U) = n
    BY <2>0, FS_Interval
  <2>2. i - 1 \in U
    BY <1>0
  <2> HIDE DEF U
  <2>3. IsFiniteSet(T) /\ Cardinality(T) = n - 1
    BY <2>1, <2>2, FS_RemoveElement
  <2>4. \A e \in S : Cardinality(Below(e)) \in T
    BY <1>1 DEF U
  <2> HIDE DEF Below, T
  <2>5. f \in [S -> T]
    BY <2>4
  <2>6. \A a, b \in S : a # b => f[a] # f[b]
    BY <1>3
  <2> HIDE DEF f
  <2>7. Cardinality(T) < n
    BY <1>0, <2>3
  <2> QED
    BY <2>3, <2>5, <2>6, <2>7, FS_PigeonHole
<1>5. ASSUME NEW i \in 1 .. n
      PROVE  Sorted(S)[i] \in S /\ Cardinality(Below(Sorted(S)[i])) = i - 1
  <2>1. Sorted(S)[i] = CHOOSE e \in S : Cardinality(Below(e)) = i - 1
    BY DEF Sorted
  <2> HIDE DEF Below
  <2> QED
    BY <1>4, <2>1
<1>6. ASSUME NEW e \in S PROVE \E i \in 1 .. n : Sorted(S)[i] = e
  <2> DEFINE i == Cardinality(Below(e)) + 1
  <2>3. Cardinality(Below(e)) \in 0 .. n - 1
    BY <1>1
  <2> HIDE DEF Below
  <2>1. i \in 1 .. n /\ i - 1 = Cardinality(Below(e))
    BY <1>0, <2>3
  <2> HIDE DEF i
  <2>2. Sorted(S)[i] \in S /\ Cardinality(Below(Sorted(S)[i])) = i - 1
    BY <1>5, <2>1
  <2>4. Sorted(S)[i] = e
    BY <1>3, <2>1, <2>2
  <2> QED
    BY <2>1, <2>4
<1> HIDE DEF Below, f
<1> QED
  BY <1>0, <1>5, <1>6

LEMMA SortedRows ==
    ASSUME NEW S \in SUBSET (Devices \cup Entries), IsFiniteSet(S)
    PROVE  /\ Len(Sorted(S)) \in Nat /\ DOMAIN Sorted(S) = 1 .. Len(Sorted(S))
           /\ \A i \in DOMAIN Sorted(S) : Sorted(S)[i] \in S
           /\ \A e \in S : \E i \in DOMAIN Sorted(S) : Sorted(S)[i] = e
<1>1. Sorted(S) \in [1 .. Cardinality(S) -> S] /\ Cardinality(S) \in Nat
  <2> DEFINE Entry(i) == CHOOSE e \in S : Cardinality({x \in S : Rank[x] < Rank[e]}) = i - 1
  <2>1. Sorted(S) = [i \in 1 .. Cardinality(S) |-> Entry(i)]
    BY DEF Sorted
  <2> HIDE DEF Entry
  <2>2. \A i \in 1 .. Cardinality(S) : Entry(i) \in S
    BY <2>1, SortedPermutes
  <2> QED
    BY <2>1, <2>2, SortedPermutes
<1>2. Sorted(S) \in Seq(S)
  BY <1>1
<1>3. DOMAIN Sorted(S) = 1 .. Len(Sorted(S)) /\ Len(Sorted(S)) \in Nat
      /\ DOMAIN Sorted(S) = 1 .. Cardinality(S)
  BY <1>1, <1>2
<1> QED
  BY <1>3, SortedPermutes

FiniteEntries == Devices \cup Entries
LEMMA EntriesFinite == IsFiniteSet(FiniteEntries)
<1>1. IsFiniteSet({Fat}) /\ IsFiniteSet({Sd}) /\ Devices = {Fat} \cup {Sd}
  BY FS_Singleton DEF Devices
<1>2. IsFiniteSet(Devices)
  BY <1>1, FS_Union
<1> QED
  BY <1>2, FS_Union, MainListAssumption DEF FiniteEntries

\* Only the top menu has rows that are no devices, folders or files; a folder's
\* rows are below it, and every folder below one is among its rows.
LEMMA RowsBelow ==
    ASSUME NEW d \in Dirs \ {Top}, NEW sav \in BOOLEAN, NEW favs,
           layout \in Layouts, recent \in Recents
    PROVE  LET c == RowsOf(d, sav, favs)
           IN  /\ Len(c) \in Nat /\ DOMAIN c = 1 .. Len(c)
               /\ \A i \in DOMAIN c : c[i] \in FiniteEntries
               /\ d \in Opened => \A i \in DOMAIN c : c[i] \in Entries /\ ParentOf[c[i]] = d
               /\ \A e \in Folders : ParentOf[e] = d => \E i \in DOMAIN c : c[i] = e
<1> DEFINE c == RowsOf(d, sav, favs)
<1>0. SavFiles \subseteq Files /\ \A e \in Entries : ParentOf[e] \in Opened
  BY MainListAssumption
<1>1. CASE d = RecentRow
  <2>1. c = recent /\ recent \in Seq(Files)
    BY <1>1, OtherNames, MainListAssumption DEF RowsOf
  <2> QED
    BY <1>0, <1>1, <2>1, OtherNames DEF FiniteEntries, Entries
<1>2. CASE d = FavRow
  <2> DEFINE S == (Devices \cup Entries) \cap favs
  <2>1. c = Sorted(S)
    BY <1>2, OtherNames DEF RowsOf
  <2>2. S \in SUBSET (Devices \cup Entries) /\ IsFiniteSet(S)
    BY EntriesFinite, FS_Subset DEF FiniteEntries
  <2>3. \A i \in DOMAIN Sorted(S) : Sorted(S)[i] \in S
    BY <2>2, SortedRows
  <2>4. Len(Sorted(S)) \in Nat /\ DOMAIN Sorted(S) = 1 .. Len(Sorted(S))
    BY <2>2, SortedRows
  <2>5. d \notin Opened /\ \A e \in Folders : ParentOf[e] # d
    BY <1>0, <1>2, OtherNames DEF Entries
  <2> HIDE DEF c
  <2>6. \A i \in DOMAIN c : c[i] \in FiniteEntries
    BY <2>1, <2>3 DEF FiniteEntries
  <2> HIDE DEF S
  <2>7. Len(c) \in Nat /\ DOMAIN c = 1 .. Len(c)
    BY <2>1, <2>4
  <2> QED
    BY <2>5, <2>6, <2>7 DEF c
<1>3. CASE d \in Opened
  <2> DEFINE S == {e \in Entries : ParentOf[e] = d /\ (sav \/ e \notin SavFiles)}
  <2>1. c = Sorted(S)
    BY <1>3, OtherNames DEF RowsOf, Listing
  <2>2. S \in SUBSET (Devices \cup Entries) /\ IsFiniteSet(S)
    BY EntriesFinite, FS_Subset DEF FiniteEntries
  <2>3. /\ Len(Sorted(S)) \in Nat /\ DOMAIN Sorted(S) = 1 .. Len(Sorted(S))
        /\ \A i \in DOMAIN Sorted(S) : Sorted(S)[i] \in S
        /\ \A e \in S : \E i \in DOMAIN Sorted(S) : Sorted(S)[i] = e
    BY <2>2, SortedRows
  <2>4. \A e \in Folders : ParentOf[e] = d => e \in S
    BY MainListAssumption DEF Entries
  <2>5. \A e \in S : e \in Entries /\ ParentOf[e] = d
    OBVIOUS
  <2> HIDE DEF c, S
  <2> QED
    BY <2>1, <2>3, <2>4, <2>5 DEF c, FiniteEntries
<1> QED
  BY <1>1, <1>2, <1>3 DEF Dirs

-----------------------------------------------------------------------------
(* What a step does to the listing. *)

LEMMA TopRows ==
    ASSUME layout \in Layouts
    PROVE  /\ layout.top \in Seq(Paths) /\ layout.top # <<>> /\ layout.top[1] \notin Slots
           /\ layout.root \in Devices /\ {FavRow, RecentRow} \subseteq Range(layout.top)
BY MainListAssumption

\* A list filled anew has its first row selected, and that is never a slot's.
LEMMA FirstIsNoSlot ==
    ASSUME NEW d \in Dirs, NEW sav \in BOOLEAN, NEW favs, NEW l \in Lists,
           layout \in Layouts, recent \in Recents
    PROVE  SelectedPath(RowsOf(d, sav, favs), Filled(l, Len(RowsOf(d, sav, favs)))) \notin Slots
<1> DEFINE c == RowsOf(d, sav, favs)
<1>1. NoDir \notin Slots /\ Slots \cap FiniteEntries = {}
  BY MainListAssumption DEF Paths, FiniteEntries
<1>2. Len(c) # 0 => c[1] \notin Slots
  <2>1. CASE d = Top
    BY <2>1, TopRows, OtherNames DEF RowsOf
  <2>2. CASE d # Top
    <3>1. Len(c) \in Nat /\ DOMAIN c = 1 .. Len(c) /\ \A i \in DOMAIN c : c[i] \in FiniteEntries
      BY <2>2, RowsBelow
    <3> HIDE DEF c
    <3> QED
      BY <1>1, <3>1
  <2> QED
    BY <2>1, <2>2
<1> HIDE DEF c
<1>3. Filled(l, Len(c)).rows = Len(c) /\ Filled(l, Len(c)).selected = 0
  BY DEF Filled, Lists
<1>4. SelectedPath(c, Filled(l, Len(c))) \notin Slots
  BY <1>1, <1>2, <1>3 DEF SelectedPath
<1> QED
  BY <1>4 DEF c

\* The rows of d are listed and row is selected; nothing is started.
Fills(d, sav, favs, row) ==
    /\ dir' = d /\ content' = RowsOf(d, sav, favs) /\ UNCHANGED started
    /\ savesOf' = IF d \in Opened THEN d ELSE NoDir
    /\ list'.rows = Len(content')
    /\ list'.rows # 0 => list'.selected = Upper(0, Lower(row, list'.rows - 1))

LEMMA ShownFills ==
    ASSUME NEW l, GoodList(l), NEW d \in Dirs, NEW sav \in BOOLEAN, NEW favs,
           NEW row \in Int, layout \in Layouts, recent \in Recents,
           Shown(l, d, sav, favs, row)
    PROVE  Fills(d, sav, favs, row)
<1> DEFINE c == RowsOf(d, sav, favs)
           filled == Filled(l, Len(c))
<1>1. SelectedPath(c, filled) \notin Slots
  BY FirstIsNoSlot DEF GoodList
<1>2. FolderChanged(d, c, filled, row) /\ savesOf' = IF d \in Opened THEN d ELSE NoDir
  BY DEF Shown
<1>3. Len(c) \in Nat
  BY RowsFacts
<1> HIDE DEF c
<1>4. filled \in Lists /\ filled.rows = Len(c)
  BY <1>3 DEF Filled, GoodList, Lists
<1> HIDE DEF filled
<1>5. dir' = d /\ content' = c /\ list' = Picked(filled, row) /\ UNCHANGED started
  BY <1>1, <1>2 DEF FolderChanged
<1>6. Picked(filled, row).rows = Len(c)
      /\ (Len(c) # 0 => Picked(filled, row).selected = Upper(0, Lower(row, Len(c) - 1)))
  <2>1. CASE Len(c) = 0
    BY <1>4, <2>1 DEF Picked
  <2>2. CASE Len(c) # 0
    BY <1>4, <2>2, PickedWhere
  <2> QED
    BY <2>1, <2>2
<1>7. content' = RowsOf(d, sav, favs)
  BY <1>5 DEF c
<1> QED
  BY <1>2, <1>5, <1>6, <1>7 DEF Fills

\* Nothing listed changes: only favourites that are not what is listed may.
Stays ==
    /\ dir' = dir /\ content' = content /\ UNCHANGED started
    /\ savesOf' \in {savesOf, NoDir}
    /\ favorites' = favorites \/ dir # FavRow

\* A slot of the top menu is opened, or cannot be.
OpensSlot ==
    /\ Selected \in Slots /\ (PressA \/ PenUp)
    /\ dir = Top /\ dir' = Top /\ content' = layout.top
    /\ started' \in {Selected, started} /\ savesOf' = NoDir

\* Where the list of d comes from: the same directory, the favourites (X), the
\* row opened, or the way back.
WayBack(d, row) ==
    \/ dir \in Folders /\ d = ParentOf[dir]
       /\ \E sav \in BOOLEAN : /\ content' = RowsOf(d, sav, favorites)
                              /\ row = RowOf(RowsOf(d, sav, favorites), dir)
    \/ /\ dir \notin Folders /\ d = Top
       /\ dir \in {FavRow, RecentRow} => row = RowOf(layout.top, dir)
Leads(d, row) ==
    \/ d = dir
    \/ d = FavRow
    \/ d = Selected /\ d \in Opened \cup {FavRow, RecentRow}
    \/ WayBack(d, row)

Refills ==
    \E d \in Dirs, sav \in BOOLEAN, row \in Int :
        Fills(d, sav, favorites', row) /\ Leads(d, row)

LEMMA EnteredFills ==
    ASSUME NEW l, GoodList(l), NEW d \in Dirs, NEW sav \in BOOLEAN, NEW favs,
           NEW row \in Int, layout \in Layouts, recent \in Recents,
           Entered(l, d, sav, favs, row)
    PROVE  \/ Fills(d, sav, favs, row)
           \/ /\ d \in Opened /\ savesOf' = NoDir /\ UNCHANGED <<dir, content, started>>
BY ShownFills DEF Entered

\* A folder opened where nothing else changes.
LEMMA EnterRefills ==
    ASSUME NEW l, GoodList(l), NEW d \in Dirs, NEW sav \in BOOLEAN, NEW row \in Int,
           layout \in Layouts, recent \in Recents, dir \in Dirs, Leads(d, row),
           favorites' = favorites \/ d = dir,
           Entered(l, d, sav, favorites', row)
    PROVE  Stays \/ Refills
<1>1. CASE Fills(d, sav, favorites', row)
  BY <1>1 DEF Refills
<1>2. CASE d \in Opened /\ savesOf' = NoDir /\ UNCHANGED <<dir, content, started>>
  <2>1. favorites' = favorites \/ dir # FavRow
    BY <1>2, OtherNames
  <2> QED
    BY <1>2, <2>1 DEF Stays
<1> QED
  BY <1>1, <1>2, EnteredFills

BrowserInv == ListInv /\ Flags /\ ListingOfDir

\* The selected row is one of the rows, if there are any.
LEMMA SelectedIn ==
    ASSUME BrowserInv, layout \in Layouts, recent \in Recents, dir \in Dirs
    PROVE  /\ dir # Top => Selected \in FiniteEntries \cup {NoDir}
           /\ dir \in Opened =>
                 Selected = NoDir \/ (ParentOf[Selected] = dir /\ Selected \in Entries)
           /\ dir = Top => content = layout.top
<1>1. PICK sav \in BOOLEAN : content = RowsOf(dir, sav, favorites)
  BY DEF BrowserInv, ListingOfDir, RowsOfDir
<1>2. GoodList(list) /\ list.rows = Len(content) /\ Len(content) \in Nat
  BY DEF BrowserInv, ListInv, ShownIn
<1>3. list.rows # 0 => list.selected + 1 \in 1 .. Len(content)
  BY <1>2 DEF GoodList, SelectedIsShown, Lists
<1>4. Selected = IF list.rows = 0 THEN NoDir ELSE content[list.selected + 1]
  BY DEF Selected, SelectedPath
<1>5. CASE dir = Top
  BY <1>1, <1>5, OtherNames DEF RowsOf
<1>6. CASE dir # Top
  <2>1. /\ DOMAIN content = 1 .. Len(content)
        /\ \A i \in DOMAIN content : content[i] \in FiniteEntries
        /\ dir \in Opened => \A i \in DOMAIN content : content[i] \in Entries /\ ParentOf[content[i]] = dir
    BY <1>1, <1>6, RowsBelow
  <2> QED
    <3>1. CASE list.rows = 0
      BY <3>1, <1>4, <1>6
    <3>2. CASE list.rows # 0
      <4>1. list.selected + 1 \in DOMAIN content
        BY <3>2, <1>3, <2>1
      <4>2. Selected = content[list.selected + 1]
        BY <3>2, <1>4
      <4> QED
        BY <1>6, <2>1, <4>1, <4>2
    <3> QED
      BY <3>1, <3>2
<1> QED
  BY <1>5, <1>6

LEMMA OpenSteps ==
    ASSUME BrowserInv, PressA \/ PenUp, Open, favorites' = favorites
    PROVE  Stays \/ OpensSlot \/ Refills
<1>0. /\ GoodList(list) /\ layout \in Layouts /\ recent \in Recents /\ dir \in Dirs
      /\ (all \/ savType) \in BOOLEAN /\ 0 \in Int
  BY DEF BrowserInv, ListInv, ShownIn, Flags
<1>1. CASE Selected \in Slots
  <2>1. savesOf' = NoDir /\ FolderChanged(Top, content, list, list.selected)
    <3>1. Selected \notin Opened \cup {FavRow, RecentRow}
      BY <1>1, MainListAssumption DEF Opened, Entries
    <3> QED
      BY <1>1, <3>1 DEF Open
  <2>2. dir = Top /\ content = layout.top
    <3>1. Selected \notin FiniteEntries \cup {NoDir}
      BY <1>1, MainListAssumption DEF FiniteEntries, Paths
    <3> QED
      BY <1>0, <3>1, SelectedIn
  <2>3. Idle
    BY DEF PressA, PenUp
  <2>4. SelectedPath(content, list) = Selected
    BY DEF Selected
  <2>5. dir' = Top /\ content' \in {content, layout.top} /\ started' \in {Selected, NoDir, started}
    BY <2>1, <2>4, Zenon DEF FolderChanged
  <2> QED
    BY <1>1, <2>1, <2>2, <2>3, <2>5 DEF OpensSlot, Idle
<1>2. CASE Selected \notin Slots /\ Selected \in Opened \cup {FavRow, RecentRow}
  <2>1. Entered(list, Selected, all \/ savType, favorites, 0)
    BY <1>2 DEF Open
  <2>2. Selected \in Dirs /\ Leads(Selected, 0)
    BY <1>2 DEF Dirs, Leads
  <2> QED
    BY <1>0, <2>1, <2>2, EnterRefills
<1>3. CASE Selected \notin Slots /\ Selected \notin Opened \cup {FavRow, RecentRow}
  BY <1>3 DEF Open, browser, Stays
<1> QED
  BY <1>1, <1>2, <1>3

LEMMA BackSteps ==
    ASSUME BrowserInv, Back, favorites' = favorites
    PROVE  Stays \/ Refills
<1> DEFINE sav == all \/ savType
           parent == ParentOf[dir]
           row == RowOf(RowsOf(parent, sav, favorites), dir)
           topRow == IF dir = layout.root THEN layout.uSD ELSE
                     IF dir \in {FavRow, RecentRow} THEN RowOf(layout.top, dir) ELSE 0
<1>0. /\ GoodList(list) /\ layout \in Layouts /\ recent \in Recents /\ dir \in Dirs
      /\ sav \in BOOLEAN /\ Top \in Dirs
  BY DEF BrowserInv, ListInv, ShownIn, Flags, Dirs
<1>1. CASE dir \in Folders
  <2>1. parent \in Dirs /\ parent \in Opened
    BY <1>1, MainListAssumption DEF Dirs, Entries
  <2>2. row \in Int
    BY <1>0, <2>1, RowsFacts
  <2>3. Entered(list, parent, sav, favorites, row)
    BY <1>1 DEF Back
  <2>4. CASE Fills(parent, sav, favorites, row)
    <3>1. WayBack(parent, row)
      BY <1>0, <1>1, <2>4 DEF WayBack, Fills
    <3>2. Leads(parent, row)
      BY <3>1 DEF Leads
    <3> HIDE DEF row, parent, sav
    <3> QED
      BY <1>0, <2>1, <2>2, <2>4, <3>2 DEF Refills
  <2>5. CASE savesOf' = NoDir /\ UNCHANGED <<dir, content, started>>
    BY <2>5 DEF Stays
  <2> HIDE DEF row, parent, sav
  <2> QED
    BY <1>0, <2>1, <2>2, <2>3, <2>4, <2>5, EnteredFills
<1>2. CASE dir \notin Folders
  <2>1. layout.uSD \in Nat
    BY <1>0, MainListAssumption
  <2>2. topRow \in Int
    BY <1>0, <2>1, TopFacts
  <2>3. Shown(list, Top, sav, favorites, topRow)
    BY <1>2 DEF Back
  <2>4. dir \in {FavRow, RecentRow} => topRow = RowOf(layout.top, dir)
    BY <1>0, TopRows, OtherNames DEF Opened
  <2>5. WayBack(Top, topRow)
    BY <1>2, <2>4 DEF WayBack
  <2> HIDE DEF sav, topRow
  <2>6. Fills(Top, sav, favorites, topRow)
    BY <1>0, <2>2, <2>3, ShownFills
  <2> QED
    BY <1>0, <2>2, <2>5, <2>6 DEF Refills, Leads
<1> QED
  BY <1>1, <1>2

LEMMA StepEffects ==
    ASSUME BrowserInv, [Next]_vars
    PROVE  /\ Stays \/ OpensSlot \/ Refills
           /\ UNCHANGED <<layout, recent>>
<1>0. /\ GoodList(list) /\ layout \in Layouts /\ recent \in Recents /\ dir \in Dirs
      /\ (all \/ savType) \in BOOLEAN /\ 0 \in Int /\ FavRow \in Dirs
      /\ all \in BOOLEAN /\ savType \in BOOLEAN
  BY DEF BrowserInv, ListInv, ShownIn, Flags, Dirs
<1> USE DEF Rest
<1>1. CASE PressArrow \/ PressSelect \/ PenDown \/ PenMove \/ UNCHANGED vars
  BY <1>1 DEF PressArrow, PressSelect, PenDown, PenMove, vars, Stays
<1>2. CASE PressA
  <2>1. Open /\ favorites' = favorites /\ UNCHANGED <<layout, recent>>
    BY <1>2 DEF PressA
  <2> QED
    BY <1>2, <2>1, OpenSteps
<1>3. CASE PressB
  <2>1. Back /\ favorites' = favorites /\ UNCHANGED <<layout, recent>>
    BY <1>3 DEF PressB
  <2> QED
    BY <2>1, BackSteps
<1>4. CASE PressX
  <2>1. /\ Entered(list, FavRow, all \/ savType, favorites', 0) /\ favorites' = favorites
        /\ UNCHANGED <<layout, recent>>
    BY <1>4 DEF PressX
  <2>2. Leads(FavRow, 0)
    BY DEF Leads
  <2> QED
    BY <1>0, <2>1, <2>2, EnterRefills
<1>5. CASE SwitchShowAllFiles
  <2>1. /\ Entered(list, dir, all' \/ savType, favorites', 0) /\ favorites' = favorites
        /\ UNCHANGED <<layout, recent>> /\ (all' \/ savType) \in BOOLEAN
    BY <1>0, <1>5 DEF SwitchShowAllFiles
  <2>2. Leads(dir, 0)
    BY DEF Leads
  <2> QED
    BY <1>0, <2>1, <2>2, EnterRefills
<1>6. CASE ShowSettings
  <2>1. PICK m \in DOMAIN Modes :
           \/ UNCHANGED <<savType, dir, content, savesOf, started>>
           \/ /\ savType' \in BOOLEAN
              /\ Entered(Resized(list, Modes[m]), dir, all \/ savType', favorites, 0)
    BY <1>6 DEF ShowSettings
  <2>2. favorites' = favorites /\ UNCHANGED <<layout, recent>>
    BY <1>6 DEF ShowSettings
  <2>3. GoodList(Resized(list, Modes[m]))
    BY <1>0, MainListAssumption, ResizedGood
  <2>4. Leads(dir, 0)
    BY DEF Leads
  <2>5. CASE UNCHANGED <<savType, dir, content, savesOf, started>>
    BY <2>2, <2>5 DEF Stays
  <2>6. CASE /\ savType' \in BOOLEAN
             /\ Entered(Resized(list, Modes[m]), dir, all \/ savType', favorites, 0)
    <3>1. (all \/ savType') \in BOOLEAN
      BY <1>0, <2>6
    <3>2. Stays \/ Refills
      BY <1>0, <2>2, <2>3, <2>4, <2>6, <3>1, EnterRefills
    <3> QED
      BY <2>2, <3>2
  <2> QED
    BY <2>1, <2>5, <2>6
<1>7. CASE AddFavorite
  <2>1. /\ Entered(list, dir, all \/ savType, favorites', 0) /\ UNCHANGED <<layout, recent>>
    BY <1>7 DEF AddFavorite
  <2>2. Leads(dir, 0)
    BY DEF Leads
  <2> QED
    BY <1>0, <2>1, <2>2, EnterRefills
<1>8. CASE DeleteFavorite
  <2>1. UNCHANGED <<layout, recent>> /\ Leads(dir, 0)
    BY <1>8 DEF DeleteFavorite, Leads
  <2>2. CASE dir = FavRow
    <3>1. Entered(list, dir, all \/ savType, favorites', 0)
      BY <1>8, <2>2 DEF DeleteFavorite
    <3> QED
      BY <1>0, <2>1, <3>1, EnterRefills
  <2>3. CASE dir # FavRow
    BY <1>8, <2>1, <2>3 DEF DeleteFavorite, browser, Stays
  <2> QED
    BY <2>2, <2>3
<1>9. CASE PenUp
  <2>1. favorites' = favorites /\ UNCHANGED <<layout, recent>>
    BY <1>9 DEF PenUp
  <2>2. CASE UNCHANGED browser
    BY <2>1, <2>2 DEF browser, Stays
  <2>3. CASE Open
    BY <1>9, <2>1, <2>3, OpenSteps
  <2> QED
    BY <1>9, <2>1, <2>2, <2>3 DEF PenUp
<1> QED
  BY <1>1, <1>2, <1>3, <1>4, <1>5, <1>6, <1>7, <1>8, <1>9 DEF Next

LEMMA BrowserInit == Init => BrowserInv
<1> SUFFICES ASSUME Init PROVE BrowserInv
  OBVIOUS
<1>1. content = RowsOf(dir, savType, favorites) /\ savType \in BOOLEAN /\ all = FALSE
      /\ savesOf = IF dir \in Opened THEN dir ELSE NoDir
  BY DEF Init
<1>2. ListingOfDir
  BY <1>1 DEF ListingOfDir, RowsOfDir, SavesOwn
<1> QED
  BY <1>1, <1>2, InitListInv DEF BrowserInv, Flags

LEMMA OnlyFavRowDepends ==
    ASSUME NEW d \in Dirs \ {FavRow}, NEW sav, NEW a, NEW b
    PROVE  RowsOf(d, sav, a) = RowsOf(d, sav, b)
BY OtherNames DEF RowsOf, Dirs

LEMMA BrowserStep == BrowserInv /\ [Next]_vars => BrowserInv'
<1> SUFFICES ASSUME BrowserInv, [Next]_vars PROVE BrowserInv'
  OBVIOUS
<1>1. ListInv' /\ Flags'
  BY NextListInv DEF BrowserInv
<1>2. Stays \/ OpensSlot \/ Refills
  BY StepEffects
<1>3. layout' = layout /\ recent' = recent /\ dir \in Dirs
  BY StepEffects DEF BrowserInv, ListInv
<1>5. ListingOfDir'
  <2>1. CASE Stays
    <3>1. PICK sav \in BOOLEAN : content = RowsOf(dir, sav, favorites)
      BY DEF BrowserInv, ListingOfDir, RowsOfDir
    <3>2. RowsOf(dir, sav, favorites) = RowsOf(dir, sav, favorites')
      BY <1>3, <2>1, OnlyFavRowDepends DEF Stays
    <3> QED
      BY <1>3, <2>1, <3>1, <3>2 DEF Stays, ListingOfDir, RowsOfDir, SavesOwn, RowsOf, BrowserInv
  <2>2. CASE OpensSlot
    BY <1>3, <2>2, OtherNames DEF OpensSlot, ListingOfDir, RowsOfDir, SavesOwn, RowsOf
  <2>3. CASE Refills
    <3>1. PICK d \in Dirs, sav \in BOOLEAN, row \in Int : Fills(d, sav, favorites', row)
      BY <2>3 DEF Refills
    <3> QED
      BY <1>3, <3>1 DEF Fills, ListingOfDir, RowsOfDir, SavesOwn, RowsOf
  <2> QED
    BY <1>2, <2>1, <2>2, <2>3
<1> QED
  BY <1>1, <1>5 DEF BrowserInv

\* What the screen lists is the directory whose name it shows, whatever could
\* not be opened, sorted anew or filled around a cartridge (enterDir).
THEOREM MainListListingOfDir == Spec => []ListingOfDir
<1>1. BrowserInv => ListingOfDir
  BY DEF BrowserInv
<1> QED
  BY <1>1, BrowserInit, BrowserStep, PTL DEF Spec

\* A cartridge starts only when its own row is opened: no list filled anew has
\* a slot's row selected (onFolderChanged).
THEOREM MainListSlotAsked == Spec => SlotAsked
<1>1. BrowserInv /\ [Next]_vars =>
        [started' # started => Selected = started' /\ (PressA \/ PenUp)]_vars
  BY StepEffects DEF Stays, OpensSlot, Refills, Fills
<1> QED
  BY <1>1, BrowserInit, BrowserStep, PTL DEF Spec, SlotAsked

\* A list filled with the row of e selected has e selected, where it is listed.
LEMMA RowOfFound ==
    ASSUME NEW c, Len(c) \in Nat, DOMAIN c = 1 .. Len(c), NEW e,
           \E i \in DOMAIN c : c[i] = e, NEW l, l.rows = Len(c),
           l.rows # 0 => l.selected = Upper(0, Lower(RowOf(c, e), l.rows - 1))
    PROVE  SelectedPath(c, l) = e
<1> DEFINE i == CHOOSE i \in DOMAIN c : c[i] = e
<1>1. i \in 1 .. Len(c) /\ c[i] = e
  OBVIOUS
<1>2. RowOf(c, e) = i - 1
  BY DEF RowOf
<1> HIDE DEF i
<1>3. l.rows # 0 /\ l.selected = i - 1
  BY <1>1, <1>2 DEF Upper, Lower
<1>4. l.selected + 1 = i
  BY <1>1, <1>3
<1> QED
  BY <1>1, <1>3, <1>4 DEF SelectedPath

\* The directory shown after a step that leaves is another one, and no row of it
\* was opened: the way back was taken.
LEMMA LeavingGoesBack ==
    ASSUME BrowserInv, [Next]_vars,
           (dir \in Folders /\ dir' = ParentOf[dir]) \/ (dir \in {FavRow, RecentRow} /\ dir' = Top)
    PROVE  \E sav \in BOOLEAN, row \in Int :
              Fills(dir', sav, favorites', row) /\ WayBack(dir', row)
<1>0. /\ layout \in Layouts /\ recent \in Recents /\ dir \in Dirs
      /\ Folders \subseteq Entries /\ Folders \subseteq Opened
  BY DEF BrowserInv, ListInv, ShownIn, Entries, Opened
<1>1. dir' # dir /\ dir' # FavRow /\ dir # Top
  <2>1. CASE dir \in Folders
    BY <1>0, <2>1, MainListAssumption, OtherNames
  <2>2. CASE dir \notin Folders
    BY <2>2, OtherNames
  <2> QED
    BY <2>1, <2>2
<1>2. ~(dir' = Selected /\ dir' \in Opened \cup {FavRow, RecentRow})
  <2>1. CASE dir \in Folders
    <3> SUFFICES ASSUME dir' = Selected PROVE FALSE
      OBVIOUS
    <3>1. Selected = ParentOf[dir] /\ Selected \in Opened
      BY <1>0, <2>1, MainListAssumption, OtherNames
    <3>2. Selected # NoDir
      BY <3>1, MainListAssumption DEF Paths, Opened, Entries
    <3>3. ParentOf[Selected] = dir /\ Selected \in Entries
      BY <1>0, <2>1, <3>2, SelectedIn
    <3> QED
      BY <1>0, <2>1, <3>1, <3>3, MainListAssumption
  <2>2. CASE dir \notin Folders
    BY <2>2, OtherNames
  <2> QED
    BY <2>1, <2>2
<1>3. Refills
  <2>1. ~Stays
    BY <1>1 DEF Stays
  <2>2. ~OpensSlot
    BY <1>1 DEF OpensSlot
  <2> QED
    BY <2>1, <2>2, StepEffects
<1> QED
  BY <1>1, <1>2, <1>3 DEF Refills, Leads, Fills

\* Whatever is listed and selected, leaving a folder selects it in its parent,
\* and leaving the favourites or the recent games their row (backParentDir).
THEOREM MainListBackSelectsFolder == Spec => BackSelectsFolder
<1> DEFINE Left == \/ dir \in Folders /\ dir' = ParentOf[dir]
                   \/ dir \in {FavRow, RecentRow} /\ dir' = Top
<1>1. ASSUME BrowserInv, [Next]_vars, Left
      PROVE  SelectedPath(content', list') = dir
  <2>0. layout \in Layouts /\ recent \in Recents /\ dir \in Dirs
    BY <1>1 DEF BrowserInv, ListInv
  <2>1. PICK sav \in BOOLEAN, row \in Int : Fills(dir', sav, favorites', row) /\ WayBack(dir', row)
    BY <1>1, LeavingGoesBack
  <2>2. /\ list'.rows = Len(content')
        /\ list'.rows # 0 => list'.selected = Upper(0, Lower(row, list'.rows - 1))
    BY <2>1 DEF Fills
  <2>3. CASE dir \in Folders
    <3>1. dir' = ParentOf[dir] /\ dir' \in Opened /\ dir' \in Dirs \ {Top}
      BY <1>1, <2>3, MainListAssumption, OtherNames DEF Opened, Entries, Dirs
    <3>2. PICK s \in BOOLEAN : /\ content' = RowsOf(dir', s, favorites)
                               /\ row = RowOf(content', dir)
      BY <2>1, <2>3 DEF WayBack
    <3>3. /\ Len(content') \in Nat /\ DOMAIN content' = 1 .. Len(content')
          /\ \E i \in DOMAIN content' : content'[i] = dir
      BY <2>0, <2>3, <3>1, <3>2, RowsBelow
    <3> QED
      BY <2>2, <3>2, <3>3, RowOfFound
  <2>4. CASE dir \notin Folders
    <3>1. dir \in {FavRow, RecentRow} /\ dir' = Top /\ row = RowOf(layout.top, dir)
      BY <1>1, <2>1, <2>4 DEF WayBack
    <3>2. content' = layout.top
      <4>1. layout' = layout
        BY <1>1, StepEffects
      <4> QED
        BY <2>1, <3>1, <4>1, OtherNames DEF Fills, RowsOf
    <3>3. /\ Len(content') \in Nat /\ DOMAIN content' = 1 .. Len(content')
          /\ \E i \in DOMAIN content' : content'[i] = dir
      BY <2>0, <3>1, <3>2, TopRows DEF Range
    <3> QED
      BY <2>2, <3>1, <3>2, <3>3, RowOfFound
  <2> QED
    BY <2>3, <2>4
<1>2. BrowserInv /\ [Next]_vars => [Left => SelectedPath(content', list') = dir]_vars
  BY <1>1
<1> QED
  BY <1>2, BrowserInit, BrowserStep, PTL DEF Spec, BackSelectsFolder
=============================================================================
