------------------------------ MODULE MainList ------------------------------
(***************************************************************************)
(* The file browser: arm9/source/mainlist.cpp over ui/listview.cpp, with   *)
(* the keys, the pen and the menu entries of mainwnd.cpp that move in it,  *)
(* and favorites.cpp.  Directories, favourites, recent games and the top   *)
(* menu of devices are shown in one list; entering and leaving them, or a  *)
(* change of the settings, fills it anew.  A cartridge in a slot is        *)
(* started when a filled list has its row selected.                        *)
(***************************************************************************)
EXTENDS ListView, Sequences, FiniteSets, Functions

CONSTANTS Fat, Sd, FavRow, RecentRow, Slot1, Slot2,  \* rows of the top menu
          Folders, Files, \* below the devices; SavFiles the .sav among them
          SavFiles,
          ParentOf,     \* of a folder or file: a device or a folder
          Rank,         \* of a device, folder or file: where lists sort it
          Recents,      \* values the recently played list may have
          Layouts,      \* consoles: [top: rows of the top menu, uSD: _topuSD,
                        \* root: getFSRoot, paths: the devices and entries there]
          Modes,        \* rows shown in each of the view modes
          MaxFavorites, \* bound: favourites kept
          Top, NoDir

Devices == {Fat, Sd}
Slots == {Slot1, Slot2}
Entries == Folders \cup Files
Paths == Devices \cup Entries \cup Slots \cup {FavRow, RecentRow}
Opened == Devices \cup Folders          \* what opendir is called on
Dirs == Opened \cup {Top, FavRow, RecentRow}

ASSUME MainListAssumption ==
    /\ SavFiles \subseteq Files /\ Folders \cap Files = {}
    /\ Top # FavRow /\ Top # RecentRow /\ FavRow # RecentRow
    /\ {Top, FavRow, RecentRow} \cap Opened = {}
    /\ Slots \cap (Devices \cup Entries \cup {FavRow, RecentRow}) = {} /\ NoDir \notin Paths
    /\ \A e \in Entries :                  \* nothing is below itself
          /\ ParentOf[e] \in Opened \ {e}
          /\ ParentOf[e] \in Entries => ParentOf[ParentOf[e]] # e
    /\ \A m \in DOMAIN Modes : Modes[m] \in Nat /\ Modes[m] >= 2
    /\ \A console \in Layouts :
          /\ console.top \in Seq(Paths) /\ console.uSD \in Nat
          /\ console.paths \subseteq Devices \cup Entries
          (* every console has a card, listed first, and both lists *)
          /\ console.top # <<>> /\ console.top[1] \in Devices /\ console.root \in Devices
          /\ {FavRow, RecentRow} \subseteq Range(console.top)
    /\ Recents \subseteq Seq(Files)
    /\ Modes \in Seq(Nat)
    /\ IsFiniteSet(Entries)
    /\ \A e, x \in Devices \cup Entries : Rank[e] \in Nat /\ (Rank[e] = Rank[x] => e = x)

VARIABLES layout,       \* the console's: never changes
          recent,       \* the recently played list: changed only by launches
          dir,          \* _currentDir
          content,      \* the real names of the rows
          list,         \* the list view
          mode,         \* _viewMode
          all,          \* _showAllFiles
          savType,      \* the file types of the settings have .sav
          favorites,    \* favorites.ini
          savesOf,      \* the directory _saves was read from, or NoDir
          pen,          \* the pen is down, and whether it has scrolled since
          started       \* the cartridge that runs, or NoDir

vars == <<layout, recent, dir, content, list, mode, all, savType, favorites,
          savesOf, pen, started>>
browser == <<dir, content, list, savesOf, started>>
settings == <<mode, all, savType>>

TypeOK ==
    /\ layout \in Layouts
    /\ recent \in Recents
    /\ dir \in Dirs
    /\ content \in Seq(Paths)
    /\ list \in Lists /\ list.rows = Len(content)
    /\ mode \in DOMAIN Modes /\ list.visible = Modes[mode]
    /\ all \in BOOLEAN /\ savType \in BOOLEAN
    /\ favorites \subseteq Paths
    /\ savesOf \in Dirs \cup {NoDir}
    /\ pen \in {"up", "down", "moved"}
    /\ started \in Slots \cup {NoDir}

-----------------------------------------------------------------------------
\* The comparison enterDir sorts its entries with, [up, isDir, name, title,
\* modified]: names and titles are their places in the order of stringComp, and
\* 0 is no title. A game without one is found under its file's name.
Before(sort, a, b) ==
    LET Title(e) == IF e.title = 0 THEN e.name ELSE e.title
        ThenName(x, y) == x < y \/ (x = y /\ a.name < b.name)
        Compared == CASE sort = "name" \/ a.isDir -> a.name < b.name
                      [] sort = "dateAsc" /\ ~a.isDir -> ThenName(a.modified, b.modified)
                      [] sort = "dateDesc" /\ ~a.isDir -> ThenName(b.modified, a.modified)
                      [] sort = "title" /\ ~a.isDir -> ThenName(Title(a), Title(b))
    IN IF a.up \/ b.up THEN a.up /\ ~b.up
       ELSE (a.isDir /\ ~b.isDir) \/ (a.isDir = b.isDir /\ Compared)

\* What std::sort asks of a comparison, or it leaves its array: a strict order
\* in which "neither before the other" is an equivalence. Only entries of one
\* name are not told apart, and folders lead.
SortsRight(sort, E) ==
    LET Same(a, b) == ~Before(sort, a, b) /\ ~Before(sort, b, a)
    IN \A a, b \in E :
          /\ Same(a, b) => (a.up /\ b.up) \/ (a.isDir = b.isDir /\ a.name = b.name)
          /\ Before(sort, a, b) => ~Before(sort, b, a)
          /\ ~a.up /\ ~b.up /\ a.isDir /\ ~b.isDir => Before(sort, a, b)
          /\ \A c \in E : /\ Before(sort, a, b) /\ Before(sort, b, c) => Before(sort, a, c)
                          /\ Same(a, b) /\ Same(b, c) => Same(a, c)
-----------------------------------------------------------------------------
\* The entries of S as a list sorts them: row i has i - 1 before it.
Sorted(S) ==
    [i \in 1 .. Cardinality(S) |->
        CHOOSE e \in S : Cardinality({x \in S : Rank[x] < Rank[e]}) = i - 1]

\* The rows of a directory, its .sav files only if they are shown.
Listing ==
    [d \in Opened |-> [sav \in BOOLEAN |->
        Sorted({e \in Entries : ParentOf[e] = d /\ (sav \/ e \notin SavFiles)})]]

\* The rows of what enterDir is called with.  Favourites
\* that stat does not find (slots and the lists themselves) are skipped.
RowsOf(d, sav, favs) ==
    CASE d = Top -> layout.top
      [] d = RecentRow -> recent
      [] d = FavRow -> Sorted((Devices \cup Entries) \cap favs)
      [] OTHER -> Listing[d][sav]

\* getSelectedFullPath
SelectedPath(c, l) == IF l.rows = 0 THEN NoDir ELSE c[l.selected + 1]
Selected == SelectedPath(content, list)

\* The row of e, counted from 0; the first one, where a filled list is, if none.
RowOf(c, e) ==
    IF \E i \in DOMAIN c : c[i] = e THEN (CHOOSE i \in DOMAIN c : c[i] = e) - 1 ELSE 0

\* onFolderChanged of the list l of d: the slot selected in it is started, or
\* cannot be.  Without a GBA cartridge the top menu is filled and the slot's row
\* selected.  Then the caller selects a row.
FolderChanged(d, c, l, row) ==
    LET slot == SelectedPath(c, l)
        stay(rows, ll) == dir' = d /\ content' = rows /\ list' = Picked(ll, row)
    IN  IF d \in {FavRow, RecentRow} \/ slot \notin Slots
        THEN stay(c, l) /\ UNCHANGED started
        ELSE \/ stay(c, l) /\ started' \in {slot, NoDir}
             \/ /\ slot = Slot2 /\ UNCHANGED started
                /\ LET back == Filled(l, Len(layout.top))
                   IN  stay(layout.top, Picked(back, RowOf(layout.top, Slot2)))

\* enterDir(d), where opendir succeeds, and select row: l is the list before.
Shown(l, d, sav, favs, row) ==
    LET c == RowsOf(d, sav, favs)
    IN  /\ savesOf' = IF d \in Opened THEN d ELSE NoDir
        /\ FolderChanged(d, c, Filled(l, Len(c)), row)

EnteredNameFirst(l, d, sav, favs, row) ==   \* mutant: _currentDir set before opendir
    \/ Shown(l, d, sav, favs, row)
    \/ /\ d \in Opened
       /\ savesOf' = NoDir /\ dir' = d /\ list' = l
       /\ UNCHANGED <<content, started>>
\* enterDir: opendir may fail, after _saves was cleared and nothing else.
Entered(l, d, sav, favs, row) ==
    \/ Shown(l, d, sav, favs, row)
    \/ /\ d \in Opened
       /\ savesOf' = NoDir /\ list' = l
       /\ UNCHANGED <<dir, content, started>>

\* main: the last directory, the startup folder or the top menu is entered and
\* the last file selected in it.
Init ==
    /\ layout \in Layouts
    /\ recent \in Recents /\ Range(recent) \subseteq layout.paths
    /\ mode \in DOMAIN Modes /\ all = FALSE /\ savType \in BOOLEAN
    /\ favorites = {} /\ pen = "up" /\ started = NoDir
    /\ dir \in (Opened \cap layout.paths) \cup {Top, FavRow, RecentRow}
    /\ content = RowsOf(dir, savType, favorites)
    /\ savesOf = IF dir \in Opened THEN dir ELSE NoDir
    /\ LET filled == [rows |-> Len(content), visible |-> Modes[mode],
                      first |-> 0, selected |-> 0]
       IN  \E file \in Files : list = Picked(filled, RowOf(content, file))
-----------------------------------------------------------------------------
Idle == started = NoDir
Rest == <<layout, recent>>

\* UP, DOWN, LEFT and RIGHT
PressArrow ==
    /\ Idle
    /\ \E step \in {-1, 1, -list.visible, list.visible} :
          list' = Picked(list, list.selected + step)
    /\ UNCHANGED <<Rest, settings, favorites, pen, dir, content, savesOf, started>>

\* launchSelected.  A cartridge's row is "entered" without filling the list.  A
\* file is launched (module GameLaunch); if that fails the browser is as before.
Open ==
    CASE Selected \in Slots -> savesOf' = NoDir /\ FolderChanged(Top, content, list, list.selected)
      [] Selected \in Opened \cup {FavRow, RecentRow} ->
            Entered(list, Selected, all \/ savType, favorites, 0)
      [] OTHER -> UNCHANGED browser

\* A
PressA == Idle /\ Open /\ UNCHANGED <<Rest, settings, favorites, pen>>

BackToFirst ==       \* mutant: the folder left is not looked for
    LET sav == all \/ savType
    IN  IF dir \in Folders THEN Entered(list, ParentOf[dir], sav, favorites, 0)
        ELSE Shown(list, Top, sav, favorites, 0)
\* backParentDir: the folder left is selected in its parent.  Out of the root
\* device the row of the microSD card is selected, whatever that device is, and
\* out of the other device none.  At the top the list is filled again.
Back ==
    LET sav == all \/ savType
    IN  IF dir \in Folders
        THEN LET parent == ParentOf[dir]
             IN  Entered(list, parent, sav, favorites, RowOf(RowsOf(parent, sav, favorites), dir))
        ELSE Shown(list, Top, sav, favorites,
                   IF dir = layout.root THEN layout.uSD ELSE
                   IF dir \in {FavRow, RecentRow} THEN RowOf(layout.top, dir) ELSE 0)

\* B, L released, the folder-up button
PressB == Idle /\ Back /\ UNCHANGED <<Rest, settings, favorites, pen>>

\* X
PressX ==
    /\ Idle /\ Entered(list, FavRow, all \/ savType, favorites, 0)
    /\ UNCHANGED <<Rest, settings, favorites, pen>>

\* SELECT: the next view mode
PressSelect ==
    /\ Idle
    /\ mode' = (mode % Len(Modes)) + 1 /\ list' = Resized(list, Modes[mode'])
    /\ UNCHANGED <<Rest, all, savType, favorites, pen, dir, content, savesOf, started>>

\* L+SELECT
SwitchShowAllFiles ==
    /\ Idle /\ all' = ~all
    /\ Entered(list, dir, all' \/ savType, favorites, 0)
    /\ UNCHANGED <<Rest, mode, savType, favorites, pen>>

\* showSettings: the view mode, and the list again if what it lists has changed
ShowSettings ==
    /\ Idle
    /\ \E m \in DOMAIN Modes :
          LET shown == Resized(list, Modes[m])
          IN  /\ mode' = m
              /\ \/ /\ list' = shown
                    /\ UNCHANGED <<savType, dir, content, savesOf, started>>
                 \/ /\ savType' \in BOOLEAN
                    /\ Entered(shown, dir, all \/ savType', favorites, 0)
    /\ UNCHANGED <<Rest, all, favorites, pen>>

\* AddToFavorites of the selected row; the "" of an empty list is not kept.
AddFavorite ==
    /\ Idle /\ Selected \notin favorites
    /\ Cardinality(favorites) < MaxFavorites
    /\ favorites' = favorites \cup ({Selected} \cap Paths)
    /\ Entered(list, dir, all \/ savType, favorites', 0)
    /\ UNCHANGED <<Rest, settings, pen>>

\* RemoveFromFavorites
DeleteFavorite ==
    /\ Idle /\ Selected \in favorites
    /\ favorites' = favorites \ {Selected}
    /\ IF dir = FavRow THEN Entered(list, dir, all \/ savType, favorites', 0)
       ELSE UNCHANGED browser
    /\ UNCHANGED <<Rest, settings, pen>>

\* the row under the pen is selected
PenDown ==
    /\ Idle /\ pen = "up" /\ pen' = "down"
    /\ \E offset \in 0 .. list.visible :
          list' = IF OnRow(list, offset) THEN Picked(list, list.first + offset) ELSE list
    /\ UNCHANGED <<Rest, settings, favorites, dir, content, savesOf, started>>

PenMove ==
    /\ Idle /\ pen \in {"down", "moved"} /\ pen' = "moved"
    /\ \E step \in {-1, 1} : list' = Dragged(list, step)
    /\ UNCHANGED <<Rest, settings, favorites, dir, content, savesOf, started>>

\* A tap, not a drag, on the selected row: on its icon it opens the row.
PenUp ==
    /\ Idle /\ pen \in {"down", "moved"} /\ pen' = "up"
    /\ \/ UNCHANGED browser
       \/ /\ pen = "down" /\ OnRow(list, list.selected - list.first)
          /\ Open
    /\ UNCHANGED <<Rest, settings, favorites>>

Next == \/ PressArrow \/ PressA \/ PressB \/ PressX \/ PressSelect
        \/ SwitchShowAllFiles \/ ShowSettings \/ AddFavorite \/ DeleteFavorite
        \/ PenDown \/ PenMove \/ PenUp

Spec == Init /\ [][Next]_vars
-----------------------------------------------------------------------------

\* Whatever the keys, the pen, the view modes and the directories do, the
\* selected row exists and is on the screen (listview.cpp:160-205).
SelectedShown == SelectedIsShown(list)

\* The rows on the screen are of the directory whose name is shown, with the
\* settings of now or, where it could not be opened again, others, and of the
\* favourites that are kept; the saves the slot menu marks are of it too, or
\* none are (mainlist.cpp:196-488).
RowsOfDir == \E sav \in BOOLEAN : content = RowsOf(dir, sav, favorites)
SavesOwn == savesOf \in {dir, NoDir}
ListingOfDir == RowsOfDir /\ SavesOwn

\* A cartridge runs only because its own row was opened, never because the
\* list was filled again around a selection (mainwnd.cpp:983-1024).
SlotAsked == [][started' # started => Selected = started' /\ (PressA \/ PenUp)]_vars

\* Leaving a folder selects it in its parent, and leaving the favourites or the
\* recent games selects their row of the top menu (mainlist.cpp:542-568).
BackSelectsFolder ==
    [][(dir \in Folders /\ dir' = ParentOf[dir]) \/ (dir \in {FavRow, RecentRow} /\ dir' = Top)
       => SelectedPath(content', list') = dir]_vars
==============================================================================
