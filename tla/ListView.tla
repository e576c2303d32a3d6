------------------------------ MODULE ListView ------------------------------
(***************************************************************************)
(* The scrolling list of arm9/source/ui/listview.cpp: which row is         *)
(* selected and which is the first one shown.  A list is a record          *)
(* [rows, visible, first, selected]: how many rows it has, how many fit in *)
(* it, and the two row numbers, counted from 0.  Row ids come in as int,   *)
(* so below 0 or past the end is possible.                                 *)
(***************************************************************************)
EXTENDS Integers, Sequences

Lists == [rows : Nat, visible : Nat \ {0}, first : Nat, selected : Nat]

Lower(a, b) == IF a < b THEN a ELSE b
Upper(a, b) == IF a < b THEN b ELSE a

\* scrollTo's row: the last page is kept full
ClampedToPage(l, id) ==
    Upper(0, Lower(Lower(id, l.rows - 1), l.rows - l.visible))

ScrolledTo(l, id) ==
    IF l.rows = 0 THEN l ELSE [l EXCEPT !.first = ClampedToPage(l, id)]

LastVisible(l) == Lower(l.first + l.visible - 1, l.rows - 1)

PickedWithoutScroll(l, id) ==    \* mutant: only a row above the window scrolls
    LET row == Upper(0, Lower(id, l.rows - 1))
    IN  IF l.rows = 0 THEN l
        ELSE [(IF row < l.first THEN ScrolledTo(l, row - (l.selected - l.first)) ELSE l)
                 EXCEPT !.selected = row]
\* selectRow: a row out of sight is scrolled to where the selection was.
Picked(l, id) ==
    LET row == Upper(0, Lower(id, l.rows - 1))
        hidden == row < l.first \/ row > LastVisible(l)
    IN  IF l.rows = 0 THEN l
        ELSE [(IF hidden THEN ScrolledTo(l, row - (l.selected - l.first)) ELSE l)
                 EXCEPT !.selected = row]

\* removeAllRows and as many insertRow
FilledKeepingSelection(l, n) ==     \* mutant: the selection stays where it can
    [l EXCEPT !.rows = n, !.first = 0, !.selected = Upper(0, Lower(l.selected, n - 1))]
Filled(l, n) == [l EXCEPT !.rows = n, !.first = 0, !.selected = 0]

\* The rows a loop inserts that passes over what is not in S
InsertedUpTo(list, S) ==
    LET upTo[n \in 0 .. Len(list)] ==
            IF n = 0 THEN <<>>
            ELSE IF list[n] \in S THEN Append(upTo[n - 1], list[n]) ELSE upTo[n - 1]
    IN  upTo
Inserted(list, S) == InsertedUpTo(list, S)[Len(list)]

\* setRowHeight, then scrollTo as cMainList::setViewMode does
Resized(l, visible) ==
    LET shown == [l EXCEPT !.visible = visible]
    IN  ScrolledTo(shown, l.selected - visible + 1)

\* a drag of the pen past the scroll speed: both, whatever the list does
Dragged(l, step) ==
    LET moved == Picked(l, l.selected + step)
    IN  ScrolledTo(moved, moved.first + step)

\* rowBelowPoint: a row is under the pen, offset rows below the first one; the
\* row cut off at the bottom counts, a place below the last row does not (in an
\* empty list _rows.size() - 1 is the largest unsigned, and every place counts).
OnRow(l, offset) == l.rows = 0 \/ l.first + offset < l.rows

\* The selected row exists and is among those shown.
SelectedIsShown(l) ==
    IF l.rows = 0 THEN l.first = 0 /\ l.selected = 0
    ELSE /\ l.selected < l.rows
         /\ l.first <= l.selected /\ l.selected < l.first + l.visible
==============================================================================
