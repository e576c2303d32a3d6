------------------------- MODULE WindowManagerProofs -------------------------
(***************************************************************************)
(* The windows of the lower screen, for any number of modal windows: the   *)
(* input and the focus are in the window of the innermost loop.            *)
(***************************************************************************)
EXTENDS WindowManager, TLAPS

Pointers == Windows \cup {None, Dangling}
Entries == [window: Forms, focused: Pointers]
Managers == [stack: Seq(Entries), focused: Pointers, below: Pointers, captured: Pointers]
Pendings == [event: {"key", "down", "up"}, on: Pointers,
             hides: BOOLEAN, more: BOOLEAN, confirms: BOOLEAN]
Modals == [kind: {"settings", "dialog"}, ret: {"none", "ok", "cancel"}, then: Pendings]

\* The stack is the main window, progress windows, and one entry for each loop.
Shape(stack, mods) ==
    /\ Len(mods) + 1 <= Len(stack)
    /\ stack[1].window = Main
    /\ \A i \in 2 .. Len(stack) - Len(mods) : stack[i].window = Progress
    /\ \A n \in 1 .. Len(mods) : stack[Len(stack) - Len(mods) + n].window = n

\* A focusable window of f, or none
Own(w, f) == w = None \/ (w.form = f /\ w.part \notin NotFocusable)

FocusGood(m) ==
    /\ Own(m.focused, CurrentOf(m))
    /\ \A i \in 1 .. Len(m.stack) : Own(m.stack[i].focused, m.stack[i].window)

CaptureGood(m) ==
    m.captured \in {None, Dangling} \/ m.captured.part \in NotFocusable

\* What a waiting handler counts on when it goes on: the progress window it
\* will hide is there, and the main window's button it is pressing is below the
\* pen unless the pen has been somewhere since.
HidesGood(m, n, mods) == n = 1 /\ Len(m.stack) >= Len(mods) + 2
DownGood(m, n, mods) ==
    /\ n = 1 /\ Len(m.stack) = Len(mods) + 1
    /\ m.below \in {None, Dangling} \/ m.below.form \in 0 .. Len(mods)
ThenGood(m, mods) ==
    \A n \in 1 .. Len(mods) :
        /\ mods[n].then.hides => HidesGood(m, n, mods)
        /\ mods[n].then.event = "down" => DownGood(m, n, mods)

Good(m, mods) ==
    /\ m \in Managers /\ mods \in Seq(Modals) /\ Len(mods) <= MaxModal
    /\ Shape(m.stack, mods) /\ FocusGood(m) /\ CaptureGood(m) /\ ThenGood(m, mods)

WindowInv == Good(wm, modals) /\ pressed \subseteq Pointers

-----------------------------------------------------------------------------
\* The names of the parts, opened up once.
LEMMA PartNames ==
    /\ Kinds = {"main", "settings", "dialog", "progress"}
    /\ \A k \in Kinds : Parts[k] \subseteq AllParts
    /\ {"form", "list", "up", "start", "menu", "item", "tabs", "ok"} \subseteq AllParts
    /\ "form" \notin NotFocusable /\ "item" \notin NotFocusable
<1>1. Kinds = {"main", "settings", "dialog", "progress"}
  BY DEF Kinds, Parts
<1>2. \A k \in Kinds : Parts[k] \subseteq AllParts
  BY DEF AllParts
<1>3. /\ Parts["main"] = {"form", "list", "up", "start", "menu"}
      /\ Parts["settings"] = {"form", "item", "tabs", "ok"}
  BY DEF Parts
<1>4. {"form", "list", "up", "start", "menu", "item", "tabs", "ok"} \subseteq AllParts
  BY <1>1, <1>2, <1>3
<1>5. "form" \notin NotFocusable /\ "item" \notin NotFocusable
  BY DEF NotFocusable
<1> QED
  BY <1>1, <1>2, <1>4, <1>5

LEMMA FormsAre ==
    /\ MaxModal \in Nat
    /\ Main \in Forms /\ Progress \in Forms /\ 1 .. MaxModal \subseteq Forms
    /\ Main = 0 /\ Progress = -1
    /\ \A f \in Forms : FormOf(f) \in Windows
BY ModalAssumption, PartNames DEF Forms, Main, Progress, FormOf, Windows

\* The last entry of a non-empty stack, and what is left without it.
LEMMA FrontOf ==
    ASSUME NEW S, NEW s \in Seq(S), Len(s) >= 1
    PROVE  /\ Front(s) \in Seq(S) /\ Len(Front(s)) = Len(s) - 1
           /\ \A i \in 1 .. Len(s) - 1 : Front(s)[i] = s[i]
           /\ Last(s) = s[Len(s)] /\ Last(s) \in S
<1>1. Last(s) = s[Len(s)] /\ Last(s) \in S
  BY DEF Last
<1>2. /\ Len(s) \in Nat /\ 1 <= 1 /\ Len(s) - 1 <= Len(s) /\ 1 <= Len(s) - 1 + 1
      /\ \A i \in 1 .. Len(s) : s[i] \in S
  OBVIOUS
<1>3. SubSeq(s, 1, Len(s) - 1) = [i \in 1 .. Len(s) - 1 |-> s[i]]
  BY <1>2
<1>4. PICK n \in Nat : n = Len(s) - 1
  BY <1>2
<1>5. [i \in 1 .. n |-> s[i]] \in [1 .. n -> S]
  BY <1>2, <1>4
<1>6. [i \in 1 .. n |-> s[i]] \in Seq(S) /\ Len([i \in 1 .. n |-> s[i]]) = n
  BY <1>5
<1>7. \A i \in 1 .. n : [j \in 1 .. n |-> s[j]][i] = s[i]
  OBVIOUS
<1> QED
  BY <1>1, <1>3, <1>4, <1>6, <1>7 DEF Front

\* Who is current, from the shape of the stack
LEMMA CurrentIs ==
    ASSUME NEW m, NEW mods, Good(m, mods)
    PROVE  /\ Len(m.stack) \in Nat /\ Len(mods) \in Nat /\ Len(m.stack) >= 1
           /\ CurrentOf(m) = m.stack[Len(m.stack)].window /\ CurrentOf(m) \in Forms
           /\ mods # <<>> => CurrentOf(m) = Len(mods)
           /\ CurrentOf(m) = Main => mods = <<>> /\ Len(m.stack) = 1
<1>1. /\ m.stack \in Seq(Entries) /\ mods \in Seq(Modals)
      /\ Len(m.stack) \in Nat /\ Len(mods) \in Nat /\ Len(mods) + 1 <= Len(m.stack)
  BY DEF Good, Shape, Managers
<1>2. CurrentOf(m) = m.stack[Len(m.stack)].window /\ CurrentOf(m) \in Forms
  <2>1. Last(m.stack) = m.stack[Len(m.stack)] /\ Last(m.stack) \in Entries
    BY <1>1 DEF Last
  <2> QED
    BY <2>1 DEF CurrentOf, Entries
<1>3. mods # <<>> => Len(mods) \in 1 .. Len(mods)
  BY <1>1
<1>4. mods # <<>> => CurrentOf(m) = Len(mods)
  BY <1>1, <1>2, <1>3 DEF Good, Shape
<1>5. ASSUME CurrentOf(m) = Main PROVE mods = <<>> /\ Len(m.stack) = 1
  <2>1. mods = <<>>
    BY <1>1, <1>3, <1>4, <1>5 DEF Main
  <2>2. Len(mods) = 0
    BY <2>1
  <2>3. Len(m.stack) > 1 => m.stack[Len(m.stack)].window = Progress
    BY <1>1, <2>2 DEF Good, Shape
  <2>4. Len(m.stack) <= 1
    BY <1>1, <1>2, <1>5, <2>3 DEF Main, Progress
  <2>5. ASSUME NEW k \in Nat, NEW j \in Nat, j = 0, j + 1 <= k, k <= 1 PROVE k = 1
    BY <2>5
  <2>6. Len(m.stack) = 1
    BY <1>1, <2>2, <2>4, <2>5
  <2> QED
    BY <2>1, <2>6
<1> QED
  BY <1>1, <1>2, <1>4, <1>5

-----------------------------------------------------------------------------
(* The window manager's operations *)

LEMMA FocusedSet ==
    ASSUME NEW m \in Managers, NEW w \in Pointers, NEW f, Own(w, f)
    PROVE  /\ SetFocusedWindow(m, w) \in Managers
           /\ SetFocusedWindow(m, w).stack = m.stack
           /\ SetFocusedWindow(m, w).focused = w
           /\ SetFocusedWindow(m, w).below = m.below
           /\ SetFocusedWindow(m, w).captured = m.captured
BY DEF SetFocusedWindow, Own, Managers

LEMMA Added ==
    ASSUME NEW m \in Managers, Len(m.stack) >= 1, FocusGood(m), NEW f \in Forms
    PROVE  /\ AddWindow(m, f) \in Managers
           /\ Len(AddWindow(m, f).stack) = Len(m.stack) + 1
           /\ \A i \in 1 .. Len(m.stack) :
                 AddWindow(m, f).stack[i].window = m.stack[i].window
           /\ AddWindow(m, f).stack[Len(m.stack) + 1].window = f
           /\ FocusGood(AddWindow(m, f))
           /\ CurrentOf(AddWindow(m, f)) = f
           /\ AddWindow(m, f).focused = FormOf(f)
           /\ AddWindow(m, f).below = m.below
           /\ AddWindow(m, f).captured = m.captured
<1> DEFINE L == Len(m.stack)
           e == [m.stack[L] EXCEPT !.focused = m.focused]
           saved == [m.stack EXCEPT ![L] = e]
           new == [window |-> f, focused |-> None]
           stack == Append(saved, new)
           added == [m EXCEPT !.stack = stack]
<1>1. m.stack \in Seq(Entries) /\ L \in Nat /\ L >= 1 /\ L \in 1 .. L
  BY DEF Managers
<1>2. m.focused \in Pointers /\ m.stack[L] \in Entries
  BY <1>1 DEF Managers
<1>3. e \in Entries /\ e.window = m.stack[L].window /\ e.focused = m.focused
  BY <1>2 DEF Entries
<1>4. saved \in Seq(Entries) /\ Len(saved) = L
  <2> HIDE DEF e
  <2> QED BY <1>1, <1>3
<1>5. saved[L] = e /\ \A i \in 1 .. L : i # L => saved[i] = m.stack[i]
  <2> HIDE DEF e
  <2> QED BY <1>1
<1>6. new \in Entries /\ FormOf(f) \in Pointers
  BY FormsAre DEF Entries, Pointers
<1>7. /\ stack \in Seq(Entries) /\ Len(stack) = L + 1 /\ stack[L + 1] = new
      /\ \A i \in 1 .. L : stack[i] = saved[i]
  <2> HIDE DEF saved, new
  <2> QED BY <1>1, <1>4, <1>6
<1>8. /\ added \in Managers /\ added.stack = stack
      /\ added.below = m.below /\ added.captured = m.captured
  <2> HIDE DEF stack
  <2> QED BY <1>7 DEF Managers
<1>9. Own(FormOf(f), f)
  BY PartNames DEF Own, FormOf
<1>10. AddWindow(m, f) = SetFocusedWindow(added, FormOf(f))
  BY DEF AddWindow
<1> DEFINE r == AddWindow(m, f)
<1>11. /\ r \in Managers /\ r.stack = stack /\ r.focused = FormOf(f)
       /\ r.below = m.below /\ r.captured = m.captured
  <2> HIDE DEF added, stack
  <2> QED BY <1>6, <1>8, <1>9, <1>10, FocusedSet
<1>12. \A i \in 1 .. L : stack[i].window = m.stack[i].window
  <2> HIDE DEF stack, saved, e
  <2> QED BY <1>3, <1>5, <1>7
<1>13. stack[L + 1].window = f /\ stack[L + 1].focused = None
  BY <1>7
<1>14. Last(stack) = stack[L + 1]
  BY <1>7 DEF Last
<1>15. CurrentOf(r) = f
  <2> HIDE DEF stack, r
  <2> QED BY <1>11, <1>13, <1>14 DEF CurrentOf
<1>16. Own(m.focused, m.stack[L].window)
  BY <1>1 DEF FocusGood, CurrentOf, Last
<1>17. ASSUME NEW i \in 1 .. L + 1 PROVE Own(stack[i].focused, stack[i].window)
  <2> HIDE DEF stack, saved, e
  <2>1. CASE i = L + 1
    BY <2>1, <1>13 DEF Own
  <2>2. CASE i = L
    BY <2>2, <1>1, <1>3, <1>5, <1>7, <1>16
  <2>3. CASE i # L /\ i # L + 1
    <3>1. i \in 1 .. L
      BY <2>3, <1>1
    <3>2. stack[i] = m.stack[i]
      BY <2>3, <3>1, <1>5, <1>7
    <3> QED
      BY <3>1, <3>2 DEF FocusGood
  <2> QED
    BY <2>1, <2>2, <2>3
<1>18. FocusGood(r)
  <2> HIDE DEF stack, r
  <2> QED BY <1>7, <1>9, <1>11, <1>15, <1>17 DEF FocusGood
<1> QED
  <2> HIDE DEF stack, r
  <2>1. r = AddWindow(m, f)
    BY DEF r
  <2> QED BY <1>7, <1>11, <1>12, <1>13, <1>15, <1>18, <2>1

\* The window on top is removed: the one below gets back what was focused in it.
LEMMA Removed ==
    ASSUME NEW m \in Managers, Len(m.stack) >= 2, FocusGood(m), NEW f, f = CurrentOf(m)
    PROVE  /\ RemoveWindow(m, f) \in Managers
           /\ RemoveWindow(m, f).stack = Front(m.stack)
           /\ FocusGood(RemoveWindow(m, f))
           /\ RemoveWindow(m, f).below = m.below
           /\ RemoveWindow(m, f).captured = m.captured
<1> DEFINE L == Len(m.stack)
           rest == Front(m.stack)
           popped == [m EXCEPT !.stack = rest]
           top == Last(rest)
           focusing == SetFocusedWindow(popped, top.focused)
           r == RemoveWindow(m, f)
<1>1. m.stack \in Seq(Entries) /\ L \in Nat /\ L >= 2 /\ L - 1 \in 1 .. L /\ L - 1 >= 1
  BY DEF Managers
<1>2. /\ rest \in Seq(Entries) /\ Len(rest) = L - 1
      /\ \A i \in 1 .. L - 1 : rest[i] = m.stack[i]
  <2>1. Len(m.stack) >= 1
    BY <1>1
  <2> QED BY <1>1, <2>1, FrontOf
<1>3. top = rest[L - 1] /\ L - 1 \in 1 .. L - 1
  BY <1>1, <1>2 DEF Last
<1>4. top = m.stack[L - 1] /\ top \in Entries
  BY <1>1, <1>2, <1>3
<1>5. top.focused \in Pointers /\ top.window \in Forms /\ Own(top.focused, top.window)
  BY <1>1, <1>4 DEF FocusGood, Entries
<1>6. /\ popped \in Managers /\ popped.stack = rest
      /\ popped.below = m.below /\ popped.captured = m.captured
  <2> HIDE DEF rest
  <2> QED BY <1>2 DEF Managers
<1>7. /\ focusing \in Managers /\ focusing.stack = rest /\ focusing.focused = top.focused
      /\ focusing.below = m.below /\ focusing.captured = m.captured
  <2> HIDE DEF popped, rest, top
  <2> QED BY <1>5, <1>6, FocusedSet
<1>8. CurrentOf(focusing) = top.window
  BY <1>7 DEF CurrentOf
<1>9. r = IF focusing.focused = FormOf(f)
          THEN [focusing EXCEPT !.focused = FormOf(CurrentOf(focusing))]
          ELSE focusing
  BY DEF RemoveWindow
<1>10. FormOf(top.window) \in Pointers /\ Own(FormOf(top.window), top.window)
  BY <1>5, FormsAre, PartNames DEF Own, FormOf, Pointers
<1>11. /\ r \in Managers /\ r.stack = rest /\ Own(r.focused, top.window)
       /\ r.below = m.below /\ r.captured = m.captured
  <2> HIDE DEF focusing, rest, top, r
  <2>1. CASE focusing.focused = FormOf(f)
    <3>1. r = [focusing EXCEPT !.focused = FormOf(top.window)]
      BY <2>1, <1>8, <1>9
    <3> QED BY <3>1, <1>7, <1>10 DEF Managers
  <2>2. CASE focusing.focused # FormOf(f)
    BY <2>2, <1>5, <1>7, <1>9
  <2> QED BY <2>1, <2>2
<1>12. CurrentOf(r) = top.window
  <2> HIDE DEF r, rest
  <2> QED BY <1>11 DEF CurrentOf
<1>13. \A i \in 1 .. L - 1 : Own(rest[i].focused, rest[i].window)
  <2> HIDE DEF rest
  <2> QED BY <1>1, <1>2 DEF FocusGood
<1>14. FocusGood(r)
  <2> HIDE DEF r, rest, top
  <2> QED BY <1>2, <1>11, <1>12, <1>13 DEF FocusGood
<1> QED
  <2> HIDE DEF r, rest
  <2>1. r = RemoveWindow(m, f) /\ rest = Front(m.stack)
    BY DEF r, rest
  <2> QED BY <1>11, <1>14, <2>1

\* A window is destroyed that is no longer on the stack: pointers into it dangle.
LEMMA DestroyedKeeps ==
    ASSUME NEW m \in Managers, FocusGood(m), CaptureGood(m),
           NEW f, f # CurrentOf(m)
    PROVE  /\ Destroyed(m, f) \in Managers
           /\ Destroyed(m, f).stack = m.stack
           /\ FocusGood(Destroyed(m, f))
           /\ CaptureGood(Destroyed(m, f))
           /\ Destroyed(m, f).below =
                 IF m.below \notin {None, Dangling} /\ m.below.form = f
                 THEN Dangling ELSE m.below
<1> DEFINE left(w) == IF w \notin {None, Dangling} /\ w.form = f THEN Dangling ELSE w
           d == Destroyed(m, f)
<1>1. Own(m.focused, CurrentOf(m))
  BY DEF FocusGood
<1>2. ~(m.focused # None /\ m.focused.form = f)
  BY <1>1 DEF Own
<1>3. d = [m EXCEPT !.below = left(m.below), !.captured = left(m.captured)]
  BY <1>2 DEF Destroyed, Managers
<1>4. left(m.below) \in Pointers /\ left(m.captured) \in Pointers
  BY DEF Managers, Pointers
<1>5. /\ d \in Managers /\ d.stack = m.stack /\ d.focused = m.focused
      /\ d.below = left(m.below) /\ d.captured = left(m.captured)
  <2> HIDE DEF left, d
  <2> QED BY <1>3, <1>4 DEF Managers
<1>6. FocusGood(d)
  <2> HIDE DEF d
  <2> QED BY <1>5 DEF FocusGood, CurrentOf
<1>7. CaptureGood(d)
  BY <1>5 DEF CaptureGood
<1> QED
  <2> HIDE DEF d
  <2>1. d = Destroyed(m, f)
    BY DEF d
  <2> QED BY <1>5, <1>6, <1>7, <2>1

LEMMA OpenedKeeps ==
    ASSUME NEW m \in Managers, Len(m.stack) >= 1, FocusGood(m), CaptureGood(m),
           NEW kind, NEW n \in 1 .. MaxModal
    PROVE  /\ Opened(m, kind, n) \in Managers
           /\ Len(Opened(m, kind, n).stack) = Len(m.stack) + 1
           /\ \A i \in 1 .. Len(m.stack) :
                 Opened(m, kind, n).stack[i].window = m.stack[i].window
           /\ Opened(m, kind, n).stack[Len(m.stack) + 1].window = n
           /\ FocusGood(Opened(m, kind, n)) /\ CaptureGood(Opened(m, kind, n))
           /\ Opened(m, kind, n).below = m.below
<1> DEFINE added == AddWindow(m, n)
           item == [form |-> n, part |-> "item"]
           set == SetFocusedWindow(added, item)
<1>1. n \in Forms
  BY FormsAre
<1>2. /\ added \in Managers /\ Len(added.stack) = Len(m.stack) + 1
      /\ \A i \in 1 .. Len(m.stack) : added.stack[i].window = m.stack[i].window
      /\ added.stack[Len(m.stack) + 1].window = n
      /\ FocusGood(added) /\ CurrentOf(added) = n
      /\ added.below = m.below /\ added.captured = m.captured
  BY <1>1, Added
<1>3. item \in Pointers /\ Own(item, n)
  BY <1>1, PartNames DEF Pointers, Windows, Own
<1>4. /\ set \in Managers /\ set.stack = added.stack /\ set.focused = item
      /\ set.below = added.below /\ set.captured = added.captured
  <2> HIDE DEF added, item
  <2> QED BY <1>2, <1>3, FocusedSet
<1>5. FocusGood(set)
  <2> HIDE DEF added, item, set
  <2> QED BY <1>2, <1>3, <1>4 DEF FocusGood, CurrentOf
<1>6. CaptureGood(set) /\ CaptureGood(added)
  <2> HIDE DEF added, set
  <2> QED BY <1>2, <1>4 DEF CaptureGood
<1>7. Opened(m, kind, n) = IF kind = "settings" THEN set ELSE added
  BY DEF Opened
<1> QED
  <2> HIDE DEF added, set
  <2> QED BY <1>2, <1>4, <1>5, <1>6, <1>7

\* A handler that opens a window leaves behind what it counts on.
LEMMA OpenAboveGood ==
    ASSUME NEW m, NEW mods, Good(m, mods), NEW kind \in {"settings", "dialog"},
           NEW pending \in Pendings,
           pending.hides => mods = <<>> /\ Len(m.stack) >= 2,
           pending.event = "down" =>
               /\ mods = <<>> /\ Len(m.stack) = 1
               /\ m.below \in {None, Dangling} \/ m.below.form = Main,
           OpenAbove(mods, m, kind, pending)
    PROVE  Good(wm', modals')
<1> DEFINE n == Len(mods) + 1
           L == Len(m.stack)
           rec == [kind |-> kind, ret |-> "none", then |-> pending]
           o == Opened(m, kind, n)
<1>1. /\ m \in Managers /\ mods \in Seq(Modals) /\ Len(mods) \in Nat
      /\ L \in Nat /\ L >= Len(mods) + 1 /\ L >= 1
      /\ FocusGood(m) /\ CaptureGood(m)
  BY DEF Good, Shape, Managers
<1>2. Len(mods) < MaxModal /\ modals' = Append(mods, rec) /\ wm' = o
  BY DEF OpenAbove
<1>3. n \in 1 .. MaxModal /\ n \in Nat
  BY <1>1, <1>2, FormsAre
<1>4. rec \in Modals /\ rec.then = pending
  BY DEF Modals
<1>5. /\ modals' \in Seq(Modals) /\ Len(modals') = n /\ modals'[n] = rec
      /\ \A i \in 1 .. Len(mods) : modals'[i] = mods[i]
  <2> HIDE DEF rec
  <2> QED BY <1>1, <1>2, <1>4
<1>6. /\ wm' \in Managers /\ Len(wm'.stack) = L + 1
      /\ \A i \in 1 .. L : wm'.stack[i].window = m.stack[i].window
      /\ wm'.stack[L + 1].window = n
      /\ FocusGood(wm') /\ CaptureGood(wm') /\ wm'.below = m.below
  <2> HIDE DEF n
  <2> QED BY <1>1, <1>2, <1>3, OpenedKeeps
<1>7. /\ m.stack[1].window = Main
      /\ \A i \in 2 .. L - Len(mods) : m.stack[i].window = Progress
      /\ \A i \in 1 .. Len(mods) : m.stack[L - Len(mods) + i].window = i
  BY DEF Good, Shape
<1>8. Shape(wm'.stack, modals')
  <2> DEFINE l == Len(mods)
  <2>0. L \in Nat /\ l \in Nat /\ L >= l + 1 /\ n = l + 1
    BY <1>1
  <2>1. L + 1 - n = L - Len(mods) /\ 1 \in 1 .. L
    <3> HIDE DEF L, n, l
    <3>1. L + 1 - n = L - l /\ 1 \in 1 .. L
      BY <2>0
    <3> QED BY <3>1 DEF l
  <2>2. ASSUME NEW i \in 2 .. L - Len(mods) PROVE wm'.stack[i].window = Progress
    <3>1. i \in 1 .. L
      BY <2>0
    <3> QED BY <3>1, <1>6, <1>7
  <2>3. ASSUME NEW i \in 1 .. n PROVE wm'.stack[L - Len(mods) + i].window = i
    <3>1. CASE i = n
      <4>1. L - l + i = L + 1
        <5> HIDE DEF L, n, l
        <5> QED BY <2>0, <3>1
      <4> QED BY <4>1, <3>1, <1>6
    <3>2. CASE i # n
      <4>1. i \in 1 .. Len(mods) /\ L - Len(mods) + i \in 1 .. L
        BY <1>1, <3>2
      <4> QED BY <4>1, <1>6, <1>7
    <3> QED BY <3>1, <3>2
  <2> QED
    BY <1>1, <1>5, <1>6, <1>7, <2>1, <2>2, <2>3 DEF Shape
<1>9. ThenGood(m, mods)
  BY DEF Good
<1>10. ASSUME NEW i \in 1 .. n PROVE
         /\ modals'[i].then.hides => HidesGood(wm', i, modals')
         /\ modals'[i].then.event = "down" => DownGood(wm', i, modals')
  <2>1. CASE i = n
    <3>1. modals'[i].then = pending
      BY <2>1, <1>4, <1>5
    <3>2. mods = <<>> => Len(mods) = 0
      OBVIOUS
    <3>3. ASSUME pending.hides PROVE HidesGood(wm', i, modals')
      BY <1>1, <1>5, <1>6, <2>1, <3>2, <3>3 DEF HidesGood
    <3>4. ASSUME pending.event = "down" PROVE DownGood(wm', i, modals')
      BY <1>1, <1>5, <1>6, <2>1, <3>2, <3>4 DEF DownGood, Main
    <3> QED BY <3>1, <3>3, <3>4
  <2>2. CASE i # n
    <3>1. i \in 1 .. Len(mods) /\ modals'[i] = mods[i]
      BY <1>1, <1>5, <2>2
    <3>2. /\ mods[i].then.hides => HidesGood(m, i, mods)
          /\ mods[i].then.event = "down" => DownGood(m, i, mods)
      BY <1>9, <3>1 DEF ThenGood
    <3>3. HidesGood(m, i, mods) => HidesGood(wm', i, modals')
      BY <1>1, <1>5, <1>6 DEF HidesGood
    <3>4. DownGood(m, i, mods) => DownGood(wm', i, modals')
      BY <1>1, <1>5, <1>6 DEF DownGood
    <3> QED BY <3>1, <3>2, <3>3, <3>4
  <2> QED BY <2>1, <2>2
<1>11. ThenGood(wm', modals')
  BY <1>5, <1>10 DEF ThenGood
<1> QED
  <2>1. n <= MaxModal
    BY <1>3, FormsAre
  <2> QED BY <1>5, <1>6, <1>8, <1>11, <2>1 DEF Good

-----------------------------------------------------------------------------
(* What handlers do *)

\* A loop is told to end.
LEMMA ReturnSet ==
    ASSUME NEW m, NEW mods, Good(m, mods), NEW n, NEW ret \in {"none", "ok", "cancel"}
    PROVE  Good(m, [mods EXCEPT ![n].ret = ret])
<1> DEFINE e == [mods[n] EXCEPT !.ret = ret]
           new == [mods EXCEPT ![n] = e]
<1>1. mods \in Seq(Modals) /\ Len(mods) \in Nat /\ \A i \in 1 .. Len(mods) : mods[i] \in Modals
  BY DEF Good
<1>2. n \in 1 .. Len(mods) => e \in Modals /\ e.then = mods[n].then
  BY <1>1 DEF Modals
<1>3. new \in Seq(Modals) /\ Len(new) = Len(mods)
  <2> HIDE DEF e
  <2>1. DOMAIN new = 1 .. Len(mods)
    BY <1>1
  <2>2. \A i \in 1 .. Len(mods) : new[i] \in Modals
    BY <1>1, <1>2
  <2>3. new = [i \in 1 .. Len(mods) |-> new[i]]
    BY <2>1
  <2>4. new \in [1 .. Len(mods) -> Modals]
    BY <2>2, <2>3
  <2> HIDE DEF new
  <2> QED BY <1>1, <2>4
<1>4. \A i \in 1 .. Len(mods) : new[i].then = mods[i].then
  <2> HIDE DEF e
  <2> QED BY <1>1, <1>2
<1>5. /\ m \in Managers /\ Len(mods) <= MaxModal /\ Shape(m.stack, mods)
      /\ FocusGood(m) /\ CaptureGood(m) /\ ThenGood(m, mods)
  BY DEF Good
<1>6. Shape(m.stack, new) /\ ThenGood(m, new)
  <2> HIDE DEF new
  <2> QED BY <1>3, <1>4, <1>5 DEF Shape, ThenGood, HidesGood, DownGood
<1>7. [mods EXCEPT ![n].ret = ret] = new
  OBVIOUS
<1> QED
  <2> HIDE DEF new
  <2> QED BY <1>3, <1>5, <1>6, <1>7 DEF Good

\* The progress window is shown.
LEMMA ShownGood ==
    ASSUME NEW m, Good(m, <<>>)
    PROVE  Good(AddWindow(m, Progress), <<>>) /\ Len(AddWindow(m, Progress).stack) >= 2
<1> DEFINE L == Len(m.stack)
           a == AddWindow(m, Progress)
<1>1. m \in Managers /\ L \in Nat /\ L >= 1 /\ FocusGood(m) /\ CaptureGood(m) /\ Len(<<>>) = 0
  BY DEF Good, Shape, Managers
<1>2. /\ a \in Managers /\ Len(a.stack) = L + 1
      /\ \A i \in 1 .. L : a.stack[i].window = m.stack[i].window
      /\ a.stack[L + 1].window = Progress
      /\ FocusGood(a) /\ a.captured = m.captured
  BY <1>1, Added, FormsAre
<1>3. /\ m.stack[1].window = Main
      /\ \A i \in 2 .. L : m.stack[i].window = Progress
  BY <1>1 DEF Good, Shape
<1>4. \A i \in 2 .. L + 1 : a.stack[i].window = Progress
  <2> HIDE DEF a
  <2> QED BY <1>1, <1>2, <1>3
<1>5. Shape(a.stack, <<>>)
  <2> HIDE DEF a
  <2> QED BY <1>1, <1>2, <1>3, <1>4 DEF Shape
<1>6. CaptureGood(a) /\ ThenGood(a, <<>>)
  <2> HIDE DEF a
  <2> QED BY <1>1, <1>2 DEF CaptureGood, ThenGood
<1>7. <<>> \in Seq(Modals) /\ Len(<<>>) <= MaxModal
  BY FormsAre
<1> QED
  <2> HIDE DEF a
  <2>1. a = AddWindow(m, Progress)
    BY DEF a
  <2> QED BY <1>1, <1>2, <1>5, <1>6, <1>7, <2>1 DEF Good

LEMMA HandlerType ==
    ASSUME NEW e \in {"key", "down", "up"}, NEW w \in Pointers
    PROVE  /\ Handler(e, w) \in Pendings /\ ~Handler(e, w).hides
           /\ Handler(e, w).event = e
BY DEF Handler, Pendings

\* The windows a key or a click opens in any window.
LEMMA EntryGood ==
    ASSUME NEW m, Good(m, modals), NEW e \in {"key", "up"}, NEW w \in Pointers,
           \/ MenuEntry(m, Handler(e, w)) \/ Confirm(m, Handler(e, w))
           \/ ItemClicked(m, Handler(e, w))
           \/ \E kind \in {"settings", "dialog"} : Open(m, kind, Handler(e, w))
    PROVE  Good(wm', modals')
<1> DEFINE h == Handler(e, w)
<1>1. h \in Pendings /\ ~h.hides /\ h.event # "down"
  BY HandlerType
<1>2. ASSUME NEW more \in BOOLEAN
      PROVE  /\ [h EXCEPT !.more = more] \in Pendings /\ ~[h EXCEPT !.more = more].hides
             /\ [h EXCEPT !.more = more].event # "down"
  <2> HIDE DEF h
  <2> QED BY <1>1 DEF Pendings
<1>3. /\ [h EXCEPT !.confirms = TRUE] \in Pendings /\ ~[h EXCEPT !.confirms = TRUE].hides
      /\ [h EXCEPT !.confirms = TRUE].event # "down"
  <2> HIDE DEF h
  <2> QED BY <1>1 DEF Pendings
<1>4. ASSUME NEW kind \in {"settings", "dialog"}, NEW pending \in Pendings,
             ~pending.hides, pending.event # "down", Open(m, kind, pending)
      PROVE  Good(wm', modals')
  BY <1>4, OpenAboveGood DEF Open
<1>5. wm' = m /\ modals' = modals => Good(wm', modals')
  OBVIOUS
<1>6. CASE MenuEntry(m, h)
  <2> HIDE DEF h
  <2> QED BY <1>1, <1>2, <1>4, <1>5, <1>6 DEF MenuEntry
<1>7. CASE Confirm(m, h)
  <2> HIDE DEF h
  <2> QED BY <1>3, <1>4, <1>7 DEF Confirm
<1>8. CASE ItemClicked(m, h)
  <2> HIDE DEF h
  <2> QED BY <1>2, <1>4, <1>5, <1>8 DEF ItemClicked
<1>9. CASE \E kind \in {"settings", "dialog"} : Open(m, kind, h)
  <2> HIDE DEF h
  <2> QED BY <1>1, <1>4, <1>9
<1> QED
  BY <1>6, <1>7, <1>8, <1>9

\* What opening a row of the main window's list does, a failing launch too
LEMMA RowGood ==
    ASSUME NEW m, Good(m, modals), CurrentOf(m) = Main,
           NEW e \in {"key", "up"}, NEW w \in Pointers, OpenRow(m, Handler(e, w))
    PROVE  Good(wm', modals')
<1> DEFINE h == Handler(e, w)
           hiding == [h EXCEPT !.hides = TRUE]
<1>1. h \in Pendings /\ ~h.hides /\ h.event # "down"
  BY HandlerType
<1>2. hiding \in Pendings /\ hiding.event # "down"
  <2> HIDE DEF h
  <2> QED BY <1>1 DEF Pendings
<1>3. modals = <<>>
  BY CurrentIs
<1>4. Good(m, <<>>)
  BY <1>3
<1>5. CASE wm' = m /\ UNCHANGED modals
  BY <1>5
<1>6. CASE Open(m, "dialog", h)
  <2> HIDE DEF h
  <2> QED BY <1>1, <1>6, OpenAboveGood DEF Open
<1>7. CASE LaunchFails(m, h)
  <2> DEFINE shown == AddWindow(m, Progress)
  <2>1. Good(shown, <<>>) /\ Len(shown.stack) >= 2
    BY <1>4, ShownGood
  <2>2. Good(AddWindow(shown, Progress), <<>>) /\ Len(AddWindow(shown, Progress).stack) >= 2
    <3> HIDE DEF shown
    <3> QED BY <2>1, ShownGood
  <2>3. PICK up \in {shown, AddWindow(shown, Progress)} : OpenAbove(<<>>, up, "dialog", hiding)
    BY <1>3, <1>7 DEF LaunchFails, Open
  <2>4. Good(up, <<>>) /\ Len(up.stack) >= 2
    BY <2>1, <2>2
  <2> HIDE DEF hiding
  <2> QED BY <1>2, <2>3, <2>4, OpenAboveGood
<1> QED
  BY <1>5, <1>6, <1>7 DEF OpenRow

LEMMA InitWindowInv == Init => WindowInv
<1> SUFFICES ASSUME Init PROVE WindowInv
  OBVIOUS
<1> DEFINE e == [window |-> Main, focused |-> None]
<1>1. e \in Entries
  BY FormsAre DEF Entries, Pointers
<1>2. <<e>> \in Seq(Entries) /\ Len(<<e>>) = 1 /\ <<e>>[1] = e
  <2> HIDE DEF e
  <2> QED BY <1>1
<1>3. FormOf(Main) \in Pointers /\ Own(FormOf(Main), Main)
  BY FormsAre, PartNames DEF FormOf, Own, Pointers
<1>4. /\ wm.stack = <<e>> /\ wm.focused = FormOf(Main) /\ wm.captured = None
      /\ wm \in Managers /\ modals = <<>> /\ pressed = {}
  <2> HIDE DEF e
  <2>1. wm = [stack |-> <<e>>, focused |-> FormOf(Main), below |-> None, captured |-> None]
    BY DEF Init, e
  <2> QED BY <1>2, <1>3, <2>1 DEF Init, Managers, Pointers
<1>5. Last(<<e>>) = e
  BY <1>2 DEF Last
<1>6. FocusGood(wm)
  BY <1>2, <1>3, <1>4, <1>5 DEF FocusGood, CurrentOf, Own
<1>7. CaptureGood(wm) /\ ThenGood(wm, <<>>)
  BY <1>4 DEF CaptureGood, ThenGood
<1>8. Shape(<<e>>, <<>>)
  BY <1>2 DEF Shape
<1>9. <<>> \in Seq(Modals) /\ Len(<<>>) <= MaxModal
  BY FormsAre
<1> HIDE DEF e
<1> QED BY <1>4, <1>6, <1>7, <1>8, <1>9 DEF WindowInv, Good

\* What is under the pen, and the pointers to it, may change within the
\* current window.
LEMMA GoodStays ==
    ASSUME NEW m, NEW mods, Good(m, mods), NEW o \in Managers,
           o.stack = m.stack, Own(o.focused, CurrentOf(m)), CaptureGood(o),
           o.below = m.below \/ o.below = None \/ o.below.form = CurrentOf(m)
    PROVE  Good(o, mods)
<1>1. CurrentOf(o) = CurrentOf(m)
  BY DEF CurrentOf
<1>2. FocusGood(o)
  BY <1>1 DEF Good, FocusGood
<1>3. ASSUME NEW n \in 1 .. Len(mods), DownGood(m, n, mods) PROVE DownGood(o, n, mods)
  <2>1. Len(mods) \in Nat /\ mods # <<>>
    BY CurrentIs
  <2>2. CurrentOf(m) \in 0 .. Len(mods)
    BY <2>1, CurrentIs
  <2> QED BY <1>3, <2>2 DEF DownGood
<1>4. ThenGood(o, mods)
  BY <1>3 DEF Good, ThenGood, HidesGood
<1> QED
  BY <1>2, <1>4 DEF Good

\* The window below becomes the focused, or else the captured one.
LEMMA UpdateFocusGood ==
    ASSUME NEW m, NEW mods, Good(m, mods),
           m.below = None \/ m.below.form = CurrentOf(m)
    PROVE  Good(UpdateFocus(m), mods)
<1> DEFINE f == SetFocusedWindow(m, m.below)
           u == UpdateFocus(m)
<1>1. m \in Managers /\ m.below \in Pointers /\ CaptureGood(m) /\ Own(m.focused, CurrentOf(m))
  BY DEF Good, Managers, FocusGood
<1>2. CASE m.below # None /\ m.below.part \in NotFocusable
  <2>1. u = [m EXCEPT !.captured = m.below]
    BY <1>2 DEF UpdateFocus, SetFocusedWindow
  <2>2. /\ u \in Managers /\ u.stack = m.stack /\ u.focused = m.focused
        /\ u.below = m.below /\ u.captured = m.below
    <3> HIDE DEF u
    <3> QED BY <1>1, <2>1 DEF Managers
  <2>3. CaptureGood(u)
    BY <1>2, <2>2 DEF CaptureGood
  <2> HIDE DEF u
  <2>4. Good(u, mods)
    BY <1>1, <2>2, <2>3, GoodStays
  <2> QED BY <2>4 DEF u
<1>3. CASE ~(m.below # None /\ m.below.part \in NotFocusable)
  <2>1. u = f
    BY <1>3 DEF UpdateFocus
  <2>2. Own(m.below, CurrentOf(m))
    BY <1>3 DEF Own
  <2>3. /\ f \in Managers /\ f.stack = m.stack /\ f.focused = m.below
        /\ f.below = m.below /\ f.captured = m.captured
    BY <1>1, <2>2, FocusedSet
  <2> HIDE DEF f, u
  <2>4. CaptureGood(f)
    BY <1>1, <2>3 DEF CaptureGood
  <2>5. Good(f, mods)
    BY <2>2, <2>3, <2>4, GoodStays
  <2>6. u = UpdateFocus(m)
    BY DEF u
  <2> QED BY <2>1, <2>5, <2>6
<1> QED
  BY <1>2, <1>3

\* The current window is of a kind that has parts.
LEMMA KindGood ==
    ASSUME WindowInv
    PROVE  /\ Kind(Current) \in Kinds
           /\ Kind(Current) = "main" => Current = Main
           /\ Current = CurrentOf(wm) /\ Current \in Forms
<1>1. /\ Good(wm, modals) /\ Current = CurrentOf(wm)
      /\ modals \in Seq(Modals)
  BY DEF WindowInv, Good, Current
<1>2. modals # <<>> => Len(modals) \in 1 .. Len(modals)
  BY <1>1
<1>3. modals # <<>> => Current = Len(modals) /\ modals[Len(modals)].kind \in {"settings", "dialog"}
  <2> SUFFICES ASSUME modals # <<>>
               PROVE  Current = Len(modals) /\ modals[Len(modals)].kind \in {"settings", "dialog"}
    OBVIOUS
  <2>1. modals[Len(modals)] \in Modals
    BY <1>1, <1>2
  <2>2. Current = Len(modals)
    BY <1>1, CurrentIs
  <2> QED BY <2>1, <2>2 DEF Modals
<1>4. modals = <<>> => Current \in {Main, Progress}
  <2> SUFFICES ASSUME modals = <<>> PROVE Current \in {Main, Progress}
    OBVIOUS
  <2>1. Len(modals) = 0 /\ Shape(wm.stack, modals)
    BY <1>1 DEF Good
  <2>2. Len(wm.stack) \in Nat /\ Len(wm.stack) >= 1 /\ Current = wm.stack[Len(wm.stack)].window
    BY <1>1, CurrentIs
  <2>3. CASE Len(wm.stack) = 1
    BY <2>1, <2>2, <2>3 DEF Shape
  <2>4. CASE Len(wm.stack) # 1
    BY <2>1, <2>2, <2>4 DEF Shape
  <2> QED BY <2>3, <2>4
<1>5. modals # <<>> => Current # Progress
  BY <1>1, <1>2, <1>3 DEF Progress
<1>6. Current \in Forms
  BY <1>1, CurrentIs
<1> QED
  BY <1>1, <1>3, <1>4, <1>5, <1>6, PartNames DEF Kind

\* The pen is on the current window or on none.
LEMMA PointBelow ==
    ASSUME WindowInv, NEW p \in Points
    PROVE  /\ WindowBelow(p) \in Windows \cup {None} /\ WindowBelow(p) \in Pointers
           /\ WindowBelow(p) = None \/ WindowBelow(p).form = CurrentOf(wm)
           /\ WindowBelow(p) # None /\ WindowBelow(p).part = "up" => CurrentOf(wm) = Main
<1>1. Kind(Current) \in Kinds /\ Current \in Forms /\ Current = CurrentOf(wm)
  BY KindGood
<1>2. p \in AllParts \/ p = "outside"
  BY <1>1, PartNames DEF Points
<1>3. "menu" \in AllParts
  BY PartNames
<1>4. CASE Current = Main /\ menu /\ p # "start"
  BY <1>1, <1>3, <1>4 DEF WindowBelow, Pointers, Windows
<1>5. CASE ~(Current = Main /\ menu /\ p # "start") /\ p = "outside"
  BY <1>5 DEF WindowBelow, Pointers
<1>6. CASE ~(Current = Main /\ menu /\ p # "start") /\ p # "outside"
  <2>1. WindowBelow(p) = [form |-> Current, part |-> p]
    BY <1>6 DEF WindowBelow
  <2>2. "up" \notin Parts["settings"] /\ "up" \notin Parts["dialog"] /\ "up" \notin Parts["progress"]
    BY DEF Parts
  <2>3. ASSUME p = "up" PROVE CurrentOf(wm) = Main
    <3>1. p \in Parts[Kind(Current)]
      BY <1>6 DEF Points
    <3> QED BY <1>1, <2>2, <2>3, <3>1, KindGood, PartNames
  <2> QED BY <1>1, <1>2, <1>6, <2>1, <2>3 DEF Pointers, Windows
<1> QED
  BY <1>4, <1>5, <1>6

LEMMA TouchedGood ==
    ASSUME WindowInv, NEW p \in Points
    PROVE  /\ Good(Touched(p), modals)
           /\ Good([Touched(p) EXCEPT !.captured = None], modals)
           /\ [Touched(p) EXCEPT !.captured = None].below = WindowBelow(p)
           /\ CurrentOf([Touched(p) EXCEPT !.captured = None]) = CurrentOf(wm)
<1> DEFINE b == WindowBelow(p)
           t == Touched(p)
           u == [t EXCEPT !.captured = None]
<1>1. /\ Good(wm, modals) /\ wm \in Managers
      /\ CaptureGood(wm) /\ Own(wm.focused, CurrentOf(wm))
  BY DEF WindowInv, Good, FocusGood
<1>2. b \in Pointers /\ (b = None \/ b.form = CurrentOf(wm))
  BY PointBelow
<1>3. t = [wm EXCEPT !.below = b]
  BY DEF Touched
<1>4. /\ t \in Managers /\ t.stack = wm.stack /\ t.focused = wm.focused
      /\ t.below = b /\ t.captured = wm.captured
  <2> HIDE DEF b, t
  <2> QED BY <1>1, <1>2, <1>3 DEF Managers
<1>5. None \in Pointers
  BY DEF Pointers
<1>6. /\ u \in Managers /\ u.stack = wm.stack /\ u.focused = wm.focused
      /\ u.below = b /\ u.captured = None
  <2> HIDE DEF b, t
  <2> QED BY <1>4, <1>5 DEF Managers
<1>7. CaptureGood(t) /\ CaptureGood(u)
  <2> HIDE DEF b, t, u
  <2> QED BY <1>1, <1>4, <1>6 DEF CaptureGood
<1>8. Good(t, modals)
  <2> HIDE DEF b, t, u
  <2> QED BY <1>1, <1>2, <1>4, <1>7, GoodStays
<1>9. Good(u, modals) /\ u.below = b
  <2> HIDE DEF b, t, u
  <2> QED BY <1>1, <1>2, <1>6, <1>7, GoodStays
<1>10. CurrentOf(u) = CurrentOf(wm)
  <2> HIDE DEF b, t, u
  <2> QED BY <1>6 DEF CurrentOf
<1> QED
  BY <1>8, <1>9, <1>10

-----------------------------------------------------------------------------
(* The steps of the innermost loop *)

LEMMA KeyGood == WindowInv /\ Key => WindowInv'
<1> SUFFICES ASSUME WindowInv, Key PROVE WindowInv'
  OBVIOUS
<1> DEFINE h == Handler("key", None)
<1>1. /\ Good(wm, modals) /\ pressed \subseteq Pointers /\ wm \in Managers
      /\ CaptureGood(wm) /\ None \in Pointers /\ Current = CurrentOf(wm)
  BY DEF WindowInv, Good, Pointers, Current
<1>2. ASSUME Good(wm', modals'), UNCHANGED pressed PROVE WindowInv'
  BY <1>1, <1>2 DEF WindowInv, Good, Shape, FocusGood, CurrentOf, CaptureGood, ThenGood, HidesGood,
                    DownGood
<1>3. ASSUME MenuEntry(wm, h) \/ Confirm(wm, h) \/ ItemClicked(wm, h)
             \/ \E kind \in {"settings", "dialog"} : Open(wm, kind, h)
      PROVE  Good(wm', modals')
  BY <1>1, <1>3, EntryGood
<1>4. ASSUME NEW ret \in {"ok", "cancel"}, Close(ret) PROVE Good(wm', modals')
  <2>1. wm' = wm /\ modals' = [modals EXCEPT ![Len(modals)].ret = ret]
    BY <1>4 DEF Close
  <2> QED BY <1>1, <2>1, ReturnSet
<1>5. wm' = wm /\ modals' = modals => Good(wm', modals')
  BY <1>1
<1>6. ASSUME NEW kind, KeyOf(kind) PROVE Kind(Current) = kind /\ UNCHANGED pressed
  BY <1>6 DEF KeyOf
<1>7. CASE MainKey
  <2>1. /\ KeyOf("main")
        /\ \/ wm' = wm /\ modals' = modals
           \/ OpenRow(wm, h)
           \/ MenuEntry(wm, h)
    BY <1>7 DEF MainKey
  <2>2. CurrentOf(wm) = Main
    BY <1>1, <1>6, <2>1, KindGood
  <2>3. OpenRow(wm, h) => Good(wm', modals')
    BY <1>1, <2>2, RowGood
  <2> HIDE DEF h
  <2> QED BY <1>2, <1>3, <1>5, <1>6, <2>1, <2>3
<1>8. CASE MenuKey
  <2>1. KeyOf("main") /\ ((wm' = wm /\ modals' = modals) \/ MenuEntry(wm, h))
    BY <1>8 DEF MenuKey
  <2> HIDE DEF h
  <2> QED BY <1>2, <1>3, <1>5, <1>6, <2>1
<1>9. CASE MenuStart
  BY <1>2, <1>5, <1>9 DEF MenuStart
<1>10. CASE SettingsKey
  <2> DEFINE item == [form |-> Current, part |-> "item"]
             set == SetFocusedWindow(wm, item)
  <2>1. /\ KeyOf("settings")
        /\ \/ wm' = wm /\ modals' = modals
           \/ wm' = set /\ modals' = modals
           \/ ItemClicked(wm, h)
           \/ Confirm(wm, h)
           \/ Close("cancel")
    BY <1>10 DEF SettingsKey
  <2>2. item \in Pointers /\ Own(item, CurrentOf(wm))
    BY <1>1, KindGood, PartNames DEF Pointers, Windows, Own
  <2>3. /\ set \in Managers /\ set.stack = wm.stack /\ set.focused = item
        /\ set.below = wm.below /\ set.captured = wm.captured
    BY <1>1, <2>2, FocusedSet
  <2>4. Good(set, modals)
    <3> HIDE DEF set, item
    <3>1. CaptureGood(set)
      BY <1>1, <2>3 DEF CaptureGood
    <3> QED BY <1>1, <2>2, <2>3, <3>1, GoodStays
  <2> HIDE DEF h, set, item
  <2> QED BY <1>2, <1>3, <1>4, <1>5, <1>6, <2>1, <2>4
<1>11. CASE DialogKey
  <2>1. /\ KeyOf("dialog")
        /\ \/ Close("ok") \/ Close("cancel")
           \/ \E kind \in {"settings", "dialog"} : Open(wm, kind, h)
    BY <1>11 DEF DialogKey
  <2> HIDE DEF h
  <2> QED BY <1>2, <1>3, <1>4, <1>6, <2>1
<1> QED
  BY <1>7, <1>8, <1>9, <1>10, <1>11 DEF Key

LEMMA PenDownGood ==
    ASSUME WindowInv, NEW p \in Points, PenDown(p)
    PROVE  Good(wm', modals') /\ pressed' \subseteq Pointers
<1> DEFINE m == [Touched(p) EXCEPT !.captured = None]
           w == m.below
           item == [w EXCEPT !.part = "item"]
           set == SetFocusedWindow(m, item)
           switched == IF w # None /\ w.part = "tabs" THEN set ELSE m
<1>1. pressed \subseteq Pointers
  BY DEF WindowInv
<1>2. /\ Good(m, modals) /\ w = WindowBelow(p) /\ CurrentOf(m) = CurrentOf(wm)
      /\ m \in Managers /\ CaptureGood(m)
  BY TouchedGood DEF Good
<1>3. /\ w \in Pointers /\ (w = None \/ w.form = CurrentOf(m))
      /\ w # None /\ w.part = "up" => CurrentOf(m) = Main
  <2> HIDE DEF m
  <2> QED BY <1>2, PointBelow
<1>4. \/ /\ wm' = UpdateFocus(switched) /\ modals' = modals
         /\ pressed' = pressed \/ pressed' = pressed \cup {w}
      \/ /\ w # None /\ w.part = "up" /\ pressed' = pressed
         /\ Open(m, "dialog", Handler("down", w))
  BY DEF PenDown
<1>5. pressed' \subseteq Pointers
  BY <1>1, <1>3, <1>4
<1>6. ASSUME w # None, w.part = "tabs"
      PROVE  Good(set, modals) /\ set.below = w /\ CurrentOf(set) = CurrentOf(m)
  <2>1. w.form = CurrentOf(m) /\ CurrentOf(m) \in Forms
    <3> HIDE DEF m, w
    <3> QED BY <1>2, <1>3, <1>6, CurrentIs
  <2>2. item \in Pointers /\ Own(item, CurrentOf(m))
    <3>1. w \in Windows
      <4> HIDE DEF m, w
      <4> QED BY <1>2, <1>6, PointBelow
    <3>2. item \in Windows /\ item.form = w.form /\ item.part = "item"
      <4> HIDE DEF m, w
      <4> QED BY <3>1, PartNames DEF Windows
    <3> HIDE DEF item, w
    <3> QED BY <2>1, <3>2, PartNames DEF Own, Pointers
  <2>3. /\ set \in Managers /\ set.stack = m.stack /\ set.focused = item
        /\ set.below = m.below /\ set.captured = m.captured
    <3> HIDE DEF m, item
    <3> QED BY <1>2, <2>2, FocusedSet
  <2>4. CaptureGood(set)
    <3> HIDE DEF m, set
    <3> QED BY <1>2, <2>3 DEF CaptureGood
  <2>5. Good(set, modals)
    <3> HIDE DEF m, set, item
    <3> QED BY <1>2, <2>2, <2>3, <2>4, GoodStays
  <2>6. CurrentOf(set) = CurrentOf(m)
    <3> HIDE DEF m, set
    <3> QED BY <2>3 DEF CurrentOf
  <2> QED BY <2>3, <2>5, <2>6
<1>7. Good(UpdateFocus(switched), modals)
  <2>1. /\ Good(switched, modals) /\ switched.below = w
        /\ CurrentOf(switched) = CurrentOf(m)
    <3> HIDE DEF m, set
    <3> QED BY <1>2, <1>6
  <2> HIDE DEF switched, m, w
  <2> QED BY <1>3, <2>1, UpdateFocusGood
<1>8. ASSUME w # None, w.part = "up", Open(m, "dialog", Handler("down", w))
      PROVE  Good(wm', modals')
  <2> DEFINE h == Handler("down", w)
  <2>1. CurrentOf(m) = Main /\ w.form = Main
    BY <1>3, <1>8
  <2>2. modals = <<>> /\ Len(m.stack) = 1
    <3> HIDE DEF m
    <3> QED BY <1>2, <2>1, CurrentIs
  <2>3. h \in Pendings /\ ~h.hides /\ h.event = "down"
    <3> HIDE DEF w
    <3> QED BY <1>3, HandlerType
  <2>4. OpenAbove(modals, m, "dialog", h)
    BY <1>8 DEF Open
  <2> HIDE DEF h, m
  <2> QED BY <1>2, <2>1, <2>2, <2>3, <2>4, OpenAboveGood
<1> HIDE DEF m, switched, w
<1> QED
  BY <1>4, <1>5, <1>7, <1>8

LEMMA ClickGood ==
    ASSUME NEW m, Good(m, modals), NEW c \in Pointers, Click(m, c)
    PROVE  Good(wm', modals')
<1> DEFINE up == Handler("up", c)
<1>1. ASSUME wm' = m, modals' = modals PROVE Good(wm', modals')
  BY <1>1
<1>2. ASSUME \/ Confirm(m, up) \/ ItemClicked(m, up)
             \/ \E kind \in {"settings", "dialog"} : Open(m, kind, up)
      PROVE  Good(wm', modals')
  BY <1>2, EntryGood
<1>3. ASSUME wm' = m, NEW ret \in {"ok", "cancel"},
             modals' = [modals EXCEPT ![Len(modals)].ret = ret]
      PROVE  Good(wm', modals')
  BY <1>3, ReturnSet
<1>4. \/ wm' = m /\ modals' = modals
      \/ Confirm(m, up) \/ ItemClicked(m, up)
      \/ \E kind \in {"settings", "dialog"} : Open(m, kind, up)
      \/ /\ wm' = m
         /\ \E ret \in {"ok", "cancel"} : modals' = [modals EXCEPT ![Len(modals)].ret = ret]
  BY DEF Click
<1> HIDE DEF up
<1> QED BY <1>1, <1>2, <1>3, <1>4

LEMMA ReleaseGood ==
    ASSUME NEW m, Good(m, modals), pressed \subseteq Pointers, NEW c, Release(m, c)
    PROVE  Good(wm', modals') /\ pressed' \subseteq Pointers
<1>1. pressed' \subseteq pressed
  BY DEF Release, Click
<1>2. (wm' = m /\ modals' = modals) \/ (c \in pressed /\ Click(m, c))
  BY DEF Release
<1>3. c \in pressed /\ Click(m, c) => Good(wm', modals')
  BY ClickGood
<1> QED
  BY <1>1, <1>2, <1>3

\* A release goes to a window captured, which is not focusable, or to one
\* of the current window's.
LEMMA TargetIs ==
    ASSUME WindowInv, NEW p \in Points, wm.captured # Dangling
    PROVE  UpTarget(p).part \in NotFocusable \/ UpTarget(p).form = CurrentOf(wm)
<1>1. CaptureGood(wm) /\ Own(wm.focused, CurrentOf(wm)) /\ Current = CurrentOf(wm)
  BY DEF WindowInv, Good, FocusGood, Current
<1>2. WindowBelow(p) = None \/ WindowBelow(p).form = CurrentOf(wm)
  BY PointBelow
<1>3. FormOf(Current).form = CurrentOf(wm)
  BY <1>1 DEF FormOf
<1>4. CASE wm.captured # None
  BY <1>1, <1>4 DEF UpTarget, CaptureGood
<1>5. CASE wm.captured = None
  BY <1>1, <1>2, <1>3, <1>5 DEF UpTarget, Own
<1> QED
  BY <1>4, <1>5

LEMMA ReleaseToGood ==
    ASSUME NEW m, Good(m, modals), pressed \subseteq Pointers, NEW w,
           w.part \in NotFocusable \/ w.form = CurrentOf(m), ReleaseTo(m, w)
    PROVE  Good(wm', modals') /\ pressed' \subseteq Pointers
<1> DEFINE up == Handler("up", None)
           nothing == wm' = m /\ UNCHANGED <<modals, pressed, menu>>
           atMenu == w.form = Main /\ w.part \in {"form", "menu"} /\ menu
           atList == w.form = Main /\ w.part \in {"form", "list"} /\ ~atMenu
           children == {c \in pressed : c.form = w.form}
<1>1. \/ MenuEntry(m, up) /\ UNCHANGED pressed
      \/ nothing
      \/ w.form = Main /\ w.part \in {"form", "list"} /\ OpenRow(m, up) /\ UNCHANGED pressed
      \/ \E c \in pressed : Release(m, c)
      \/ Release(m, w)
  <2>1. CASE atMenu
    BY <2>1 DEF ReleaseTo
  <2>2. CASE atList
    BY <2>2 DEF ReleaseTo
  <2>3. CASE ~atMenu /\ ~atList /\ w.part = "form" /\ w.form # Main
    <3> DEFINE branch == IF children = {} THEN nothing ELSE \E c \in children : Release(m, c)
    <3>1. branch
      BY <2>3 DEF ReleaseTo
    <3> QED BY <3>1
  <2>4. CASE ~atMenu /\ ~atList /\ ~(w.part = "form" /\ w.form # Main) /\ w.part = "menu" /\ ~menu
    BY <2>4 DEF ReleaseTo
  <2>5. CASE /\ ~atMenu /\ ~atList /\ ~(w.part = "form" /\ w.form # Main)
             /\ ~(w.part = "menu" /\ ~menu)
    BY <2>5 DEF ReleaseTo
  <2> QED BY <2>1, <2>2, <2>3, <2>4, <2>5
<1>2. None \in Pointers
  BY DEF Pointers
<1>3. ASSUME MenuEntry(m, up) PROVE Good(wm', modals')
  BY <1>2, <1>3, EntryGood
<1>4. ASSUME w.form = Main, w.part \in {"form", "list"}, OpenRow(m, up) PROVE Good(wm', modals')
  <2>1. CurrentOf(m) = Main
    BY <1>4 DEF NotFocusable
  <2> QED BY <1>2, <1>4, <2>1, RowGood
<1>5. ASSUME NEW c, Release(m, c) PROVE Good(wm', modals') /\ pressed' \subseteq Pointers
  BY <1>5, ReleaseGood
<1> HIDE DEF up
<1> QED
  BY <1>1, <1>3, <1>4, <1>5

LEMMA PenUpGood ==
    ASSUME WindowInv, NEW p \in Points, PenUp(p)
    PROVE  Good(wm', modals') /\ pressed' \subseteq Pointers
<1> DEFINE m == [Touched(p) EXCEPT !.captured = None]
           w == UpTarget(p)
<1>1. Good(wm, modals) /\ pressed \subseteq Pointers
  BY DEF WindowInv
<1>2. Good(m, modals) /\ CurrentOf(m) = CurrentOf(wm)
  BY TouchedGood
<1>3. CASE wm.captured = Dangling
  <2>1. wm' = wm /\ modals' = modals /\ pressed' = pressed
    BY <1>3 DEF PenUp
  <2> QED BY <1>1, <2>1
<1>4. CASE wm.captured # Dangling
  <2>1. ReleaseTo(m, w)
    BY <1>4 DEF PenUp
  <2>2. w.part \in NotFocusable \/ w.form = CurrentOf(m)
    BY <1>2, <1>4, TargetIs
  <2> HIDE DEF m, w
  <2> QED BY <1>1, <1>2, <2>1, <2>2, ReleaseToGood
<1> QED
  BY <1>3, <1>4

LEMMA PenGood == WindowInv /\ Pen => WindowInv'
<1> SUFFICES ASSUME WindowInv, NEW p \in Points, PenDown(p) \/ PenUp(p) \/ PenMove(p)
             PROVE  Good(wm', modals') /\ pressed' \subseteq Pointers
  BY DEF Pen, WindowInv, Good, Shape, FocusGood, CurrentOf, CaptureGood, ThenGood, HidesGood,
         DownGood
<1>1. CASE PenMove(p)
  <2>1. wm' = Touched(p) /\ modals' = modals /\ pressed' = pressed
    BY <1>1 DEF PenMove
  <2> QED BY <2>1, TouchedGood DEF WindowInv
<1> QED
  BY <1>1, PenDownGood, PenUpGood

-----------------------------------------------------------------------------
(* The innermost loop ends *)

\* Its window is gone: what is left is good for the loops that are left, and
\* the handler that goes on finds what it counted on.
LEMMA GoneGood ==
    ASSUME WindowInv, modals # <<>>,
           NEW n, n = Len(modals),
           NEW gone, gone = Destroyed(RemoveWindow(wm, n), n),
           NEW outer, outer = Front(modals)
    PROVE  /\ n \in Nat /\ n >= 1 /\ modals[n].then \in Pendings
           /\ Good(gone, outer)
           /\ modals[n].then.hides =>
                 outer = <<>> /\ Len(gone.stack) >= 2 /\ CurrentOf(gone) = Progress
           /\ modals[n].then.event = "down" =>
                 /\ outer = <<>> /\ Len(gone.stack) = 1 /\ CurrentOf(gone) = Main
                 /\ gone.below \in {None, Dangling} \/ gone.below.form = Main
<1> DEFINE L == Len(wm.stack)
           r == RemoveWindow(wm, n)
<1>1. /\ Good(wm, modals) /\ wm \in Managers /\ wm.stack \in Seq(Entries)
      /\ modals \in Seq(Modals) /\ FocusGood(wm) /\ CaptureGood(wm)
      /\ Shape(wm.stack, modals) /\ ThenGood(wm, modals) /\ n <= MaxModal
  BY DEF WindowInv, Good, Managers
<1>2. /\ n \in Nat /\ n >= 1 /\ n \in 1 .. n /\ L \in Nat /\ L >= n + 1 /\ L >= 2
  <2>1. n \in Nat /\ n >= 1 /\ L \in Nat /\ n + 1 <= L
    BY <1>1 DEF Shape
  <2> HIDE DEF L
  <2> QED BY <2>1
<1>3. CurrentOf(wm) = n
  BY <1>1, CurrentIs
<1>4. /\ wm.stack[1].window = Main
      /\ \A i \in 2 .. L - n : wm.stack[i].window = Progress
      /\ \A i \in 1 .. n : wm.stack[L - n + i].window = i
  BY <1>1 DEF Shape
<1>5. /\ Front(wm.stack) \in Seq(Entries) /\ Len(Front(wm.stack)) = L - 1
      /\ \A i \in 1 .. L - 1 : Front(wm.stack)[i] = wm.stack[i]
  <2>1. Len(wm.stack) >= 1
    BY <1>2
  <2> QED BY <1>1, <2>1, FrontOf
<1>6. /\ outer \in Seq(Modals) /\ Len(outer) = n - 1
      /\ \A i \in 1 .. n - 1 : outer[i] = modals[i]
  BY <1>1, <1>2, FrontOf
<1>7. modals[n] \in Modals
  BY <1>1, <1>2
<1>8. /\ r \in Managers /\ r.stack = Front(wm.stack) /\ FocusGood(r)
      /\ r.below = wm.below /\ r.captured = wm.captured
  <2>1. Len(wm.stack) >= 2
    BY <1>2
  <2> QED BY <1>1, <1>3, <2>1, Removed
<1>9. CurrentOf(r) = wm.stack[L - 1].window
  <2>1. Last(r.stack) = r.stack[L - 1] /\ L - 1 \in 1 .. L - 1
    BY <1>2, <1>5, <1>8 DEF Last
  <2> HIDE DEF r, L
  <2> QED BY <1>5, <1>8, <2>1 DEF CurrentOf
<1>10. wm.stack[L - 1].window = IF n > 1 THEN n - 1 ELSE IF L = 2 THEN Main ELSE Progress
  <2> HIDE DEF L
  <2>1. CASE n > 1
    <3>1. n - 1 \in 1 .. n /\ L - n + (n - 1) = L - 1
      BY <1>2, <2>1
    <3> QED BY <1>4, <2>1, <3>1
  <2>2. CASE n = 1 /\ L = 2
    BY <1>4, <2>2
  <2>3. CASE n = 1 /\ L > 2
    <3>1. L - 1 \in 2 .. L - n /\ L # 2 /\ ~(n > 1)
      BY <1>2, <2>3
    <3> QED BY <1>4, <3>1
  <2> QED BY <1>2, <2>1, <2>2, <2>3
<1>11. CurrentOf(r) # n
  <2> HIDE DEF L, r
  <2> QED BY <1>2, <1>9, <1>10 DEF Main, Progress
<1>12. CaptureGood(r)
  <2> HIDE DEF r
  <2> QED BY <1>1, <1>8 DEF CaptureGood
<1>13. /\ gone \in Managers /\ gone.stack = Front(wm.stack) /\ FocusGood(gone)
       /\ CaptureGood(gone) /\ CurrentOf(gone) = CurrentOf(r)
       /\ gone.below = IF wm.below \notin {None, Dangling} /\ wm.below.form = n
                       THEN Dangling ELSE wm.below
  <2> HIDE DEF r
  <2>1. gone = Destroyed(r, n)
    BY DEF r
  <2> QED BY <1>8, <1>11, <1>12, <2>1, DestroyedKeeps DEF CurrentOf
<1>14. Len(gone.stack) = L - 1 /\ (n = 1 => outer = <<>>)
  <2>1. ASSUME n = 1 PROVE outer = <<>>
    BY <1>6, <2>1
  <2> QED BY <1>5, <1>13, <2>1
<1>15. Shape(gone.stack, outer)
  <2> DEFINE g == gone.stack
  <2>1. /\ Len(outer) + 1 <= Len(g) /\ 1 \in 1 .. L - 1
        /\ Len(g) - Len(outer) = L - n
        /\ \A i \in 2 .. L - n : i \in 1 .. L - 1
        /\ \A i \in 1 .. n - 1 : L - n + i \in 1 .. L - 1 /\ i \in 1 .. n
    <3>1. Len(g) = L - 1 /\ Len(outer) = n - 1
      BY <1>6, <1>14
    <3> HIDE DEF L, g
    <3> QED BY <1>2, <3>1
  <2>2. \A i \in 1 .. L - 1 : g[i] = wm.stack[i]
    BY <1>5, <1>13
  <2> HIDE DEF L, g
  <2>3. /\ g[1].window = Main
        /\ \A i \in 2 .. L - n : g[i].window = Progress
        /\ \A i \in 1 .. n - 1 : g[L - n + i].window = i
    BY <1>4, <2>1, <2>2
  <2>4. Shape(g, outer)
    BY <1>6, <2>1, <2>3 DEF Shape
  <2> QED BY <2>4 DEF g
<1>16. ASSUME NEW i \in 1 .. n
       PROVE  /\ modals[i].then.hides => i = 1 /\ L >= n + 2
              /\ modals[i].then.event = "down" =>
                    /\ i = 1 /\ L = n + 1
                    /\ wm.below \in {None, Dangling} \/ wm.below.form \in 0 .. n
  BY <1>1 DEF ThenGood, HidesGood, DownGood
<1>17. ASSUME NEW i \in 1 .. n, modals[i].then.event = "down"
       PROVE  gone.below \in {None, Dangling} \/ gone.below.form \in 0 .. n - 1
  <2>1. wm.below \in {None, Dangling} \/ wm.below.form \in 0 .. n
    BY <1>16, <1>17
  <2>2. CASE wm.below \in {None, Dangling}
    BY <1>13, <2>2
  <2>3. CASE wm.below \notin {None, Dangling} /\ wm.below.form = n
    BY <1>13, <2>3
  <2>4. CASE wm.below \notin {None, Dangling} /\ wm.below.form # n
    <3>1. wm.below.form \in 0 .. n - 1
      BY <1>2, <2>1, <2>4
    <3> QED BY <1>13, <2>4, <3>1
  <2> QED BY <2>2, <2>3, <2>4
<1>18. ThenGood(gone, outer)
  <2> SUFFICES ASSUME NEW i \in 1 .. n - 1
               PROVE  /\ outer[i].then.hides => HidesGood(gone, i, outer)
                      /\ outer[i].then.event = "down" => DownGood(gone, i, outer)
    BY <1>6 DEF ThenGood
  <2>1. i \in 1 .. n /\ outer[i] = modals[i]
    BY <1>2, <1>6
  <2>2. Len(gone.stack) = L - 1 /\ Len(outer) = n - 1
    BY <1>6, <1>14
  <2> HIDE DEF L
  <2>3. L >= n + 2 => L - 1 >= n - 1 + 2
    BY <1>2
  <2>4. L = n + 1 => L - 1 = n - 1 + 1
    BY <1>2
  <2>5. outer[i].then.hides => HidesGood(gone, i, outer)
    BY <1>16, <2>1, <2>2, <2>3 DEF HidesGood
  <2>6. outer[i].then.event = "down" => DownGood(gone, i, outer)
    BY <1>16, <1>17, <2>1, <2>2, <2>4 DEF DownGood
  <2> QED BY <2>5, <2>6
<1>19. Good(gone, outer)
  <2>1. Len(outer) <= MaxModal
    BY <1>1, <1>2, <1>6, FormsAre
  <2> QED BY <1>6, <1>13, <1>15, <1>18, <2>1 DEF Good
<1>20. ASSUME modals[n].then.hides
       PROVE  outer = <<>> /\ Len(gone.stack) >= 2 /\ CurrentOf(gone) = Progress
  <2>1. n = 1 /\ L >= n + 2
    BY <1>2, <1>16, <1>20
  <2> HIDE DEF L, r
  <2>2. L - 1 >= 2 /\ L # 2 /\ ~(n > 1)
    BY <1>2, <2>1
  <2> QED BY <1>9, <1>10, <1>13, <1>14, <2>1, <2>2
<1>21. ASSUME modals[n].then.event = "down"
       PROVE  /\ outer = <<>> /\ Len(gone.stack) = 1 /\ CurrentOf(gone) = Main
              /\ gone.below \in {None, Dangling} \/ gone.below.form = Main
  <2>1. n = 1 /\ L = n + 1
    BY <1>2, <1>16, <1>21
  <2>2. gone.below \in {None, Dangling} \/ gone.below.form \in 0 .. n - 1
    BY <1>2, <1>17, <1>21
  <2> HIDE DEF L, r
  <2>3. L = 2 /\ ~(n > 1) /\ L - 1 = 1 /\ \A f \in 0 .. n - 1 : f = Main
    BY <2>1 DEF Main
  <2> QED BY <1>9, <1>10, <1>13, <1>14, <2>1, <2>2, <2>3
<1> QED
  BY <1>2, <1>7, <1>19, <1>20, <1>21 DEF Modals

\* The progress window, on top, is removed.
LEMMA HiddenGood ==
    ASSUME NEW m, Good(m, <<>>), Len(m.stack) >= 2, CurrentOf(m) = Progress
    PROVE  Good(RemoveWindow(m, Progress), <<>>)
<1> DEFINE L == Len(m.stack)
           r == RemoveWindow(m, Progress)
<1>1. /\ m \in Managers /\ m.stack \in Seq(Entries) /\ L \in Nat /\ L >= 2
      /\ FocusGood(m) /\ CaptureGood(m) /\ Len(<<>>) = 0
  BY DEF Good, Managers
<1>2. m.stack[1].window = Main /\ \A i \in 2 .. L : m.stack[i].window = Progress
  BY <1>1 DEF Good, Shape
<1>3. /\ Len(Front(m.stack)) = L - 1
      /\ \A i \in 1 .. L - 1 : Front(m.stack)[i] = m.stack[i]
  <2>1. Len(m.stack) >= 1
    BY <1>1
  <2> QED BY <1>1, <2>1, FrontOf
<1>4. r \in Managers /\ r.stack = Front(m.stack) /\ FocusGood(r) /\ r.captured = m.captured
  BY <1>1, Removed
<1>5. Shape(r.stack, <<>>)
  <2> HIDE DEF r
  <2>1. \A i \in 2 .. L - 1 : r.stack[i].window = Progress
    BY <1>1, <1>2, <1>3, <1>4
  <2> QED BY <1>1, <1>2, <1>3, <1>4, <2>1 DEF Shape
<1>6. CaptureGood(r) /\ ThenGood(r, <<>>)
  <2> HIDE DEF r
  <2> QED BY <1>1, <1>4 DEF CaptureGood, ThenGood
<1> HIDE DEF r
<1>7. Good(r, <<>>)
  BY <1>1, <1>4, <1>5, <1>6 DEF Good
<1> QED BY <1>7 DEF r

LEMMA ReturnGood == WindowInv /\ Return => WindowInv'
<1> SUFFICES ASSUME WindowInv, Return PROVE Good(wm', modals') /\ pressed' \subseteq Pointers
  BY DEF WindowInv, Good, Shape, FocusGood, CurrentOf, CaptureGood, ThenGood, HidesGood, DownGood
<1> DEFINE n == Len(modals)
           then == modals[n].then
           gone == Destroyed(RemoveWindow(wm, n), n)
           back == IF then.hides THEN RemoveWindow(gone, Progress) ELSE gone
           outer == Front(modals)
           again == [then EXCEPT !.more = FALSE]
           down == then.event = "down"
           told == [outer EXCEPT ![n - 1].ret = "ok"]
<1>1. /\ modals # <<>> /\ pressed \subseteq Pointers
      /\ \/ /\ OpenAbove(outer, gone, "dialog", again)
            /\ pressed' \subseteq pressed
         \/ /\ modals' = outer \/ modals' = told
            /\ pressed' \subseteq pressed \cup {then.on}
            /\ wm' = back \/ (down /\ back.below # Dangling /\ wm' = UpdateFocus(back))
  BY DEF Return, WindowInv
<1>2. /\ then \in Pendings /\ Good(gone, outer)
      /\ then.hides => outer = <<>> /\ Len(gone.stack) >= 2 /\ CurrentOf(gone) = Progress
      /\ down =>
            /\ outer = <<>> /\ Len(gone.stack) = 1 /\ CurrentOf(gone) = Main
            /\ gone.below \in {None, Dangling} \/ gone.below.form = Main
  BY <1>1, GoneGood
<1>3. ASSUME OpenAbove(outer, gone, "dialog", again) PROVE Good(wm', modals')
  <2>1. /\ again \in Pendings /\ again.hides = then.hides /\ again.event = then.event
    <3> HIDE DEF then
    <3> QED BY <1>2 DEF Pendings
  <2> HIDE DEF gone, outer, again, then
  <2> QED BY <1>2, <1>3, <2>1, OpenAboveGood
<1>4. Good(back, outer)
  <2> HIDE DEF gone, outer, then
  <2>1. then.hides => Good(RemoveWindow(gone, Progress), <<>>)
    BY <1>2, HiddenGood
  <2> QED BY <1>2, <2>1
<1>5. ASSUME down, back.below # Dangling PROVE Good(UpdateFocus(back), outer)
  <2>1. back = gone
    <3>1. ~then.hides
      <4> HIDE DEF gone, outer, then
      <4>1. Len(gone.stack) = 1
        BY <1>2, <1>5
      <4>2. ~(Len(gone.stack) >= 2)
        BY <4>1
      <4> HIDE DEF down, back
      <4> QED BY <1>2, <4>2
    <3> QED BY <3>1
  <2>2. back.below = None \/ back.below.form = CurrentOf(back)
    <3> HIDE DEF gone, back, outer, then
    <3> QED BY <1>2, <1>5, <2>1
  <2> HIDE DEF back, outer, then
  <2> QED BY <1>4, <2>2, UpdateFocusGood
<1>6. Good(wm', outer) => Good(wm', told)
  <2> HIDE DEF outer, n
  <2> QED BY ReturnSet
<1>7. pressed' \subseteq Pointers
  <2> HIDE DEF gone, back, outer, then
  <2> QED BY <1>1, <1>2 DEF Pendings
<1> HIDE DEF gone, back, outer, then, told, again
<1> QED
  BY <1>1, <1>3, <1>4, <1>5, <1>6, <1>7

-----------------------------------------------------------------------------
\* The invariant is kept, and gives FocusInTop.
LEMMA WindowInvIsFocusInTop == WindowInv => FocusInTop
<1> SUFFICES ASSUME WindowInv PROVE FocusInTop
  OBVIOUS
<1> DEFINE L == Len(wm.stack)
           n == Len(modals)
<1>1. /\ Good(wm, modals) /\ wm.stack \in Seq(Entries) /\ modals \in Seq(Modals)
      /\ Shape(wm.stack, modals) /\ FocusGood(wm) /\ Current = CurrentOf(wm)
  BY DEF WindowInv, Good, Managers, Current
<1>2. /\ L \in Nat /\ n \in Nat /\ n + 1 <= L
      /\ DOMAIN wm.stack = 1 .. L /\ DOMAIN modals = 1 .. n
  BY <1>1 DEF Shape
<1>3. L - n >= 1
  <2> HIDE DEF L, n
  <2> QED BY <1>2
<1>4. InnermostOnTop
  BY <1>1, <1>2, <1>3 DEF InnermostOnTop, Shape
<1>5. FocusOwn
  BY <1>1, <1>2 DEF FocusOwn, FocusGood, Own
<1> QED
  BY <1>4, <1>5 DEF FocusInTop

LEMMA WindowInvStep == WindowInv /\ [Next]_vars => WindowInv'
<1> SUFFICES ASSUME WindowInv, [Next]_vars PROVE WindowInv'
  OBVIOUS
<1>1. CASE UNCHANGED vars
  BY <1>1 DEF vars, WindowInv, Good, Shape, FocusGood, CurrentOf, CaptureGood, ThenGood,
              HidesGood, DownGood
<1> QED
  BY <1>1, KeyGood, PenGood, ReturnGood DEF Next

\* The input and the focus are in the window of the innermost loop, for any
\* number of modal windows (windowmanager.cpp, form.cpp doModal).
THEOREM WindowManagerFocusInTop == Spec => []FocusInTop
BY InitWindowInv, WindowInvStep, WindowInvIsFocusInTop, PTL DEF Spec

-----------------------------------------------------------------------------
(* The stroke of the pen *)

\* While nothing but the pen is used, the window it went down in is captured or,
\* if it can be focused, is focused with nothing captured.
StrokeInv ==
    grab \notin {Lost, None} =>
        held /\ (wm.captured = grab \/ (wm.captured = None /\ wm.focused = grab))

LEMMA StrokeInvIsStrokeKept == StrokeInv => StrokeKept
BY DEF StrokeInv, StrokeKept, UpTarget

\* updateFocusIfNecessary after the pen went down on m.below
LEMMA StrokeBegins ==
    ASSUME NEW m \in Managers, m.captured = None, m.below # None
    PROVE  LET u == UpdateFocus(m)
           IN  u.captured = m.below \/ (u.captured = None /\ u.focused = m.below)
BY DEF UpdateFocus, SetFocusedWindow, Managers

LEMMA StrokeStep == WindowInv /\ StrokeInv /\ [Next]_vars => StrokeInv'
<1> SUFFICES ASSUME WindowInv, StrokeInv, [Next]_vars PROVE StrokeInv'
  OBVIOUS
<1>0. wm \in Managers
  BY DEF WindowInv, Good
<1>1. CASE UNCHANGED vars
  BY <1>1 DEF vars, StrokeInv
<1>2. CASE Key \/ Return
  BY <1>2 DEF Key, MainKey, MenuKey, MenuStart, SettingsKey, DialogKey, KeyOf, Return, StrokeInv
<1>3. ASSUME NEW p \in Points, PenMove(p) PROVE StrokeInv'
  <2>1. /\ Touched(p).captured = wm.captured /\ Touched(p).focused = wm.focused
    BY <1>0 DEF Touched, Managers
  <2> QED
    BY <1>3, <2>1 DEF PenMove, StrokeInv
<1>4. ASSUME NEW p \in Points, PenUp(p) PROVE StrokeInv'
  BY <1>4 DEF PenUp, StrokeInv
<1>5. ASSUME NEW p \in Points, PenDown(p) PROVE StrokeInv'
  <2> DEFINE m == [Touched(p) EXCEPT !.captured = None]
             w == m.below
             switched == IF w # None /\ w.part = "tabs"
                         THEN SetFocusedWindow(m, [w EXCEPT !.part = "item"]) ELSE m
  <2>1. held' = TRUE /\ (grab' = Lost \/ (wm' = UpdateFocus(switched) /\ grab' = w))
    BY <1>5 DEF PenDown
  <2>2. Touched(p) \in Managers
    BY TouchedGood DEF Good
  <2>3. m \in Managers /\ m.captured = None
    BY <2>2 DEF Managers, Pointers
  <2>4. switched \in Managers /\ switched.captured = None /\ switched.below = w
    <3> DEFINE item == [w EXCEPT !.part = "item"]
    <3>1. w = WindowBelow(p) /\ w \in Windows \cup {None}
      BY TouchedGood, PointBelow
    <3>2. ASSUME w # None PROVE item \in Windows /\ item.part = "item"
      <4> HIDE DEF m, w
      <4> QED BY <3>1, <3>2, PartNames DEF Windows
    <3>3. ASSUME w # None PROVE item \in Pointers /\ Own(item, item.form)
      <4> HIDE DEF item, w
      <4> QED BY <3>2, <3>3, PartNames DEF Own, Pointers
    <3>4. CASE w # None /\ w.part = "tabs"
      <4> DEFINE set == SetFocusedWindow(m, item)
      <4>1. item \in Pointers /\ Own(item, item.form)
        BY <3>3, <3>4
      <4>2. set \in Managers /\ set.captured = m.captured /\ set.below = m.below
        <5> HIDE DEF m, item
        <5> QED BY <2>3, <4>1, FocusedSet
      <4>3. switched = set
        BY <3>4
      <4> HIDE DEF m, set, switched
      <4> QED BY <2>3, <4>2, <4>3
    <3>5. CASE ~(w # None /\ w.part = "tabs")
      BY <2>3, <3>5
    <3> QED
      BY <3>4, <3>5
  <2> QED
    BY <2>1, <2>4, StrokeBegins DEF StrokeInv
<1> QED
  BY <1>1, <1>2, <1>3, <1>4, <1>5 DEF Next, Pen

\* A stroke of the pen that nothing interrupts ends in the window it began in,
\* wherever the pen slides to (updateFocusIfNecessary, onTouchUp).
THEOREM WindowManagerStrokeKept == Spec => []StrokeKept
<1>1. Init => StrokeInv
  BY DEF Init, StrokeInv
<1> QED
  BY <1>1, InitWindowInv, WindowInvStep, StrokeStep, StrokeInvIsStrokeKept, PTL DEF Spec
==============================================================================
