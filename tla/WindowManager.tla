---------------------------- MODULE WindowManager ----------------------------
(***************************************************************************)
(* The windows of the lower screen: arm9/source/ui/windowmanager.cpp with  *)
(* window.cpp, form.cpp, button.cpp, popmenu.cpp, msgbox.cpp, userinput.cpp*)
(* and the windows built from them.  A handler of a key or of the pen may  *)
(* open a modal window (cForm::doModal), which reads the input in a loop   *)
(* of its own while the handler waits; when the loop ends the window is    *)
(* removed and destroyed and the handler goes on.                          *)
(*                                                                         *)
(* Geometry is left out: a point of the screen is the part of the current  *)
(* window it lies on.                                                      *)
(***************************************************************************)
EXTENDS Integers, Sequences, SequencesExt

CONSTANTS MaxModal,     \* bound: modal windows open at once
          None,         \* NULL
          Dangling      \* the address of a window that was destroyed

ASSUME ModalAssumption == MaxModal \in Nat

Main == 0               \* cMainWnd; the n-th modal window is n
Progress == -1          \* progressWnd(), which no loop belongs to
Forms == {Main, Progress} \cup 1 .. MaxModal

\* "list" is also the list of a dialog, "item" a spin box or button of a tab,
\* "tabs" the arrows that change the tab, "up" the folder-up button.
Parts == [main     |-> {"form", "list", "up", "start", "menu"},
          settings |-> {"form", "item", "tabs", "ok"},
          dialog   |-> {"form", "ok"},
          progress |-> {"form"}]
Kinds == DOMAIN Parts
AllParts == UNION {Parts[k] : k \in Kinds}
NotFocusable == {"tabs"}                                \* disableFocus()
Windows == [form: Forms, part: AllParts]
FormOf(f) == [form |-> f, part |-> "form"]

VARIABLES wm,           \* the window manager: its windows, the current one
                        \* last, and three pointers
          modals,       \* the modal windows: kind, result, interrupted handler
          pressed,      \* buttons whose _captured is set
          menu,         \* the start menu is visible
          held,         \* lastInputs.touchHeld
          grab,         \* where the pen went down, as long as it alone was used
          broken        \* a pointer to a destroyed window was followed

vars == <<wm, modals, pressed, menu, held, grab, broken>>

Lost == [form |-> Main, part |-> "lost"]
Thens == [event: {"key", "down", "up"}, on: Windows \cup {None},
          hides: BOOLEAN, more: BOOLEAN, confirms: BOOLEAN]
Manager == [stack: Seq([window: Forms, focused: Windows \cup {None}]),
            focused: Windows \cup {None},
            below: Windows \cup {None, Dangling},
            captured: Windows \cup {None, Dangling}]

Kind(f) == IF f = Main THEN "main" ELSE IF f = Progress THEN "progress"
           ELSE modals[f].kind
Exists(w) == /\ w.form \in {Main, Progress} \cup DOMAIN modals
             /\ w.part \in Parts[Kind(w.form)]

TypeOK ==
    /\ wm \in Manager /\ wm.stack # <<>>
    /\ modals \in Seq([kind: {"settings", "dialog"}, ret: {"none", "ok", "cancel"},
                       then: Thens])
    /\ Len(modals) <= MaxModal
    /\ \A w \in pressed \cup ({wm.focused, grab} \ {None, Lost}) : w \in Windows /\ Exists(w)
    /\ menu \in BOOLEAN /\ held \in BOOLEAN /\ broken \in BOOLEAN

-----------------------------------------------------------------------------
(* cWindowManager, as functions of the manager's state *)

CurrentOf(m) == Last(m.stack).window
Current == CurrentOf(wm)

SetFocusedWindow(m, w) ==
    IF w # None /\ w.part \in NotFocusable THEN m ELSE [m EXCEPT !.focused = w]

\* mutant: the new window is not focused
AddUnfocused(m, f) ==
    [m EXCEPT !.stack = Append([@ EXCEPT ![Len(m.stack)].focused = m.focused],
                               [window |-> f, focused |-> None])]

AddWindow(m, f) ==
    LET saved == [m.stack EXCEPT ![Len(m.stack)].focused = m.focused]
    IN  SetFocusedWindow([m EXCEPT !.stack = Append(saved, [window |-> f, focused |-> None])],
                         FormOf(f))

\* The current window, or the first of the others that is f.
RemoveWindow(m, f) ==
    LET isCurrent == f = CurrentOf(m)
        places == {i \in DOMAIN m.stack : m.stack[i].window = f}
        rest == IF isCurrent THEN Front(m.stack)
                ELSE IF places = {} THEN m.stack
                ELSE RemoveAt(m.stack, CHOOSE i \in places : \A j \in places : i <= j)
        popped == [m EXCEPT !.stack = rest]
        focusing == IF isCurrent THEN SetFocusedWindow(popped, Last(rest).focused) ELSE popped
    IN  IF focusing.focused = FormOf(f)
        THEN [focusing EXCEPT !.focused = FormOf(CurrentOf(focusing))]
        ELSE focusing

\* The destructors: a focused window gives up the focus; the other pointers
\* are left alone.
Destroyed(m, f) ==
    LET left(w) == IF w \notin {None, Dangling} /\ w.form = f THEN Dangling ELSE w
        kept == IF m.focused # None /\ m.focused.form = f THEN SetFocusedWindow(m, None) ELSE m
    IN  [kept EXCEPT !.below = left(@), !.captured = left(@)]

UpdateFocusOnly(m) == SetFocusedWindow(m, m.below)   \* mutant: nothing is captured

\* updateFocusIfNecessary
UpdateFocus(m) ==
    LET f == SetFocusedWindow(m, m.below)
    IN  IF m.below # None /\ m.below.part \in NotFocusable
        THEN [f EXCEPT !.captured = m.below] ELSE f

\* What lies under the pen.  The start menu, while it is shown, covers all of
\* the main window but the start button.
WindowBelow(p) ==
    IF Current = Main /\ menu /\ p # "start" THEN [form |-> Main, part |-> "menu"]
    ELSE IF p = "outside" THEN None
    ELSE [form |-> Current, part |-> p]
Points == (Parts[Kind(Current)] \ {"menu"}) \cup {"outside"}
Touched(p) == [wm EXCEPT !.below = WindowBelow(p)]

-----------------------------------------------------------------------------
(* doModal *)

Handler(event, w) ==
    [event |-> event, on |-> w, hides |-> FALSE, more |-> FALSE, confirms |-> FALSE]

\* addWindow and show(), which in the settings focuses the first item.
Opened(m, kind, n) ==
    LET added == AddWindow(m, n)
    IN  IF kind = "settings" THEN SetFocusedWindow(added, [form |-> n, part |-> "item"])
        ELSE added

OpenAbove(below, m, kind, then) ==
    /\ Len(below) < MaxModal
    /\ modals' = Append(below, [kind |-> kind, ret |-> "none", then |-> then])
    /\ wm' = Opened(m, kind, Len(below) + 1)

Open(m, kind, then) == OpenAbove(modals, m, kind, then)

Close(ret) == modals' = [modals EXCEPT ![Len(modals)].ret = ret] /\ UNCHANGED wm

\* A launch fails with a message box above the progress window: launchSelected's
\* and, after the launcher has shown its own, two entries of the same window.
\* One of them is hidden afterwards.
LaunchFails(m, then) ==
    LET shown == AddWindow(m, Progress)
    IN  \E up \in {shown, AddWindow(shown, Progress)} :
            Open(up, "dialog", [then EXCEPT !.hides = TRUE])

\* What opening a row does to the windows: nothing that stays, a message box
\* (the folder cannot be opened, no cartridge), or a launch.
OpenRow(m, then) ==
    \/ wm' = m /\ UNCHANGED modals
    \/ Open(m, "dialog", then)
    \/ LaunchFails(m, then)

\* A start menu entry: nothing, or a window; a new theme then asks to restart.
MenuEntry(m, then) ==
    \/ wm' = m /\ UNCHANGED modals
    \/ Open(m, "settings", then)
    \/ \E more \in BOOLEAN : Open(m, "dialog", [then EXCEPT !.more = more])

\* onOK of the settings asks first.
Confirm(m, then) == Open(m, "dialog", [then EXCEPT !.confirms = TRUE])

\* A button of the settings (the language): a dialog, and then a question.
ItemClicked(m, then) ==
    \/ wm' = m /\ UNCHANGED modals
    \/ Open(m, "dialog", [then EXCEPT !.more = TRUE])

-----------------------------------------------------------------------------
(* One turn of the innermost loop: processInput.  A key that is handled uses  *)
(* up the turn; what the pen did in it is noted in lastInputs and then lost.  *)

Running == ~broken /\ (modals # <<>> => Last(modals).ret = "none")

KeyOf(kind) ==
    /\ Running /\ Kind(Current) = kind
    /\ held' \in BOOLEAN /\ grab' = Lost
    /\ UNCHANGED <<pressed, broken>>

\* A, B, X, Y, START and the cursor keys with the menu hidden
MainKey ==
    /\ KeyOf("main") /\ ~menu
    /\ LET key == Handler("key", None)
       IN  \/ menu' = TRUE /\ UNCHANGED <<wm, modals>>
           \/ (OpenRow(wm, key) \/ MenuEntry(wm, key)) /\ UNCHANGED menu

MenuKey ==
    /\ KeyOf("main") /\ menu
    /\ \/ UNCHANGED <<wm, modals, menu>>
       \/ menu' = FALSE /\ MenuEntry(wm, Handler("key", None))

\* START hides the menu and is reported as not handled: the pen is still heard.
MenuStart ==
    /\ Running /\ Current = Main /\ menu
    /\ menu' = FALSE /\ grab' = Lost
    /\ UNCHANGED <<wm, modals, pressed, held, broken>>

SettingsKey ==
    /\ KeyOf("settings") /\ UNCHANGED menu
    /\ LET key == Handler("key", None)
           item == [form |-> Current, part |-> "item"]
       IN  \/ wm' \in {wm, SetFocusedWindow(wm, item)} /\ UNCHANGED modals
           \/ wm.focused = item /\ ItemClicked(wm, key)
           \/ Confirm(wm, key)
           \/ Close("cancel")

\* Other keys open the save types, the cheats or a question in some dialogs.
DialogKey ==
    /\ KeyOf("dialog") /\ UNCHANGED menu
    /\ \/ Close("ok") \/ Close("cancel")
       \/ \E kind \in {"settings", "dialog"} : Open(wm, kind, Handler("key", None))

\* onTouchDown; the folder-up button, when the folder above cannot be opened,
\* and then only, opens a window while it is being pressed.
PenDown(p) ==
    LET m == [Touched(p) EXCEPT !.captured = None]
        w == m.below
        goesDown == IF w = None \/ w.part \notin {"up", "start", "item", "tabs", "ok"}
                    THEN pressed ELSE pressed \cup {w}
        switched == IF w # None /\ w.part = "tabs"
                    THEN SetFocusedWindow(m, [w EXCEPT !.part = "item"]) ELSE m
    IN  /\ Running /\ ~held /\ held' = TRUE
        /\ \/ /\ wm' = UpdateFocus(switched)
              /\ pressed' = goesDown /\ grab' = w
              /\ UNCHANGED modals
           \/ /\ w # None /\ w.part = "up"
              /\ Open(m, "dialog", Handler("down", w))
              /\ grab' = Lost /\ UNCHANGED pressed
        /\ UNCHANGED <<menu, broken>>

\* The windows onTouchUp sends the release to
UpTarget(p) ==
    LET below == WindowBelow(p)
    IN  IF wm.captured # None THEN wm.captured
        ELSE IF wm.focused # None /\ below # wm.focused THEN wm.focused
        ELSE IF below # None THEN below ELSE FormOf(Current)

\* cButton::clicked
Click(m, c) ==
    LET up == Handler("up", c)
        kind == Kind(c.form)
    IN  \/ c.part = "start" /\ menu' = ~menu /\ wm' = m /\ UNCHANGED modals
        \/ /\ UNCHANGED menu
           /\ \/ c.part \in {"up", "tabs"} /\ wm' = m /\ UNCHANGED modals
              \/ c.part = "item" /\ ItemClicked(m, up)
              \/ c.part = "ok" /\ kind = "settings" /\ Confirm(m, up)
              \/ c.part = "ok" /\ kind = "dialog"
                 /\ \E other \in {"settings", "dialog"} : Open(m, other, up)
              \/ c.part = "ok" /\ wm' = m
                 /\ \E ret \in {"ok", "cancel"} :
                       /\ kind = "settings" => ret = "cancel"
                       /\ modals' = [modals EXCEPT ![Len(modals)].ret = ret]

\* cButton's touchUp; a click that opens a window resets _captured later.
Release(m, c) ==
    IF c \notin pressed THEN wm' = m /\ UNCHANGED <<modals, pressed, menu>>
    ELSE IF m.below = c
    THEN /\ Click(m, c)
         /\ pressed' = IF Len(modals') > Len(modals) THEN pressed ELSE pressed \ {c}
    ELSE pressed' = pressed \ {c} /\ wm' = m /\ UNCHANGED <<modals, menu>>

\* process(touchUp) of w.  A form asks its children; the main window's list,
\* the first of them, takes every release, and so does its menu while shown.
ReleaseTo(m, w) ==
    LET up == Handler("up", None)
        children == {c \in pressed : c.form = w.form}
        atMenu == w.form = Main /\ w.part \in {"form", "menu"} /\ menu
        atList == w.form = Main /\ w.part \in {"form", "list"} /\ ~atMenu
        nothing == wm' = m /\ UNCHANGED <<modals, pressed, menu>>
    IN  CASE atMenu -> menu' = FALSE /\ MenuEntry(m, up) /\ UNCHANGED pressed
          [] atList -> \/ nothing
                       \/ /\ m.below = [form |-> Main, part |-> "list"]
                          /\ OpenRow(m, up) /\ UNCHANGED <<pressed, menu>>
          [] w.part = "form" /\ w.form # Main ->
                IF children = {} THEN nothing ELSE \E c \in children : Release(m, c)
          [] w.part = "menu" /\ ~menu -> nothing
          [] OTHER -> Release(m, w)

\* onTouchUp
PenUp(p) ==
    /\ Running /\ held /\ held' = FALSE /\ grab' = Lost
    /\ IF wm.captured = Dangling
       THEN broken' = TRUE /\ UNCHANGED <<wm, modals, pressed, menu>>
       ELSE /\ ReleaseTo([Touched(p) EXCEPT !.captured = None], UpTarget(p))
            /\ UNCHANGED broken

\* onTouchMove scrolls the list or moves the bar of the menu.
PenMove(p) ==
    /\ Running /\ held
    /\ wm' = Touched(p)
    /\ UNCHANGED <<modals, pressed, menu, held, grab, broken>>

-----------------------------------------------------------------------------
\* The innermost loop ends: its window is removed and destroyed, and the
\* handler that opened it goes on.
Return ==
    /\ ~broken /\ modals # <<>> /\ Last(modals).ret # "none"
    /\ LET n == Len(modals)
           then == modals[n].then
           gone == Destroyed(RemoveWindow(wm, n), n)
           back == IF then.hides THEN RemoveWindow(gone, Progress) ELSE gone
           outer == Front(modals)
           up == {w \in pressed : w.form # n}
       IN  IF then.more /\ modals[n].ret = "ok"
           THEN /\ OpenAbove(outer, gone, "dialog", [then EXCEPT !.more = FALSE])
                /\ pressed' = up /\ UNCHANGED broken
           ELSE /\ modals' = IF then.confirms /\ modals[n].ret = "ok"
                             THEN [outer EXCEPT ![n - 1].ret = "ok"] ELSE outer
                /\ pressed' = (IF then.event = "down" THEN up \cup {then.on} ELSE up \ {then.on})
                /\ broken' = (then.event = "down" /\ back.below = Dangling)
                /\ wm' = IF then.event = "down" /\ ~broken' THEN UpdateFocus(back) ELSE back
    /\ grab' = Lost
    /\ UNCHANGED <<menu, held>>

Init ==
    /\ wm = [stack |-> <<[window |-> Main, focused |-> None]>>,
             focused |-> FormOf(Main), below |-> None, captured |-> None]
    /\ modals = <<>> /\ pressed = {} /\ menu = FALSE
    /\ held = FALSE /\ grab = Lost /\ broken = FALSE

Key == MainKey \/ MenuKey \/ MenuStart \/ SettingsKey \/ DialogKey
Pen == \E p \in Points : PenDown(p) \/ PenUp(p) \/ PenMove(p)
Next == Key \/ Pen \/ Return

Spec == Init /\ [][Next]_vars
-----------------------------------------------------------------------------

\* However windows are opened inside each other's handlers, the current one is
\* that of the innermost loop (or the progress window, which has none), and the
\* focus, as those the other windows will get back, is inside its own window:
\* neither a key nor a release reaches a window behind or one that is gone.
InnermostOnTop ==
    LET k == Len(wm.stack) - Len(modals)
    IN  /\ k >= 1 /\ wm.stack[1].window = Main
        /\ \A i \in 2 .. k : wm.stack[i].window = Progress
        /\ \A n \in DOMAIN modals : wm.stack[k + n].window = n
FocusOwn ==
    /\ wm.focused # None => wm.focused.form = Current
    /\ \A i \in DOMAIN wm.stack :
          wm.stack[i].focused # None => wm.stack[i].focused.form = wm.stack[i].window
FocusInTop == InnermostOnTop /\ FocusOwn

\* A stroke of the pen that nothing interrupts belongs to the window it began
\* in: wherever the pen slides to, that one gets the release.
StrokeKept ==
    grab \notin {Lost, None} => held /\ \A p \in Points : UpTarget(p) = grab

\* windowmanager.h:33 "process touch for non-focusable window": the window the
\* release of a held pen is sent to is there, and is a non-focusable one.
CapturedLives ==
    held /\ wm.captured # None =>
        wm.captured # Dangling /\ wm.captured.part \in NotFocusable /\ Exists(wm.captured)
==============================================================================
