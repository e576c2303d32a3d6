------------------------------ MODULE Settings ------------------------------
(***************************************************************************)
(* The settings of the menu: from globalsettings.ini to gs(), to the rows  *)
(* of the settings window and back (globalsettings.cpp, settingwnd.cpp,    *)
(* mainwnd.cpp), with the windows that choose a language and a theme, the  *)
(* start that reads them all (main.cpp, theme.cpp) and the power going off *)
(* at any time, while the file is written too.                             *)
(*                                                                         *)
(* The settings are named by their items in the file.  A value is the      *)
(* member of gs() it is loaded into: a number, or the name of a directory. *)
(***************************************************************************)
EXTENDS IniFile, ListView

CONSTANTS Followed,        \* the settings an instance tells the values of
          Installed,       \* [console, card]: what it runs on, [flashcart, dsi],
                           \* and the settings that are on the card
          FreshFile,       \* globalsettings-init.ini
          ThemeDirs,       \* directories of themes: [sections, assets] of each
          LanguageDirs,    \* directories with a language.txt
          NameOrder,       \* the names of directories as std::sort orders them
          DefaultTheme,    \* "blue skies"
          Fold,            \* a name without its case
          Shown,           \* rows of a list window on the screen
          MaxStarts, MaxChanges, MaxCuts  \* bounds: starts, turns of a value, cut saves

VARIABLES console, card,   \* [ini, there, inits]: the file, and the -init files left
          gs,              \* cGlobalSettings
          screen,          \* what runs: off, a step of the start, or a window
          first,           \* firstInstallation
          win,             \* the settings window [sel, tab, top, focus]
          box,             \* the list window over it [list, mark, open]
          chosen,          \* what the user last confirmed, as the window shows it
          spent            \* [starts, changes, cuts, edits]

vars == <<console, card, gs, screen, first, win, box, chosen, spent>>

-----------------------------------------------------------------------------
(***************************************************************************)
(* cSettingWnd (settingwnd.cpp): tabs of rows, each row a value turned     *)
(* through its texts or a button.  A window is a record: what is selected  *)
(* in each row, the current tab, the first row shown of each tab and the   *)
(* row that has the focus (0: something else has it).  The tabs, as        *)
(* sequences of names, and the number of texts of a row do not change      *)
(* while a window is open and are handed to the operators.                 *)
(***************************************************************************)
MaxVisible == 5
TopOf(rows, top) == Upper(1, Lower(top, rows - MaxVisible + 1))
Visible(tabs, w) == w.top[w.tab] .. Lower(Len(tabs[w.tab]), w.top[w.tab] + MaxVisible - 1)

ShowTab(tabs, w) ==
    LET top == TopOf(Len(tabs[w.tab]), w.top[w.tab])
    IN  [w EXCEPT !.top[w.tab] = top, !.focus = top]
NewWindow(tabs, sel) ==
    ShowTab(tabs, [sel |-> sel, tab |-> 1, top |-> [t \in DOMAIN tabs |-> 1], focus |-> 0])
NoWin == [sel |-> <<>>, tab |-> 1, top |-> <<>>, focus |-> 0]

FocusWithoutScrollDown(tabs, w, row) ==   \* mutant: only rows above are scrolled to
    [w EXCEPT !.focus = row, !.top[w.tab] = Lower(@, row)]
FocusItem(tabs, w, row) ==
    LET top == w.top[w.tab]
        moved == IF row < top THEN row
                 ELSE IF row >= top + MaxVisible THEN row - MaxVisible + 1 ELSE top
    IN  [w EXCEPT !.focus = row, !.top[w.tab] = TopOf(Len(tabs[w.tab]), moved)]

(* What the keys that move, and the pen on a row, make of the window *)
OnUIKeyUP(tabs, w) == FocusItem(tabs, w, IF w.focus <= 1 THEN Len(tabs[w.tab]) ELSE w.focus - 1)
OnUIKeyDOWN(tabs, w) == FocusItem(tabs, w, IF w.focus = Len(tabs[w.tab]) THEN 1 ELSE w.focus + 1)
SwitchTab(tabs, w, tab) == ShowTab(tabs, [w EXCEPT !.tab = tab])
TouchRow(w, row) == [w EXCEPT !.focus = row]
Moved(tabs, w) ==
    {OnUIKeyUP(tabs, w), OnUIKeyDOWN(tabs, w)}
    \cup {SwitchTab(tabs, w, tab) : tab \in {w.tab - 1, w.tab + 1} \cap DOMAIN tabs}
    \cup {TouchRow(w, row) : row \in Visible(tabs, w)}

(* LEFT and RIGHT turn the focused value, the pen on an arrow one it sees; *)
(* the texts end at both ends.  A row that sel leaves out is not turned.   *)
Turn(w, k, step, texts) ==
    IF 0 <= w.sel[k] + step /\ w.sel[k] + step < texts THEN {[w EXCEPT !.sel[k] = @ + step]} ELSE {}
Turned(tabs, w, texts) ==
    UNION {LET k == tabs[w.tab][row] IN
           IF k \notin DOMAIN w.sel THEN {}
           ELSE Turn(TouchRow(w, row), k, 1, texts[k]) \cup Turn(TouchRow(w, row), k, -1, texts[k])
           : row \in Visible(tabs, w) \cup ({w.focus} \ {0})}

(* getItemSelection; a row that sel leaves out has its first text selected. *)
GetItemSelection(tabs, w, tab, row) ==
    LET k == tabs[tab][row] IN IF k \in DOMAIN w.sel THEN w.sel[k] ELSE 0

(* A row that is focused is on the screen. *)
FocusShown(tabs, w) == w.focus = 0 \/ w.focus \in Visible(tabs, w)

-----------------------------------------------------------------------------
(* globalsettings.ini and gs() *)

SaveOrder ==
    <<"uiName", "langDirectory", "fileListType", "romTrim", "showHiddenFiles",
      "gbaSleepHack", "gbaAutoSave", "Animation", "cheats", "softreset", "dma",
      "sdsave", "safemode", "savedir", "nightly", "debug", "Show12hrClock",
      "showCovers", "playThemeMusic", "homebrewreset", "resethotkey", "dsonly",
      "boostcpu", "ignorecrc16", "languageOverride", "hbstrap",
      "overridePluginDefaults", "pico", "dsiWareUnlaunch", "icon", "cardReadDma",
      "fileSortMode", "phatCol", "autorunWithLastRom", "saveext", "scrollSpeed",
      "viewMode", "slot2mode", "saveSlotOverride">>

(* The constructor's values; of the four spelled as words, what loadSettings *)
(* takes when the file has no such item.                                     *)
On == {"Animation", "softreset", "dma", "sdsave", "showCovers", "playThemeMusic"}
Default(k) ==
    CASE k = "uiName" -> DefaultTheme
      [] k = "langDirectory" -> "English"
      [] k = "saveSlotOverride" -> -1
      [] k = "icon" -> 2
      [] k = "scrollSpeed" -> 4
      [] k = "viewMode" -> 1
      [] k = "saveext" -> 1
      [] OTHER -> IF k \in On THEN 1 ELSE 0

(* The words a setting is spelled with; the last is for every other value. *)
Spellings ==
    [saveext |-> <<<<1, ".sav">>, <<0, ".nds.sav">>>>,
     scrollSpeed |-> <<<<16, "slow">>, <<10, "medium">>, <<4, "fast">>>>,
     viewMode |-> <<<<0, "list">>, <<1, "icon">>, <<3, "small">>, <<2, "internal">>>>,
     slot2mode |-> <<<<1, "gba">>, <<2, "nds">>, <<0, "ask">>>>]
Names == {"uiName", "langDirectory"}

Spelled(k, value) ==
    IF k \in Names THEN Word(value)
    ELSE IF k \notin DOMAIN Spellings THEN Number(value)
    ELSE LET words == Spellings[k]
             n == FirstOf({i \in 1 .. Len(words) : words[i][1] = value}, Len(words))
         IN  Word(words[n][2])

(* What loadSettings makes of an item: bools and ranges as they are checked. *)
Bounds == [hbstrap |-> <<0, 2, 0>>, icon |-> <<0, 2, 2>>, fileSortMode |-> <<0, 3, 0>>,
           saveSlotOverride |-> <<-1, 3, -1>>]
Read(k, f) ==
    LET text == GetFileString(f, "system", k) IN
    IF text = Absent THEN Default(k)
    ELSE IF k \in Names THEN IF text.k = "word" THEN text.w ELSE ""
    ELSE IF k \in DOMAIN Spellings
    THEN LET words == Spellings[k]
             n == FirstOf({i \in 1 .. Len(words) : text = Word(words[i][2])}, Len(words))
         IN  words[n][1]
    ELSE LET n == AsNumber(text) IN
         IF k \in DOMAIN Bounds
         THEN IF Bounds[k][1] <= n /\ n <= Bounds[k][2] THEN n ELSE Bounds[k][3]
         ELSE n

Loaded(f) == [k \in Followed |-> Read(k, f)]

SafeValue == [fileListType |-> 0, showHiddenFiles |-> 0, viewMode |-> 2]
UpdateSafeMode(g) ==
    IF g["safemode"] = 0 THEN g
    ELSE [k \in Followed |-> IF k \in DOMAIN SafeValue THEN SafeValue[k] ELSE g[k]]

SavedUpTo(f, g, keys) ==
    LET ini[n \in 0 .. Len(SaveOrder)] ==
            IF n = 0 THEN f
            ELSE LET k == SaveOrder[n] IN
                 IF k \in keys THEN Put(ini[n - 1], "system", k, Spelled(k, g[k])) ELSE ini[n - 1]
    IN  ini
SavedWithoutSlot(f, g) ==     \* mutant: one setting is not written
    SavedUpTo(f, g, Followed \ {"saveSlotOverride"})[Len(SaveOrder)]
Saved(f, g) == SavedUpTo(f, g, Followed)[Len(SaveOrder)]

-----------------------------------------------------------------------------
(* The rows of the settings window (setParam) *)

LoaderRows ==
    (IF console.flashcart THEN <<"pico">> ELSE <<>>)
    \o <<"nightly", "dsonly", "boostcpu", "cardReadDma", "languageOverride">>
    \o (IF console.dsi THEN <<"phatCol", "dsiWareUnlaunch">> ELSE <<>>)
    \o <<"hbstrap">>
Tabs ==
    <<<<"langDirectory", "resethotkey", "slot2mode">>,
      <<"viewMode", "scrollSpeed", "icon", "Animation", "Show12hrClock", "showCovers",
        "playThemeMusic">>,
      <<"fileListType", "showHiddenFiles", "saveext", "savedir", "fileSortMode">>,
      LoaderRows,
      <<"ignorecrc16", "cheats", "saveSlotOverride", "autorunWithLastRom",
        "overridePluginDefaults">>>>

Button == "langDirectory"     \* addSettingButton
Texts(k) ==
    CASE k = "resethotkey" -> 7 [] k = "languageOverride" -> 9 [] k = "saveSlotOverride" -> 5
      [] k \in {"viewMode", "fileSortMode"} -> 4
      [] k \in {"slot2mode", "scrollSpeed", "icon", "fileListType", "cardReadDma", "hbstrap"} -> 3
      [] OTHER -> 2

Place(list, value, none) ==
    FirstOf({i \in 1 .. Len(list) : list[i] = value}, none + 1) - 1
Speeds == <<4, 10, 16>>

(* The text a value is shown with, and the value a text is read back as.   *)
ShownAs(k, value) ==
    LET index == CASE k = "scrollSpeed" -> Place(Speeds, value, 0)
                   [] k = "icon" -> Place(<<2, 1>>, value, 2)
                   [] k = "saveSlotOverride" -> value + 1
                   [] OTHER -> value
    IN  IF index \in 0 .. Texts(k) - 1 THEN index ELSE 0
ReadAs(k, index) ==
    CASE k = "scrollSpeed" -> Speeds[index + 1]
      [] k = "icon" -> <<2, 1, 0>>[index + 1]
      [] k = "saveSlotOverride" -> index - 1
      [] OTHER -> index

(* Where setParam looks for a setting after the window closed: it counted  *)
(* the rows of the loader tab and knows the others.                        *)
LoaderRow(k) ==
    LET f == IF console.flashcart THEN 1 ELSE 0
        d == IF console.dsi THEN 2 ELSE 0
    IN  CASE k = "pico" -> 1 [] k = "nightly" -> f + 1 [] k = "dsonly" -> f + 2
          [] k = "boostcpu" -> f + 3 [] k = "cardReadDma" -> f + 4
          [] k = "languageOverride" -> f + 5 [] k = "phatCol" -> f + 6
          [] k = "dsiWareUnlaunch" -> f + 7 [] k = "hbstrap" -> f + d + 6
FixedRows ==
    [resethotkey |-> <<1, 2>>, slot2mode |-> <<1, 3>>,
     viewMode |-> <<2, 1>>, scrollSpeed |-> <<2, 2>>, icon |-> <<2, 3>>,
     Animation |-> <<2, 4>>, Show12hrClock |-> <<2, 5>>, showCovers |-> <<2, 6>>,
     playThemeMusic |-> <<2, 7>>,
     fileListType |-> <<3, 1>>, showHiddenFiles |-> <<3, 2>>, saveext |-> <<3, 3>>,
     savedir |-> <<3, 4>>, fileSortMode |-> <<3, 5>>,
     ignorecrc16 |-> <<5, 1>>, cheats |-> <<5, 2>>, saveSlotOverride |-> <<5, 3>>,
     autorunWithLastRom |-> <<5, 4>>, overridePluginDefaults |-> <<5, 5>>]
LoaderKeys ==
    {"nightly", "dsonly", "boostcpu", "cardReadDma", "languageOverride", "hbstrap"}
    \cup (IF console.flashcart THEN {"pico"} ELSE {})
    \cup (IF console.dsi THEN {"phatCol", "dsiWareUnlaunch"} ELSE {})
RowKeys == (DOMAIN FixedRows \cup LoaderKeys) \cap Followed

(* setParam after OK *)
Apply ==
    [k \in Followed |->
        IF k \notin RowKeys THEN gs[k]
        ELSE ReadAs(k, IF k \in DOMAIN FixedRows
                       THEN GetItemSelection(Tabs, win, FixedRows[k][1], FixedRows[k][2])
                       ELSE GetItemSelection(Tabs, win, 4, LoaderRow(k)))]

View(g) == [k \in Followed |-> IF k \in RowKeys THEN ShownAs(k, g[k]) ELSE g[k]]

-----------------------------------------------------------------------------
(* What is installed.  The card's file system does not tell upper from     *)
(* lower case; the sections are those of uisettings.ini, an asset is       *)
(* missing, too large or fits.                                             *)

Same(a, b) == Fold[a] = Fold[b]
HasIn(list, name) == \E i \in 1 .. Len(list) : Same(list[i], name)

IsInstalledTheme(t) ==
    \E d \in DOMAIN ThemeDirs : Same(d, t) /\ "global settings" \in ThemeDirs[d].sections
InstalledThemes(cover) ==
    Inserted(NameOrder, {t \in DOMAIN ThemeDirs :
        IsInstalledTheme(t) /\ ("cover" \in ThemeDirs[t].sections) = cover})
IsValidTheme(t) ==
    /\ IsInstalledTheme(t)
    /\ \A d \in DOMAIN ThemeDirs : Same(d, t) => ThemeDirs[d].assets \subseteq {"fits"}

(* A directory of the name in use is listed even when it is gone. *)
InstalledLanguages(g) ==
    LET current == g["langDirectory"]
        added == IF current = "" \/ \E l \in LanguageDirs : Same(l, current) THEN {}
                 ELSE {current}
    IN  Inserted(NameOrder, LanguageDirs \cup added)

-----------------------------------------------------------------------------
NoBox == [list |-> [rows |-> 0, visible |-> Shown, first |-> 0, selected |-> 0],
          mark |-> "", open |-> {}]

(* The windows of languages and of themes.  The rows of the latter are two  *)
(* folders and what is in those that are open.                              *)
Folders == {"standard", "cover"}
In(folder) == InstalledThemes(folder = "cover")
ThemeRows(open) ==
    <<"standard">> \o (IF "standard" \in open THEN In("standard") ELSE <<>>)
    \o <<"cover">> \o (IF "cover" \in open THEN In("cover") ELSE <<>>)
BoxRows == IF screen = "themes" THEN ThemeRows(box.open) ELSE InstalledLanguages(gs)
RowAt == BoxRows[box.list.selected + 1]
RowNamed(rows, name) ==
    FirstOf({i \in 1 .. Len(rows) : rows[i] \notin Folders /\ Same(rows[i], name)}, 1) - 1

(* The row of the language is selected when it is inserted, before those   *)
(* that follow; the rows of the themes are all there when one is selected. *)
LanguageBox(g) ==
    LET rows == InstalledLanguages(g)
        row == RowNamed(rows, g["langDirectory"])
    IN  [list |-> [Picked(Filled(NoBox.list, row + 1), row) EXCEPT !.rows = Len(rows)],
         mark |-> g["langDirectory"], open |-> {}]
ThemeBox(g) ==
    LET open == {f \in Folders : HasIn(In(f), g["uiName"])}
        rows == ThemeRows(open)
    IN  [list |-> Picked(Filled(NoBox.list, Len(rows)), RowNamed(rows, g["uiName"])),
         mark |-> g["uiName"], open |-> open]

(* generateList with other folders open, and the folder's row selected *)
Reopened(folder, open) ==
    LET rows == ThemeRows(open)
        row == FirstOf({i \in 1 .. Len(rows) : rows[i] = folder}, 1) - 1
    IN  [box EXCEPT !.open = open, !.list = Picked(Filled(@, Len(rows)), row)]

(* The files are lines, installed things have names, the settings followed *)
(* are saved ones, those of the start among them.                          *)
ASSUME SettingsAssumption ==
    /\ {"uiName", "langDirectory", "safemode"} \subseteq Followed
    /\ Followed \subseteq {SaveOrder[n] : n \in 1 .. Len(SaveOrder)}
    /\ \A i \in Installed : DOMAIN i.card = {"ini", "there", "inits"}
    /\ \A f \in {FreshFile} \cup {i.card.ini : i \in Installed} : f \in Seq({f[n] : n \in DOMAIN f})
    /\ NameOrder \in Seq({NameOrder[i] : i \in DOMAIN NameOrder})
    /\ "" \notin LanguageDirs \cup DOMAIN ThemeDirs \cup {DefaultTheme}
    /\ Shown \in Nat \ {0}

-----------------------------------------------------------------------------
(* Saving: all of it, or the power goes off in the middle. *)

Rest == <<console, first>>

(* saveSettings with the members g, after which the screen is next.  In    *)
(* safe mode it writes the values safe mode put in the place of the user's.*)
SaveSettings(g, next, confirmed, changes) ==
    \/ /\ card' = [card EXCEPT !.ini = Saved(LoadIniFile(@), g), !.there = TRUE]
       /\ gs' = UpdateSafeMode(g) /\ screen' = next
       /\ chosen' = confirmed
       /\ spent' = [spent EXCEPT !.changes = @ + changes]
    \/ /\ spent.cuts < MaxCuts
       /\ spent' = [spent EXCEPT !.cuts = @ + 1, !.changes = @ + changes]
       /\ \E left \in CutFiles(Saved(LoadIniFile(card.ini), g)) :
             /\ card' = [card EXCEPT !.ini = left, !.there = TRUE]
             /\ chosen' = View(Loaded(left))
       /\ screen' = "off" /\ gs' = Loaded(<<>>)

PowerOff ==
    /\ screen \notin {"off", "noTheme"} /\ spent.starts < MaxStarts
    /\ screen' = "off" /\ gs' = Loaded(<<>>) /\ win' = NoWin /\ box' = NoBox
    /\ UNCHANGED <<Rest, card, chosen, spent>>

(* Safe mode is turned off with an editor: no window has it. *)
EditFile ==
    /\ screen = "off" /\ spent.edits = 0 /\ Loaded(card.ini)["safemode"] # 0
    /\ spent' = [spent EXCEPT !.edits = 1]
    /\ card' = [card EXCEPT !.ini = Put(@, "system", "safemode", Number(0))]
    /\ chosen' = [chosen EXCEPT !["safemode"] = 0]
    /\ UNCHANGED <<Rest, gs, screen, win, box>>

-----------------------------------------------------------------------------
(* main: the start *)

PowerOn ==
    /\ screen = "off" /\ spent.starts < MaxStarts
    /\ spent' = [spent EXCEPT !.starts = @ + 1]
    /\ screen' = "check" /\ first' = FALSE /\ gs' = Loaded(<<>>)
    /\ UNCHANGED <<console, card, win, box, chosen>>

(* checkInitIni: the next file of a new package is moved into its place.   *)
InitOrder == <<"settings", "pico", "rest">>
CheckInitIni ==
    /\ screen = "check" /\ card.inits # {}
    /\ LET next == InitOrder[FirstOf({i \in 1 .. 3 : InitOrder[i] \in card.inits}, 1)]
           taken == next # "rest" /\ card.there
       IN  /\ card' = IF taken \/ next = "rest" THEN [card EXCEPT !.inits = @ \ {next}]
                      ELSE [ini |-> FreshFile, there |-> TRUE, inits |-> card.inits \ {next}]
           /\ first' = (first \/ ~taken)
    /\ chosen' = View(Loaded(card'.ini))
    /\ UNCHANGED <<console, gs, screen, win, box, spent>>

LoadSettings ==
    /\ screen = "check" /\ card.inits = {}
    /\ gs' = UpdateSafeMode(Loaded(LoadIniFile(card.ini))) /\ screen' = "theme"
    /\ UNCHANGED <<Rest, card, win, box, chosen, spent>>

(* ensureValidTheme: the default theme, else the first of the valid ones;  *)
(* a new package asks for the language next.                               *)
Replacements ==
    IF ~Same(gs["uiName"], DefaultTheme) /\ IsValidTheme(DefaultTheme) THEN <<DefaultTheme>>
    ELSE Inserted(NameOrder, {t \in DOMAIN ThemeDirs : IsValidTheme(t) /\ ~Same(t, gs["uiName"])})
AfterStart == IF first THEN "language" ELSE "list"

(* What the user is left with when gs() is saved in safe mode.             *)
Confirmed == [k \in Followed |-> IF gs["safemode"] # 0 /\ k \in DOMAIN SafeValue
                                 THEN View(UpdateSafeMode(gs))[k] ELSE chosen[k]]

EnsureValidTheme ==
    /\ screen = "theme" /\ UNCHANGED <<Rest, win>>
    /\ box' = IF first THEN LanguageBox(gs) ELSE NoBox
    /\ IF IsValidTheme(gs["uiName"])
       THEN screen' = AfterStart /\ UNCHANGED <<card, gs, chosen, spent>>
       ELSE IF Replacements = <<>>
       THEN screen' = "noTheme" /\ UNCHANGED <<card, gs, chosen, spent>>
       ELSE SaveSettings([gs EXCEPT !["uiName"] = Replacements[1]], AfterStart,
                         [Confirmed EXCEPT !["uiName"] = Replacements[1]], 0)

-----------------------------------------------------------------------------
(* The settings window: showSettings, setParam and cSettingWnd.  Bound: no *)
(* window is opened after a save was cut off.                              *)

MayChange == /\ screen = "list" /\ gs["safemode"] = 0
             /\ spent.changes < MaxChanges /\ spent.cuts = 0

OpenSettings ==
    /\ MayChange
    /\ screen' = "settings"
    /\ win' = NewWindow(Tabs, [k \in RowKeys |-> ShownAs(k, gs[k])])
    /\ UNCHANGED <<Rest, card, gs, box, chosen, spent>>

InSettings == screen = "settings" /\ UNCHANGED <<Rest, card, gs, screen, box, chosen>>
MoveInSettings == InSettings /\ win' \in Moved(Tabs, win) /\ UNCHANGED spent
TurnSetting ==
    /\ InSettings /\ spent.changes < MaxChanges
    /\ win' \in Turned(Tabs, win, [k \in DOMAIN win.sel |-> Texts(k)])
    /\ spent' = [spent EXCEPT !.changes = @ + 1]

(* The pen on OK leaves no row focused; A on the language opens its window. *)
AskToSave == /\ screen = "settings" /\ screen' = "confirm"
             /\ \E focus \in {win.focus, 0} : win' = [win EXCEPT !.focus = focus]
             /\ UNCHANGED <<Rest, card, gs, box, chosen, spent>>
OpenLanguages ==
    /\ screen = "settings" /\ win.tab = 1 /\ win.focus = 1
    /\ screen' = "language" /\ box' = LanguageBox(gs)
    /\ UNCHANGED <<Rest, card, gs, win, chosen, spent>>
CloseSettings == /\ screen = "settings" /\ screen' = "list" /\ win' = NoWin
                 /\ UNCHANGED <<Rest, card, gs, box, chosen, spent>>

AnswerSave ==
    /\ screen = "confirm" /\ UNCHANGED <<Rest, box>>
    /\ \/ screen' = "settings" /\ UNCHANGED <<win, card, gs, chosen, spent>>
       \/ /\ win' = NoWin
          /\ SaveSettings(Apply, "list", [k \in Followed |-> IF k \in DOMAIN win.sel
                                                            THEN win.sel[k] ELSE chosen[k]], 0)

-----------------------------------------------------------------------------
(* The windows of languages and of themes *)

Choosing == screen \in {"language", "themes"}
OpenThemes ==
    /\ MayChange
    /\ screen' = "themes" /\ box' = ThemeBox(gs)
    /\ UNCHANGED <<Rest, card, gs, win, chosen, spent>>

Turns(b) == /\ Choosing /\ box' = b
            /\ UNCHANGED <<Rest, card, gs, screen, win, chosen, spent>>
PressRow == \E step \in {-1, 1} :
                Turns([box EXCEPT !.list = Picked(@, @.selected + step)])
(* A, or the pen on the selected row: a folder of themes opens or closes *)
SelectRow ==
    /\ Choosing /\ BoxRows # <<>>
    /\ IF screen = "language" \/ RowAt \notin Folders THEN Turns([box EXCEPT !.mark = RowAt])
       ELSE Turns(Reopened(RowAt, IF RowAt \in box.open THEN box.open \ {RowAt}
                                  ELSE box.open \cup {RowAt}))
FoldRow == /\ screen = "themes" /\ RowAt \in Folders
           /\ \E open \in {box.open \ {RowAt}, box.open \cup {RowAt}} :
                  Turns(Reopened(RowAt, open))

(* The window below: the settings, or the list when the start asked.       *)
Below == IF win = NoWin THEN "list" ELSE "settings"
CancelBox == /\ Choosing /\ screen' = Below /\ box' = NoBox /\ first' = FALSE
             /\ UNCHANGED <<console, card, gs, win, chosen, spent>>

(* X: the language of the selected row, the theme that is marked.  The one *)
(* in use closes the window; a new package is not asked to restart.        *)
ConfirmLanguage ==
    /\ screen = "language"
    /\ LET name == IF BoxRows = <<>> THEN box.mark ELSE RowAt
       IN  IF first \/ ~Same(name, gs["langDirectory"])
           THEN screen' = "restartLanguage" /\ box' = [box EXCEPT !.mark = name]
           ELSE screen' = Below /\ box' = NoBox
    /\ UNCHANGED <<Rest, card, gs, win, chosen, spent>>
ConfirmTheme ==
    /\ screen = "themes"
    /\ IF box.mark # "" /\ ~Same(box.mark, gs["uiName"])
       THEN screen' = "restartTheme" /\ UNCHANGED box
       ELSE screen' = "list" /\ box' = NoBox
    /\ UNCHANGED <<Rest, card, gs, win, chosen, spent>>
DeclineRestart ==
    /\ screen = "restartTheme" \/ (screen = "restartLanguage" /\ ~first)
    /\ screen' = Below /\ box' = NoBox
    /\ UNCHANGED <<Rest, card, gs, win, chosen, spent>>

(* The menu is started anew, or goes on with the new name in gs().         *)
Restart ==
    /\ screen \in {"restartLanguage", "restartTheme"}
    /\ first \/ spent.changes < MaxChanges
    /\ LET k == IF screen = "restartTheme" THEN "uiName" ELSE "langDirectory"
       IN  \E next \in {Below} \cup (IF spent.starts < MaxStarts THEN {"off"} ELSE {}) :
              /\ SaveSettings([gs EXCEPT ![k] = box.mark], next,
                              [Confirmed EXCEPT ![k] = box.mark], IF first THEN 0 ELSE 1)
              /\ win' = IF screen' = "off" THEN NoWin ELSE win
    /\ box' = NoBox /\ first' = FALSE /\ UNCHANGED console

-----------------------------------------------------------------------------
NewPackage == [ini |-> <<>>, there |-> FALSE, inits |-> {"settings", "pico", "rest"}]
UsedCard(f) == [ini |-> f, there |-> TRUE, inits |-> {}]
NoCuts == [starts |-> 0, changes |-> 0, cuts |-> 0, edits |-> 0]
Init ==
    /\ \E i \in Installed : console = i.console /\ card = i.card
    /\ gs = Loaded(<<>>) /\ screen = "off" /\ first = FALSE
    /\ win = NoWin /\ box = NoBox
    /\ chosen = View(Loaded(LoadIniFile(card.ini))) /\ spent = NoCuts

Next ==
    \/ PowerOn \/ CheckInitIni \/ LoadSettings \/ EnsureValidTheme \/ PowerOff \/ EditFile
    \/ OpenSettings \/ MoveInSettings \/ TurnSetting \/ AskToSave
    \/ OpenLanguages \/ CloseSettings \/ AnswerSave
    \/ OpenThemes \/ PressRow \/ SelectRow \/ FoldRow \/ CancelBox
    \/ ConfirmLanguage \/ ConfirmTheme \/ DeclineRestart \/ Restart

Spec == Init /\ [][Next]_vars

-----------------------------------------------------------------------------
(* What the user confirmed last, by the texts on the screen, is what the   *)
(* file gives at the next start and what gs() is in the menu, whatever the *)
(* console has rows for and whichever window it was confirmed in (safe     *)
(* mode only covers its three values).  A save cut off by the power is     *)
(* what it left.                                                           *)
SettingsKept ==
    screen \in {"off", "list"} =>
        LET found == Loaded(LoadIniFile(card.ini)) IN
        /\ View(found) = chosen
        /\ screen = "list" => gs = UpdateSafeMode(found)

(* Whatever keys and pen did, and whichever tabs were left and entered     *)
(* again, a row that is focused is on the screen; so is the selected row   *)
(* of a list window.                                                       *)
RowShown ==
    /\ screen = "settings" => FocusShown(Tabs, win)
    /\ Choosing => SelectedIsShown(box.list) /\ box.list.rows = Len(BoxRows)
=============================================================================
