------------------------------- MODULE RomInfo -------------------------------
(***************************************************************************)
(* The settings and the cheats a game has of its own (rominfownd.cpp,      *)
(* cheatwnd.cpp), beside the settings of the menu.  A game's settings are  *)
(* in five places: the list on the card, the list in memory, the row of    *)
(* the file, which reads them once, the copy the information window works  *)
(* on and the rows of its window of settings.  Several files of a folder   *)
(* may be the same game, and rows do not hear of each other.  A launch     *)
(* that needs another size of save writes the list too (romlauncher.cpp).  *)
(***************************************************************************)
EXTENDS Settings, CustomSaves, CheatTree

(* What loadDSRomInfo (dsrom.cpp) takes a file for.  A file is a record of *)
(* what it looks at: whether 512 bytes could be read, the form, the        *)
(* checksum of the header, the unit code, how the ARM9 program starts,     *)
(* where the ARM7 program goes and the names some headers have.            *)
RomFile == [read : BOOLEAN, form : {"nds", "ndz"}, crc : BOOLEAN, unit : 0 .. 3,
            start : {"sdk", "half", "crt0", "other"},   \* half: only as the SDK begins
            arm7 : {"low", "high", "higher"},           \* below, from 37F0000, from 37F8000
            named : {"HNA", "####", "NMP4BOOT", "other"},
            oldSizes : BOOLEAN]                         \* of a title known to be old

IsRetail(f) ==
    \/ f.start = "sdk"
    \/ f.start \in {"crt0", "other"} /\ f.named = "HNA"    \* modcrypted
(* Homebrew that needs the DLDI driver of the card patched into it *)
NeedsDldi(f) ==
    IF f.start = "crt0" THEN f.arm7 # "low" /\ f.oldSizes
    ELSE f.unit = 0 /\ (f.named = "NMP4BOOT" \/ f.arm7 # "low")

NotDsRom == [dsRom |-> FALSE, homebrew |-> FALSE, modern |-> FALSE, dsiWare |-> FALSE,
             ndz |-> FALSE]
KindOf(f) ==
    IF ~f.read THEN NotDsRom
    ELSE IF f.form = "ndz" THEN [NotDsRom EXCEPT !.dsRom = TRUE, !.ndz = TRUE]
    ELSE IF ~f.crc THEN [NotDsRom EXCEPT !.dsiWare = (f.unit = 3)]
    ELSE [dsRom |-> TRUE,
          homebrew |-> ~IsRetail(f) \/ f.arm7 = "higher" \/ f.named = "####",
          modern |-> ~IsRetail(f) /\ ~NeedsDldi(f),
          dsiWare |-> f.unit = 3,
          ndz |-> FALSE]

-----------------------------------------------------------------------------
CONSTANTS RomFiles,      \* file -> [game, onFat, header] of the folder on the screen
          PrefillGame,   \* game -> the type of save its launch insists on, or UNKNOWN
          UsedList,      \* the list of settings of a card in use; a new one has none
          FirstBytes,    \* game -> the bytes of its codes in usrcheat.dat
          RowsOfCheats,  \* rows of the cheat window on the screen
          MaxGames       \* bound: windows of games opened

ASSUME RomInfoAssumption ==
    /\ DOMAIN RomFiles # {} /\ \A f \in DOMAIN RomFiles : RomFiles[f].game \in Games
    /\ RomList \in [Games -> Types] /\ PrefillGame \in [Games -> Types]
    /\ UsedList \in SavedLists /\ RowsOfCheats \in Nat \ {0}
    /\ \A g \in Games : HasCheats(g) =>
          SearchCheatData(g).pos \in DOMAIN CheatRecords /\ g \in DOMAIN FirstBytes

VARIABLES store,   \* [list, cheats]: the files on the card
          rom,     \* [list, rows, at, copy, cheats]: in memory
          told,    \* [shown, used]: what the user last confirmed of each game
          used     \* windows of games opened

menuVars == <<vars, store, rom, told, used>>
Menu == <<console, card, first, box, chosen>>

Kind(f) == KindOf(RomFiles[f].header)
GameOf(f) == RomFiles[f].game
Unread == [game |-> "none"]
NoCheats == [list |-> [rows |-> 0, visible |-> RowsOfCheats, first |-> 0, selected |-> 0],
             open |-> {}, sel |-> {}, from |-> "list"]
NoRom == [list |-> <<>>, rows |-> [f \in DOMAIN RomFiles |-> Unread],
          at |-> CHOOSE f \in DOMAIN RomFiles : TRUE, copy |-> Unread, cheats |-> NoCheats]

LookedUp(list, f) == UpdateSaveInfoByInfo(list, GameOf(f))
RowOf(f) == IF rom.rows[f] = Unread THEN LookedUp(rom.list, f) ELSE rom.rows[f]

-----------------------------------------------------------------------------
(* The window of a game's settings (pressSaveType) *)

LoaderFlags == <<"nightly", "dsmode", "boostcpu", "cardreaddma">>
GameKeys == {"type", "loader", "booter", "cheat", "slot", "icon"}
            \cup {LoaderFlags[i] : i \in 1 .. Len(LoaderFlags)}
ShownOf(info, k) ==
    CASE k = "type" -> SaveTypeToDisplaySaveType(info.type)
      [] k = "slot" -> info.slot
      [] k = "icon" -> IF info.icon < 3 THEN info.icon ELSE 0    \* addSettingItem
      [] k = "booter" -> GetDsiWareBooter(info)
      [] OTHER -> GetFlag(info, k)
ShownWith(info) == [k \in GameKeys |-> ShownOf(info, k)]

GameTabs(f, info) ==
    LET loader == console.flashcart /\ (~Kind(f).dsiWare \/ RomFiles[f].onFat)
        flags == IF GetFlag(info, "loader") = 2 THEN gs["pico"] = 0
                 ELSE GetFlag(info, "loader") = 1
    IN  << <<"type">> \o (IF loader THEN <<"loader">> ELSE <<>>)
           \o (IF flags THEN LoaderFlags ELSE <<>>)
           \o (IF Kind(f).dsiWare THEN <<"booter">> ELSE <<>>),
           <<"cheat", "slot", "icon">> >>
GameTexts(k) == CASE k = "type" -> 12 [] k = "slot" -> 4 [] OTHER -> 3
Rows(tabs) == UNION {{tabs[t][i] : i \in 1 .. Len(tabs[t])} : t \in DOMAIN tabs}

(* What OK makes of the copy: a row that is not there is left to the menu. *)
ApplyToCopy ==
    LET rows == Rows(GameTabs(rom.at, rom.copy))
        value == [f \in Flags |-> IF f \in {"downloadplay", "softreset", "sdsave"} THEN 0
                                  ELSE IF f \in rows THEN win.sel[f] ELSE 2]
        typed == [rom.copy EXCEPT !.type = DisplaySaveTypeToSaveType(win.sel["type"]),
                                  !.booter = IF "booter" \in rows THEN win.sel["booter"] ELSE @]
    IN  SetFlags(typed, value, win.sel["slot"], win.sel["icon"])
AfterOk ==
    [k \in GameKeys |->
        IF k \in DOMAIN win.sel THEN win.sel[k]
        ELSE IF k = "booter" THEN ShownOf(rom.copy, k) ELSE 2]

(* Something is written, or the power goes off before all of it was. *)
Off == screen' = "off" /\ gs' = Loaded(<<>>) /\ rom' = NoRom
Cut == spent.cuts < MaxCuts /\ spent' = [spent EXCEPT !.cuts = @ + 1] /\ Off

(* updateCustomSaveList, after which the screen is next *)
UpdateList(info, shown, next) ==
    LET list == UpdateCustomSaveList(rom.list, info) IN
    \/ /\ store' = [store EXCEPT !.list = ListFile(list)]
       /\ told' = [told EXCEPT !.shown[info.game] = shown]
       /\ \/ /\ rom' = [rom EXCEPT !.list = list, !.copy = IF next = "info" THEN info ELSE @]
             /\ screen' = next /\ UNCHANGED gs
          \/ next = "list" /\ Off
       /\ UNCHANGED spent
    \/ /\ Cut
       /\ \E left \in CutLists(list) :
             /\ store' = [store EXCEPT !.list = left]
             /\ told' = [told EXCEPT !.shown = [g \in Games |->
                            ShownWith(UpdateSaveInfoByInfo(LoadSaveList(left, <<>>), g))]]

-----------------------------------------------------------------------------
(* The list of files and the information window.  Bound: the windows of    *)
(* games open in the first session, and those of the menu while no row of  *)
(* the list is read yet.                                                   *)

InMenu == UNCHANGED <<Menu, gs, win, spent, store, told>>
MayOpen == /\ screen = "list" /\ gs["safemode"] = 0 /\ used < MaxGames
           /\ spent = [NoCuts EXCEPT !.starts = 1]

(* The rows on the screen are read when they are first drawn. *)
DrawRows == /\ MayOpen /\ rom' = [rom EXCEPT !.rows = [f \in DOMAIN RomFiles |-> RowOf(f)]]
            /\ UNCHANGED <<screen, used>> /\ InMenu
EnterDir == /\ MayOpen /\ rom' = [rom EXCEPT !.rows = NoRom.rows]
            /\ UNCHANGED <<screen, used>> /\ InMenu

ShowFileInfo(f) ==
    /\ MayOpen /\ screen' = "info"
    /\ rom' = [rom EXCEPT !.at = f, !.copy = RowOf(f)]
    /\ UNCHANGED used /\ InMenu
CloseWithoutRow ==                \* mutant: the row is not told
    /\ screen = "info" /\ screen' = "list"
    /\ rom' = [rom EXCEPT !.copy = Unread]
    /\ UNCHANGED used /\ InMenu
(* setRomInfo: only the row of a ROM takes the copy back *)
CloseFileInfo ==
    /\ screen = "info" /\ screen' = "list"
    /\ rom' = [rom EXCEPT !.rows[rom.at] = IF Kind(rom.at).dsRom THEN rom.copy ELSE RowOf(rom.at),
                          !.copy = Unread]
    /\ UNCHANGED used /\ InMenu

PressSaveType ==
    /\ screen = "info" /\ Kind(rom.at).dsRom /\ (Kind(rom.at).homebrew => Kind(rom.at).dsiWare)
    /\ screen' = "game" /\ used < MaxGames /\ used' = used + 1
    /\ LET tabs == GameTabs(rom.at, rom.copy)
       IN  win' = NewWindow(tabs, [k \in Rows(tabs) |-> ShownOf(rom.copy, k)])
    /\ UNCHANGED <<Menu, gs, spent, store, told, rom>>
(* The tabs, the rows and the keys of the window are those of Settings; a  *)
(* row is turned once.                                                     *)
TurnGame ==
    /\ screen = "game"
    /\ win.sel = [k \in DOMAIN win.sel |-> ShownOf(rom.copy, k)]
    /\ \E k \in DOMAIN win.sel, step \in {-1, 1} : win' \in Turn(win, k, step, GameTexts(k))
    /\ UNCHANGED <<Menu, gs, screen, spent, store, told, rom, used>>
CancelGame == /\ screen = "game" /\ screen' = "info" /\ win' = NoWin
              /\ UNCHANGED <<Menu, gs, spent, store, told, rom, used>>
ConfirmGame == /\ screen = "game" /\ win' = NoWin
               /\ UpdateList(ApplyToCopy, AfterOk, "info")
               /\ UNCHANGED <<Menu, used>>

(* launchRom: the save has the type a few games insist on, whatever was    *)
(* chosen; the row is not told.  The launch goes on, or comes back.        *)
LaunchGame(f) ==
    /\ MayOpen /\ Kind(f).dsRom /\ ~Kind(f).homebrew /\ ~Kind(f).dsiWare
    /\ PrefillGame[GameOf(f)] \notin {"UNKNOWN", RowOf(f).type}
    /\ LET info == [RowOf(f) EXCEPT !.type = PrefillGame[GameOf(f)]]
       IN  UpdateList(info, ShownWith(info), "list")
    /\ used' = used + 1
    /\ UNCHANGED <<Menu, win>>

-----------------------------------------------------------------------------
(* The cheat window *)

Rec == Record(GameOf(rom.at))
CheatRows == RowsShown(Rec, rom.cheats.open)
CheatAt == CheatRows[rom.cheats.list.selected + 1]

ShowCheats(f, from) ==
    /\ Kind(f).dsRom /\ ~Kind(f).homebrew /\ ~Kind(f).ndz /\ HasCheats(GameOf(f))
    /\ screen' = "cheats"
    /\ LET rec == Record(GameOf(f)) IN
       rom' = [rom EXCEPT !.at = f,
                          !.cheats = [NoCheats EXCEPT
                              !.list = Filled(@, Len(RowsShown(rec, {}))), !.from = from,
                              !.sel = Parsed(rec, store.cheats[GameOf(f)])]]
    /\ InMenu
PressCheats ==
    /\ used = 0 /\ used' = 1        \* bound: the cheats are changed first
    /\ \/ screen = "info" /\ ShowCheats(rom.at, "info")
       \/ MayOpen /\ \E f \in DOMAIN RomFiles : ShowCheats(f, "list")

InCheats(cheats) == /\ screen = "cheats" /\ rom' = [rom EXCEPT !.cheats = cheats]
                    /\ UNCHANGED <<screen, used>> /\ InMenu
PickCheat(row) == InCheats([rom.cheats EXCEPT !.list = Picked(@, row)])
MoveInCheats == LET at == rom.cheats.list.selected IN
                \/ PickCheat(at - 1) \/ PickCheat(at + 1)
                \/ PickCheat(FolderAfter(Rec, CheatRows, at))
                \/ at > 0 /\ PickCheat(FolderBefore(Rec, CheatRows, at))
(* On the first row LEFT counts down from the largest number: what it      *)
(* finds before the rows may look like a folder, or stop the menu.         *)
LeftOfFirst == /\ screen = "cheats" /\ rom.cheats.list.selected = 0
               /\ \/ PickCheat(0)
                  \/ screen' = "lost" /\ UNCHANGED <<rom, used>> /\ InMenu
SelectCheat ==
    LET c == rom.cheats IN
    /\ screen = "cheats" /\ CheatRows # <<>>
    /\ IF ~IsFolder(Rec, CheatAt) THEN InCheats([c EXCEPT !.sel = Toggled(Rec, @, CheatAt)])
       ELSE LET open == IF CheatAt \in c.open THEN c.open \ {CheatAt} ELSE c.open \cup {CheatAt}
                filled == [Filled(c.list, Len(RowsShown(Rec, open))) EXCEPT !.first = c.list.first]
            IN  InCheats([c EXCEPT !.open = open, !.list = Picked(filled, c.list.selected)])
SelectNothing ==                  \* no code has data: _indexes is read past its end
    /\ screen = "cheats" /\ CheatRows = <<>>
    /\ screen' = "lost" /\ UNCHANGED <<rom, used>> /\ InMenu
DeselectAll == screen = "cheats" /\ InCheats([rom.cheats EXCEPT !.sel = {}])
CancelCheats == /\ screen = "cheats" /\ screen' = rom.cheats.from
                /\ rom' = [rom EXCEPT !.cheats = NoCheats]
                /\ UNCHANGED used /\ InMenu
(* onGenerate: item by item, or up to where there was power *)
GenerateCheats ==
    LET g == GameOf(rom.at)
        bytes(n) == Written(Rec, store.cheats[g], rom.cheats.sel, n)
    IN
    /\ screen = "cheats" /\ UNCHANGED <<Menu, win, used>>
    /\ \/ /\ store' = [store EXCEPT !.cheats[g] = bytes(Len(Rec))]
          /\ told' = [told EXCEPT !.used[g] = rom.cheats.sel]
          /\ rom' = [rom EXCEPT !.cheats = NoCheats] /\ screen' = rom.cheats.from
          /\ UNCHANGED <<gs, spent>>
       \/ /\ Cut
          /\ \E n \in 0 .. Len(Rec) :
                /\ store' = [store EXCEPT !.cheats[g] = bytes(n)]
                /\ told' = [told EXCEPT !.used[g] = Parsed(Rec, bytes(n))]

-----------------------------------------------------------------------------
(* The power goes off in the windows above as anywhere; gs() goes with it. *)
BesideMenu ==
    /\ screen' \in {"settings", "themes"} => used = 0 /\ rom.rows = NoRom.rows
    /\ rom' = IF screen' = "off" THEN NoRom
              ELSE IF screen = "check" /\ screen' = "theme"
              THEN [rom EXCEPT !.list = LoadSaveList(store.list, @)] ELSE rom
    /\ UNCHANGED <<store, told, used>>

MenuInit ==
    /\ Init /\ used = 0 /\ rom = NoRom
    /\ LET list == IF card.there THEN UsedList ELSE NoList IN
          /\ store = [list |-> list, cheats |-> FirstBytes]
          /\ told = [shown |-> [g \in Games |->
                        ShownWith(UpdateSaveInfoByInfo(LoadSaveList(list, <<>>), g))],
                     used |-> [g \in DOMAIN FirstBytes |-> Parsed(Record(g), FirstBytes[g])]]
MenuNext ==
    \/ Next /\ BesideMenu
    \/ DrawRows \/ EnterDir \/ CloseFileInfo \/ PressSaveType \/ TurnGame
    \/ CancelGame \/ ConfirmGame
    \/ \E f \in DOMAIN RomFiles : ShowFileInfo(f) \/ LaunchGame(f)
    \/ PressCheats \/ MoveInCheats \/ LeftOfFirst \/ SelectCheat \/ SelectNothing
    \/ DeselectAll \/ CancelCheats \/ GenerateCheats
MenuSpec == MenuInit /\ [][MenuNext]_menuVars

-----------------------------------------------------------------------------
(* What the window of a game's settings showed when OK was last pressed is *)
(* what the next start finds on the card, and what the list in memory says *)
(* while the menu runs, whichever rows the window had.  A launch that      *)
(* changes the type writes with it what its row remembered, and a list cut *)
(* off by the power is what it left.                                       *)
GamesKept ==
    screen \in {"off", "list"} =>
        LET found == LoadSaveList(store.list, <<>>) IN
        /\ \A g \in Games : ShownWith(UpdateSaveInfoByInfo(found, g)) = told.shown[g]
        /\ screen = "list" => rom.list = found

(* The row of a file, which a launch and the next window go by, is what    *)
(* the list says of its game (the type of the save aside, see LaunchGame), *)
(* or it is another file of the folder that is the same game whose row is. *)
UpToDate(f) == [rom.rows[f] EXCEPT !.type = "AUTO"] = [LookedUp(rom.list, f) EXCEPT !.type = "AUTO"]
RowsFresh ==
    screen = "list" =>
        \A f \in DOMAIN RomFiles : Kind(f).dsRom /\ rom.rows[f] # Unread =>
            \E h \in DOMAIN RomFiles :
                GameOf(h) = GameOf(f) /\ rom.rows[h] # Unread /\ UpToDate(h)

(* The codes marked when the cheats of a game were last confirmed are the  *)
(* codes found in use from then on, in folders of which one may be used    *)
(* too; only power lost on the way leaves some as they were.               *)
CheatsKept ==
    screen \in {"off", "list"} =>
        \A g \in DOMAIN told.used : Parsed(Record(g), store.cheats[g]) = told.used[g]

=============================================================================
