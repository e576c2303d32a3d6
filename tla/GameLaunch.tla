----------------------------- MODULE GameLaunch -----------------------------
(***************************************************************************)
(* Starting a game from the menu: the save file, the "last loaded" record, *)
(* the recently played list, the music, the launcher (nds-bootstrap, its   *)
(* homebrew build, Pico-Loader or the built-in homebrew loader), the INI   *)
(* and the cheat file nds-bootstrap reads when it starts, and the way back *)
(* to the menu when any of this fails (arm9/source/romlauncher.cpp,        *)
(* launcher/, mainwnd.cpp, savemngr.cpp, recent.cpp, main.cpp).            *)
(*                                                                         *)
(* The card keeps what was written; power may be lost between any two      *)
(* steps, and a step that writes a file may leave it truncated.            *)
(***************************************************************************)
EXTENDS Naturals, Sequences, FiniteSets

CONSTANTS Games,        \* ROM files of DS games
          Homebrews,    \* homebrew .nds files
          Documents,    \* files a plugin opens with a homebrew
          SaveDirs,     \* values gs().saveDir takes: BOOLEAN, or one of them
          DonorKeys,    \* kDonorKeys
          Sdk50Key, Sdk5Key,            \* the two keys the console discovers
          HandPaths,    \* donors entered in the INI by hand: "sd", "nand"
          Consoles,     \* consoles: [dsi, is3DS, restricted: BOOLEAN]
          MaxRecent,    \* 10
          NoRom, NoSave, NoIni, NoPath, NoCheats

ASSUME LaunchAssumption ==
    /\ NoRom \notin Games \cup Homebrews \cup Documents
    /\ Games \cap Homebrews = {}
    /\ SaveDirs \subseteq BOOLEAN /\ HandPaths \subseteq {"sd", "nand"}
    /\ {Sdk50Key, Sdk5Key} \subseteq DonorKeys
    /\ Consoles \subseteq [dsi: BOOLEAN, is3DS: BOOLEAN, restricted: BOOLEAN]
    /\ MaxRecent \in Nat \ {0}
    /\ NoCheats \notin Games
    /\ NoSave \notin [dir: SaveDirs, rom: Games]

VARIABLES console,      \* the hardware: never changes
          writable,     \* the card can be written to
          files,        \* donor paths under which a file exists
          ini,          \* nds-bootstrap.ini
          cheatData,    \* whose codes cheatData.bin holds
          saves,        \* the save files
          lastInfo,     \* lastsave.ini: the game loaded last
          recent,       \* recent.ini: the recently played list
          main,         \* where the main loop is
          job,          \* what is being launched, how and for whom
          failedAt,     \* the step the last launch failed at
          progress,     \* entries of progressWnd on the window stack
          music,        \* themeMusic() plays
          nandMounted   \* mountNand's static flag

disk == <<ini, cheatData, saves, lastInfo, recent>>
card == <<console, writable, files>>
vars == <<card, disk, main, job, failedAt, progress, music, nandMounted>>

-----------------------------------------------------------------------------
Programs == Games \cup Homebrews

\* generateSaveName: beside the ROM or in its saves/ folder; autoLaunchRom
\* passes no path, and from "" the name is just ".sav".
DotSave == [dir |-> TRUE, rom |-> NoRom]
SaveFiles == [dir: SaveDirs, rom: Games] \cup {DotSave}
Contents == {"absent", "short", "full", "played"}
Ready(f) == saves[f] \in {"full", "played"}

NandPaths == {"nand", "found"}       \* entered by hand; an installed title
Paths == {"sd"} \cup NandPaths
NoDonors == [k \in DonorKeys |-> NoPath]
Inis == [rom: Programs \cup {NoRom}, sav: SaveFiles \cup {NoSave},
         donors: [DonorKeys -> Paths \cup {NoPath}]]
EmptyIni == [rom |-> NoRom, sav |-> NoSave, donors |-> NoDonors]
ASSUME AbsenceAssumption == NoPath \notin Paths /\ NoIni \notin Inis
Donors(i) == IF i = NoIni THEN NoDonors ELSE i.donors

Jobs == [rom: Programs \cup {NoRom},
         listed: Games \cup Homebrews \cup Documents \cup {NoRom},
         caller: {"list", "auto", "plugin"},
         loader: {"bootstrap", "hb", "pico", "homebrew"},
         sav: SaveFiles \cup {NoSave},      \* SAV_PATH
         made: SaveFiles \cup {NoSave}]     \* the file initializeSaveFile makes
NoJob == [rom |-> NoRom, listed |-> NoRom, caller |-> "list",
          loader |-> "homebrew", sav |-> NoSave, made |-> NoSave]

TypeOK ==
    /\ console \in Consoles /\ writable \in BOOLEAN /\ files \subseteq Paths
    /\ ini \in Inis \cup {NoIni}
    /\ cheatData \in Games \cup {NoCheats}
    /\ saves \in [SaveFiles -> Contents]
    /\ lastInfo \in Programs \cup {NoRom}
    /\ recent \in Seq(Games \cup Documents)
    /\ main \in {"off", "donors", "resume", "autorun", "menu", "save", "record",
                 "recent", "loader", "cheats", "run", "failed", "game"}
    /\ job \in Jobs
    /\ failedAt \in {"none", "save", "loader", "ini", "cheats", "run"}
    /\ progress \in 0 .. 2
    /\ music \in BOOLEAN /\ nandMounted \in BOOLEAN

-----------------------------------------------------------------------------
\* CIniFile::SaveIniFile: fopen("w") fails, or empties the file; fprintf and
\* fclose are not checked, so the file may stay empty and the result be true.
Saved(old, new, empty) == IF writable THEN {old, new, empty} ELSE {old}

\* remove(), its result not looked at.
Removed(old, none) == IF writable THEN none ELSE old

\* cProgressWnd::hide pops the window stack if it is there at all.
Popped(n) == IF n = 0 THEN 0 ELSE n - 1

Fail(step) == main' = "failed" /\ failedAt' = step

-----------------------------------------------------------------------------
(* configureNdsBootstrapDonors, reading prev; restricted is restrictedDsi,  *)
(* mounts whether NAND can be mounted now, found which donors are installed. *)

NeedNand(prev, restricted) ==
    \/ \E k \in DonorKeys : prev[k] \in NandPaths
    \/ restricted /\ \E k \in {Sdk50Key, Sdk5Key} : prev[k] # "sd" \/ "sd" \notin files

MountedBy(prev, restricted, mounts) ==
    \/ nandMounted
    \/ console.dsi /\ NeedNand(prev, restricted) /\ mounts

\* mutant: an unreachable path is treated like a missing file
KeptUnlessMissing(path, mounted) ==
    IF path \in files /\ (path \in NandPaths => mounted) THEN path ELSE NoPath
Kept(path, mounted) ==
    IF \/ path \in files /\ (path \in NandPaths => mounted)
       \/ path \in NandPaths /\ console.dsi /\ ~mounted
    THEN path ELSE NoPath

Configured(prev, restricted, mounts, found) ==
    LET mounted == MountedBy(prev, restricted, mounts)
        kept == [k \in DonorKeys |-> Kept(prev[k], mounted)]
        search == restricted /\ (NeedNand(prev, restricted) => mounted)
    IN  [k \in DonorKeys |-> IF search /\ kept[k] = NoPath /\ k \in found
                             THEN "found" ELSE kept[k]]

Restricted(allowAutoDiscovery) ==
    allowAutoDiscovery /\ console.dsi /\ ~console.is3DS /\ console.restricted

-----------------------------------------------------------------------------
(* cRecent::AddToRecent: the first occurrence of f is erased, f inserted in  *)
(* front (the entries above the old place move down by one) and the list     *)
(* cut to MaxRecent.                                                         *)

Position(items, f) ==
    IF \E i \in DOMAIN items : items[i] = f
    THEN CHOOSE i \in DOMAIN items : items[i] = f /\ \A j \in 1 .. i - 1 : items[j] # f
    ELSE Len(items) + 1

Lesser(a, b) == IF a < b THEN a ELSE b
Larger(a, b) == IF a < b THEN b ELSE a

Inserted(items, f) ==
    LET p == Position(items, f)
    IN  [j \in 1 .. Lesser(MaxRecent, Larger(Len(items), p)) |->
            IF j = 1 THEN f ELSE IF j <= p THEN items[j - 1] ELSE items[j]]

-----------------------------------------------------------------------------
Init ==
    /\ console \in Consoles /\ writable = TRUE /\ files = {"found"}
    /\ ini = NoIni /\ cheatData = NoCheats
    /\ saves = [f \in SaveFiles |-> "absent"]
    /\ lastInfo = NoRom /\ recent = <<>>
    /\ main = "off" /\ job = NoJob /\ failedAt = "none"
    /\ progress = 0 /\ music = FALSE /\ nandMounted = FALSE

\* The card in a reader: a donor entered in the INI, its file added or
\* deleted, the lock switch moved.
EditCard ==
    /\ main = "off"
    /\ \/ \E k \in DonorKeys, p \in HandPaths :
             ini' = [(IF ini = NoIni THEN EmptyIni ELSE ini) EXCEPT !.donors[k] = p]
          /\ UNCHANGED <<writable, files>>
       \/ \E p \in HandPaths :
             files' = (files \ {p}) \cup ({p} \ files)
          /\ UNCHANGED <<writable, ini>>
       \/ writable' = ~writable /\ UNCHANGED <<files, ini>>
    /\ UNCHANGED <<console, cheatData, saves, lastInfo, recent, main, job,
                   failedAt, progress, music, nandMounted>>

\* Switched off, reset, crashed or back from a game.
PowerOff ==
    /\ main # "off"
    /\ main' = "off" /\ job' = NoJob /\ failedAt' = "none"
    /\ progress' = 0 /\ music' = FALSE /\ nandMounted' = FALSE
    /\ UNCHANGED <<card, disk>>

PowerOn ==
    /\ main = "off" /\ main' = "donors"
    /\ UNCHANGED <<card, disk, job, failedAt, progress, music, nandMounted>>

\* initializeNdsBootstrapDonors
InitDonors ==
    /\ main = "donors" /\ main' = "resume"
    /\ IF Restricted(TRUE)
       THEN \E mounts \in BOOLEAN, found \in SUBSET {Sdk50Key, Sdk5Key} :
            LET donors == Configured(Donors(ini), TRUE, mounts, found)
                new == [(IF ini = NoIni THEN EmptyIni ELSE ini) EXCEPT !.donors = donors]
            IN  /\ nandMounted' = MountedBy(Donors(ini), TRUE, mounts)
                /\ ini' \in IF donors = Donors(ini) THEN {ini} ELSE Saved(ini, new, EmptyIni)
       ELSE UNCHANGED <<ini, nandMounted>>
    /\ UNCHANGED <<card, cheatData, saves, lastInfo, recent, job, failedAt, progress, music>>

\* main: the last game is read, then clearLastInfo.
ReadLastInfo ==
    /\ main = "resume" /\ main' = "autorun"
    /\ job' = [NoJob EXCEPT !.rom = lastInfo, !.listed = lastInfo, !.caller = "auto"]
    /\ lastInfo' \in Saved(lastInfo, NoRom, NoRom)
    /\ UNCHANGED <<card, ini, cheatData, saves, recent, failedAt, progress, music, nandMounted>>

-----------------------------------------------------------------------------
\* launchRom up to its first effect; homebrew has no save file.
Launch(rom, listed, caller, loaders) ==
    \E loader \in loaders, dir \in SaveDirs :
       LET sav == [dir |-> dir, rom |-> rom]
           game == rom \in Games
       IN  job' = [rom |-> rom, listed |-> listed, caller |-> caller, loader |-> loader,
                   sav |-> IF game THEN sav ELSE NoSave,
                   made |-> IF ~game THEN NoSave
                            ELSE IF caller = "auto" /\ dir THEN DotSave ELSE sav]

Loaders(rom) == IF rom \in Games THEN {"bootstrap", "pico"} ELSE {"hb", "pico", "homebrew"}

FirstStep(rom) == IF rom \in Games THEN "save" ELSE "record"

\* gs().autorunWithLastRom, B not held and the file still there: autoLaunchRom;
\* otherwise the menu.
Autorun ==
    /\ main = "autorun"
    /\ \/ /\ job.rom # NoRom
          /\ Launch(job.rom, job.rom, "auto", Loaders(job.rom))
          /\ main' = FirstStep(job.rom) /\ music' = music
       \/ main' = "menu" /\ job' = NoJob /\ music' = TRUE
    /\ UNCHANGED <<card, disk, failedAt, progress, nandMounted>>

\* cMainWnd::launchSelected: the keys reach the list only when no progressWnd
\* is left in front of it.
Select ==
    /\ main = "menu" /\ progress = 0
    /\ \E rom \in Programs :
          Launch(rom, rom, "list", Loaders(rom)) /\ main' = FirstStep(rom)
    /\ progress' = 1 /\ failedAt' = "none"
    /\ UNCHANGED <<card, disk, music, nandMounted>>

\* launchPluginFile: no progress window, no save, no "last loaded".
SelectDocument ==
    /\ main = "menu" /\ progress = 0
    /\ \E doc \in Documents, rom \in Homebrews :
          Launch(rom, doc, "plugin", Loaders(rom))
    /\ main' = "recent" /\ failedAt' = "none"
    /\ UNCHANGED <<card, disk, progress, music, nandMounted>>

InitSaveTruncates ==      \* mutant: opened with O_TRUNC
    /\ main = "save"
    /\ \/ writable /\ saves' = [saves EXCEPT ![job.made] = "full"] /\ main' = "record"
          /\ UNCHANGED failedAt
       \/ UNCHANGED saves /\ Fail("save")
    /\ UNCHANGED <<card, ini, cheatData, lastInfo, recent, job, progress, music, nandMounted>>
InitSaveIgnoresShort ==   \* mutant: a short write counts as success
    /\ main = "save"
    /\ \/ writable /\ saves' \in {[saves EXCEPT ![job.made] = c] : c \in {"short", "full"}}
          /\ main' = "record" /\ UNCHANGED failedAt
       \/ UNCHANGED saves /\ Fail("save")
    /\ UNCHANGED <<card, ini, cheatData, lastInfo, recent, job, progress, music, nandMounted>>
\* initializeSaveFile: the file is opened without truncating it and grown to
\* its size; a failed write leaves it short.
InitSave ==
    /\ main = "save"
    /\ \/ /\ writable
          /\ saves' = IF Ready(job.made) THEN saves ELSE [saves EXCEPT ![job.made] = "full"]
          /\ main' = "record" /\ UNCHANGED failedAt
       \/ /\ writable /\ ~Ready(job.made)
          /\ saves' = [saves EXCEPT ![job.made] = "short"]
          /\ Fail("save")
       \/ UNCHANGED saves /\ Fail("save")          \* open() fails
    /\ UNCHANGED <<card, ini, cheatData, lastInfo, recent, job, progress, music, nandMounted>>

\* saveLastInfo; not for BOOT.NDS picked from the list (aMenu).
SaveLastInfo ==
    /\ main = "record" /\ main' = "recent"
    /\ \/ lastInfo' \in Saved(lastInfo, job.rom, NoRom)
       \/ job.rom \in Homebrews /\ job.caller = "list" /\ UNCHANGED lastInfo
    /\ UNCHANGED <<card, ini, cheatData, saves, recent, job, failedAt, progress, music, nandMounted>>

\* AddToRecent (not for homebrew launched by itself), then the music stops.
AddToRecent ==
    /\ main = "recent" /\ main' = "loader"
    /\ recent' \in IF job.listed \in Homebrews THEN {recent}
                   ELSE Saved(recent, Inserted(recent, job.listed), <<>>)
    /\ music' = FALSE
    /\ UNCHANGED <<card, ini, cheatData, saves, lastInfo, job, failedAt, progress, nandMounted>>

RemovedAfterReading(i) == i       \* mutant: the INI of the last launch stays
OldIniRemoved(i) == Removed(i, NoIni)

\* The loader is there: the progress window is shown and the old INI removed;
\* then prepareIni.  Without ndsbs.ini it gives up, the window still there.
\* (Power lost after the removal leaves what giving up leaves.)
Bootstrap ==
    /\ job.loader \in {"bootstrap", "hb"}
    /\ progress' = progress + 1
    /\ \/ ini' = OldIniRemoved(ini) /\ UNCHANGED nandMounted /\ Fail("ini")
       \/ \E mounts \in BOOLEAN, found \in SUBSET {Sdk50Key, Sdk5Key} :
          LET clean == OldIniRemoved(ini)
              restricted == Restricted(job.loader = "bootstrap")
              new == [rom |-> job.rom, sav |-> job.sav,
                      donors |-> Configured(Donors(clean), restricted, mounts, found)]
          IN  /\ nandMounted' = MountedBy(Donors(clean), restricted, mounts)
              /\ ini' \in Saved(clean, new, EmptyIni)
              /\ main' = IF job.loader = "bootstrap" THEN "cheats" ELSE "run"
              /\ UNCHANGED failedAt

\* The loader is missing; nds-bootstrap and Pico-Loader have shown the window
\* they hide, nds-bootstrap-hb has not.
LoaderMissing ==
    /\ job.loader # "homebrew"
    /\ progress' = IF job.loader = "hb" THEN Popped(progress) ELSE progress
    /\ Fail("loader") /\ UNCHANGED <<ini, nandMounted>>

\* Pico-Loader takes the machine over; runNdsFile does or fails.
OtherLoader ==
    /\ job.loader \in {"pico", "homebrew"}
    /\ \/ main' = "game" /\ UNCHANGED failedAt
       \/ job.loader = "homebrew" /\ Fail("run")
    /\ UNCHANGED <<ini, progress, nandMounted>>

StartLoader ==
    /\ main = "loader"
    /\ Bootstrap \/ LoaderMissing \/ OtherLoader
    /\ UNCHANGED <<card, cheatData, saves, lastInfo, recent, job, music>>

PrepareCheatsOver ==      \* mutant: cheatData.bin is not removed first
    /\ main = "cheats"
    /\ \/ cheatData' \in {cheatData, job.rom} /\ main' = "run" /\ UNCHANGED failedAt
       \/ cheatData' = NoCheats /\ Fail("cheats")
    /\ UNCHANGED <<card, ini, saves, lastInfo, recent, job, progress, music, nandMounted>>
\* cheatData.bin is removed; then there are no cheats to use, or prepareCheats
\* writes the file, or fails to (fopen), or removes it again and gives up: no
\* entry, or a check read past the end of a file that holds no code.
PrepareCheats ==
    /\ main = "cheats"
    /\ LET clean == Removed(cheatData, NoCheats)
       IN  \/ cheatData' \in {clean, IF writable THEN job.rom ELSE clean}
              /\ main' = "run" /\ UNCHANGED failedAt
           \/ cheatData' = clean /\ Fail("cheats")
    /\ UNCHANGED <<card, ini, saves, lastInfo, recent, job, progress, music, nandMounted>>

\* runNdsFile, after nds-bootstrap-hb's launch has hidden the progress window.
RunBootstrap ==
    /\ main = "run"
    /\ progress' = IF job.loader = "hb" THEN Popped(progress) ELSE progress
    /\ \/ main' = "game" /\ UNCHANGED failedAt
       \/ Fail("run")
    /\ UNCHANGED <<card, disk, job, music, nandMounted>>

ReturnOnce ==             \* mutant: launchSelected does not hide its window
    /\ main = "failed" /\ main' = "menu" /\ job' = NoJob
    /\ music' = TRUE
    /\ UNCHANGED <<card, disk, failedAt, progress, nandMounted>>
\* Back from launchRom: the music is started if it was stopped (at boot main
\* starts it anyway), launchSelected hides its progress window.
ReturnToMenu ==
    /\ main = "failed" /\ main' = "menu" /\ job' = NoJob
    /\ progress' = IF job.caller = "list" THEN Popped(progress) ELSE progress
    /\ music' = IF failedAt # "save" \/ job.caller = "auto" THEN TRUE ELSE music
    /\ UNCHANGED <<card, disk, failedAt, nandMounted>>

\* The game (external) writes the save it was given.
Play ==
    /\ main = "game" /\ job.rom \in Games /\ writable
    /\ \E f \in IF job.loader = "pico" THEN {job.sav}
                ELSE IF ini = NoIni THEN {} ELSE {ini.sav} \ {NoSave} :
          Ready(f) /\ saves' = [saves EXCEPT ![f] = "played"]
    /\ UNCHANGED <<card, ini, cheatData, lastInfo, recent, main, job, failedAt,
                   progress, music, nandMounted>>

Next == \/ EditCard \/ PowerOff \/ PowerOn
        \/ InitDonors \/ ReadLastInfo \/ Autorun
        \/ Select \/ SelectDocument
        \/ InitSave \/ SaveLastInfo \/ AddToRecent
        \/ StartLoader \/ PrepareCheats \/ RunBootstrap
        \/ ReturnToMenu \/ Play

Spec == Init /\ [][Next]_vars

-----------------------------------------------------------------------------
(* Strengthenings: how many progress windows there are at each step, what    *)
(* has been prepared by the time the launcher is started.                    *)

PastSave == {"record", "recent", "loader", "cheats", "run", "game"}

ProgressInv ==
    /\ main \in {"off", "donors", "resume", "autorun"} => progress = 0
    /\ main \in {"menu", "save", "record", "recent", "loader"} => progress <= 1
    /\ main \notin {"off", "menu"} /\ job.caller # "list" =>
          progress <= (IF main \in {"cheats", "run", "failed", "game"} THEN 1 ELSE 0)

JobInv ==
    /\ job.loader = "bootstrap" => job.rom \in Games
    /\ main \in PastSave \cup {"save"} => job.rom # NoRom /\ job.listed # NoRom
    /\ main = "save" \/ (main \in PastSave /\ job.rom \in Games) =>
          /\ job.rom \in Games /\ job.sav \in SaveFiles /\ job.made \in SaveFiles
          /\ job.made = job.sav \/ (job.caller = "auto" /\ job.sav.dir)
    /\ main \in PastSave /\ job.rom \in Games => writable /\ Ready(job.made)
    /\ main \in {"cheats", "run"} => job.loader \in {"bootstrap", "hb"}
    /\ main = "cheats" => job.loader = "bootstrap"

IniInv ==
    /\ main \in {"cheats", "run", "game"}
    /\ job.loader = "bootstrap" \/ (job.loader = "hb" /\ writable)
    => \/ ini \in {NoIni, EmptyIni}
       \/ ini.rom = job.rom /\ ini.sav = job.sav

CheatInv ==
    main \in {"run", "game"} /\ job.loader = "bootstrap" =>
        cheatData \in {NoCheats, job.rom}

\* nds-bootstrap never starts with the INI or the cheats of another launch,
\* whatever failed or was cut off before: it finds what this launch wrote, an
\* empty file or none.  Only a homebrew on a locked card escapes: no step
\* before the INI needs to write, and neither remove nor SaveIniFile is checked.
NoStaleBoot ==
    main = "game" =>
    /\ job.loader = "bootstrap" \/ (job.loader = "hb" /\ writable) =>
          \/ ini \in {NoIni, EmptyIni}
          \/ ini.rom = job.rom /\ ini.sav = job.sav
    /\ job.loader = "bootstrap" => cheatData \in {NoCheats, job.rom}

\* A game starts with a save file of its size at the path its launcher is
\* given, except one autorun with the saves/ folder: autoLaunchRom passes no
\* folder, and the file prepared is "/.sav".
SaveReady ==
    main = "game" /\ job.rom \in Games =>
        Ready(job.sav) \/ (job.caller = "auto" /\ job.sav.dir)

\* A launch that failed, wherever it did, gives the menu back: the music plays
\* again, and no progress window lies over the menu, but after a failure past
\* the point where the launcher's own one is up: those returns (prepareIni,
\* prepareCheats, runNdsFile) do not hide it, and it swallows every key.
MenuBack ==
    main = "menu" =>
    /\ music
    /\ progress > 0 => failedAt \in {"ini", "cheats", "run"}

\* The recently played list names nothing twice and stays within its length.
RecentDistinct ==
    /\ Len(recent) <= MaxRecent
    /\ \A i, j \in DOMAIN recent : recent[i] = recent[j] => i = j

\* No launch, failed or cut off, loses a save a game has written.
PlayedSaveKept ==
    [][\A f \in SaveFiles : saves[f] = "played" => saves'[f] = "played"]_vars

\* Configuring the donors at startup leaves the rest of the INI alone, and
\* drops no donor whose file is there or on a NAND that cannot be mounted,
\* unless the card refuses the whole file.
StartupPreserves ==
    [][main = "donors" /\ ini # NoIni /\ ini' # EmptyIni /\ main' = "resume" =>
         /\ ini' # NoIni /\ ini'.rom = ini.rom /\ ini'.sav = ini.sav
         /\ \A k \in DonorKeys :
               (\/ ini.donors[k] \in NandPaths /\ ~nandMounted'
                \/ ini.donors[k] = "sd" /\ "sd" \in files)
               => ini'.donors[k] = ini.donors[k]]_vars

\* What NdsBootstrapDonor.cpp:294 says of every use of it: "Preserve manual
\* NAND paths when they cannot be checked."  A launch has removed the INI the
\* paths are read from before it gets here.
NandDonorPreserved ==
    [][main = "loader" /\ main' \in {"cheats", "run"} =>
         \A k \in DonorKeys :
            /\ Donors(ini)[k] = "nand" /\ console.dsi /\ ~nandMounted'
            /\ ini' # NoIni /\ ini' # EmptyIni
            => ini'.donors[k] = "nand"]_vars
=============================================================================
